------------------------------ MODULE CmdOwner ------------------------------
(***************************************************************************)
(* What cmd_factory and its unique_cmd handles promise a caller: a handle  *)
(* is empty or owns one command, a make either fills an empty handle or    *)
(* (when it throws) changes nothing, and a move transfers the command.     *)
(* CmdFactory is the implementation with memory, deleters and exceptions.  *)
(***************************************************************************)
CONSTANTS Handles,  \* the unique_cmd objects of the program
          Types,    \* the command types a factory can make
          NULL      \* the empty handle

VARIABLE owned      \* the type of the command each handle owns, or NULL

Init == owned = [h \in Handles |-> NULL]

Make(h, T) == owned[h] = NULL /\ owned' = [owned EXCEPT ![h] = T]

Reset(h) == owned[h] # NULL /\ owned' = [owned EXCEPT ![h] = NULL]

Move(s, d) == s # d /\ owned' = [owned EXCEPT ![d] = owned[s], ![s] = NULL]

Next == \/ \E h \in Handles : Reset(h) \/ \E T \in Types : Make(h, T)
        \/ \E s, d \in Handles : Move(s, d)

Spec == Init /\ [][Next]_owned
=============================================================================
