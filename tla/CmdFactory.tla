----------------------------- MODULE CmdFactory -----------------------------
(***************************************************************************)
(* cmd_factory (commands/cmd.h) and the commands it makes: raw memory  *)
(* from a pmr pool, in-place construction that may throw, the type-erased  *)
(* deleter a unique_cmd carries, and the std::unique_ptr operations a      *)
(* caller applies to handles.  One thread runs; `frame' is the call it is  *)
(* in.  Several factories, each on its own pool, may be in use.            *)
(***************************************************************************)
CONSTANTS Addr,     \* the addresses memory can be handed out at
          Pools,    \* the unsynchronized_pool_resource objects
          Handles,  \* the unique_cmd objects of the program
          NULL      \* nullptr, and "nothing" in a field

Types == {"add_vertex", "sentinel"}  \* the structs derived from cmd::base
Kinds == Types \cup {"chars"}        \* ... and the buffer of a pmr::string

ASSUME NullAssumption == NULL \notin Addr \cup Pools \cup Handles \cup Kinds

VARIABLES
  heap,    \* Addr -> what the pool handed out there
  handle,  \* Handles -> the pointer and the deleter of each unique_cmd
  frame,   \* the call in progress: make, a deleter call, a move assignment
  raised   \* did the last call of make end with an exception?

vars == <<heap, handle, frame, raised>>

(* A block is memory sized for a kind, got from pool mr; live says whether *)
(* an object's lifetime has begun in it; name is the sentinel's buffer.    *)
FreeBlock == [kind |-> NULL, mr |-> NULL, live |-> FALSE, name |-> NULL]
RawBlock(k, p) == [kind |-> k, mr |-> p, live |-> FALSE, name |-> NULL]
Object(k, p, n) == [kind |-> k, mr |-> p, live |-> TRUE, name |-> n]
Free(a) == heap[a] = FreeBlock

Empty == [ptr |-> NULL, mr |-> NULL, destroy |-> NULL]
Idle == [pc |-> "idle", T |-> NULL, mr |-> NULL, long |-> FALSE,
         c |-> NULL, h |-> NULL, src |-> NULL]

Init == /\ heap = [a \in Addr |-> FreeBlock]
        /\ handle = [h \in Handles |-> Empty]
        /\ frame = Idle
        /\ raised = FALSE

-----------------------------------------------------------------------------
(* make<T>(args), called to initialise the empty handle h.                 *)

(* MakeAllocate with a polymorphic_allocator<cmd::base>: too small for T   *)
MakeAllocateBase(h, T, p, long, a) ==
  /\ frame = Idle /\ handle[h].ptr = NULL
  /\ long => T = "sentinel"
  /\ Free(a)
  /\ heap' = [heap EXCEPT ![a] = RawBlock("base", p)]
  /\ frame' = [pc |-> "construct", T |-> T, mr |-> p, long |-> long,
               c |-> a, h |-> h, src |-> NULL]
  /\ raised' = FALSE
  /\ UNCHANGED handle

(* T* c = alloc.allocate(1).  `long' is the argument of sentinel: is the   *)
(* name longer than the string's inline buffer?                            *)
MakeAllocate(h, T, p, long, a) ==
  /\ frame = Idle /\ handle[h].ptr = NULL
  /\ long => T = "sentinel"
  /\ Free(a)
  /\ heap' = [heap EXCEPT ![a] = RawBlock(T, p)]
  /\ frame' = [pc |-> "construct", T |-> T, mr |-> p, long |-> long,
               c |-> a, h |-> h, src |-> NULL]
  /\ raised' = FALSE
  /\ UNCHANGED handle

(* allocate throws bad_alloc, outside the try block.                       *)
MakeAllocateThrows(h) ==
  /\ frame = Idle /\ handle[h].ptr = NULL
  /\ raised' = TRUE
  /\ UNCHANGED <<heap, handle, frame>>

(* std::construct_at without a further allocation.                         *)
Construct ==
  /\ frame.pc = "construct" /\ ~frame.long
  /\ heap' = [heap EXCEPT ![frame.c] = Object(frame.T, frame.mr, NULL)]
  /\ frame' = [frame EXCEPT !.pc = "return"]
  /\ UNCHANGED <<handle, raised>>

(* ConstructNamed with `name{cmd_name}': mr is not passed on to the string *)
ConstructOtherResource(b) ==
  /\ frame.pc = "construct" /\ frame.long
  /\ Free(b)
  /\ heap' = [heap EXCEPT
       ![b] = RawBlock("chars", CHOOSE p \in Pools : p # frame.mr),
       ![frame.c] = Object(frame.T, frame.mr, b)]
  /\ frame' = [frame EXCEPT !.pc = "return"]
  /\ UNCHANGED <<handle, raised>>

(* sentinel's name{cmd_name, mr} takes its buffer from the same pool.      *)
ConstructNamed(b) ==
  /\ frame.pc = "construct" /\ frame.long
  /\ Free(b)
  /\ heap' = [heap EXCEPT ![b] = RawBlock("chars", frame.mr),
                          ![frame.c] = Object(frame.T, frame.mr, b)]
  /\ frame' = [frame EXCEPT !.pc = "return"]
  /\ UNCHANGED <<handle, raised>>

(* ... or the string's allocation throws out of T's constructor.           *)
ConstructThrows ==
  /\ frame.pc = "construct" /\ frame.long
  /\ frame' = [frame EXCEPT !.pc = "catch"]
  /\ UNCHANGED <<heap, handle, raised>>

(* Catch without its alloc.deallocate(c, 1)                                *)
CatchKeepsBlock ==
  /\ frame.pc = "catch"
  /\ frame' = Idle /\ raised' = TRUE
  /\ UNCHANGED <<heap, handle>>

(* Catch without its throw: make goes on to return the freed memory        *)
CatchSwallows ==
  /\ frame.pc = "catch"
  /\ heap' = [heap EXCEPT ![frame.c] = FreeBlock]
  /\ frame' = [frame EXCEPT !.pc = "return"]
  /\ UNCHANGED <<handle, raised>>

(* catch (...) { alloc.deallocate(c, 1); throw; }                          *)
Catch ==
  /\ frame.pc = "catch"
  /\ heap' = [heap EXCEPT ![frame.c] = FreeBlock]
  /\ frame' = Idle /\ raised' = TRUE
  /\ UNCHANGED handle

(* Return with destroy<T> instantiated for another type                    *)
ReturnWrongDeleter ==
  /\ frame.pc = "return"
  /\ handle' = [handle EXCEPT ![frame.h] =
       [ptr |-> frame.c, mr |-> frame.mr, destroy |-> "add_vertex"]]
  /\ frame' = Idle
  /\ UNCHANGED <<heap, raised>>

(* Return whose deleter has another resource than the factory's            *)
ReturnOtherPool ==
  /\ frame.pc = "return"
  /\ handle' = [handle EXCEPT ![frame.h] =
       [ptr |-> frame.c, mr |-> CHOOSE p \in Pools : p # frame.mr, destroy |-> frame.T]]
  /\ frame' = Idle
  /\ UNCHANGED <<heap, raised>>

(* return unique_cmd{c, deleter{pool, destroy<T>}}                         *)
Return ==
  /\ frame.pc = "return"
  /\ handle' = [handle EXCEPT ![frame.h] =
       [ptr |-> frame.c, mr |-> frame.mr, destroy |-> frame.T]]
  /\ frame' = Idle
  /\ UNCHANGED <<heap, raised>>

-----------------------------------------------------------------------------
(* The unique_ptr operations that run a deleter.  reset (and ~unique_ptr)  *)
(* detaches the pointer and calls the deleter on it; move assignment does  *)
(* reset(src.release()) with the OLD deleter and then copies src's.        *)

CallDeleter(h, src) ==
  frame' = [pc |-> "deleter", T |-> handle[h].destroy, mr |-> handle[h].mr,
            long |-> FALSE, c |-> handle[h].ptr, h |-> h, src |-> src]

Reset(h) ==
  /\ frame = Idle /\ handle[h].ptr # NULL
  /\ CallDeleter(h, NULL)
  /\ handle' = [handle EXCEPT ![h].ptr = NULL]
  /\ UNCHANGED <<heap, raised>>

MoveAssign(s, d) ==
  /\ frame = Idle /\ s # d
  /\ CallDeleter(d, s)
  /\ handle' = [handle EXCEPT ![d].ptr = handle[s].ptr, ![s].ptr = NULL]
  /\ UNCHANGED <<heap, raised>>

AfterDelete ==
  IF frame.src = NULL THEN Idle
  ELSE [Idle EXCEPT !.pc = "assign", !.h = frame.h, !.src = frame.src]

(* No command to delete: `if (c)' is false (unique_ptr tests it as well).  *)
DeleterSkips ==
  /\ frame.pc = "deleter" /\ frame.c = NULL
  /\ frame' = AfterDelete
  /\ UNCHANGED <<heap, handle, raised>>

(* DestroyAt of the base alone: the name is not destroyed                  *)
DestroyAtBase ==
  /\ frame.pc = "deleter" /\ frame.c # NULL
  /\ heap' = [heap EXCEPT ![frame.c] = RawBlock(@.kind, @.mr)]
  /\ frame' = [frame EXCEPT !.pc = "deallocate"]
  /\ UNCHANGED <<handle, raised>>

(* destroy<T>: std::destroy_at(c) ends the object; ~sentinel gives the     *)
(* buffer of its name back.                                                *)
DestroyAt ==
  /\ frame.pc = "deleter" /\ frame.c # NULL
  /\ heap' = [a \in Addr |->
       IF a = frame.c THEN RawBlock(heap[a].kind, heap[a].mr)
       ELSE IF frame.T = "sentinel" /\ a = heap[frame.c].name THEN FreeBlock
       ELSE heap[a]]
  /\ frame' = [frame EXCEPT !.pc = "deallocate"]
  /\ UNCHANGED <<handle, raised>>

(* destroy<T>: alloc.deallocate(c, 1) to the memory_resource mr.           *)
Deallocate ==
  /\ frame.pc = "deallocate"
  /\ heap' = [heap EXCEPT ![frame.c] = FreeBlock]
  /\ frame' = AfterDelete
  /\ UNCHANGED <<handle, raised>>

(* get_deleter() = std::move(src.get_deleter()), a copy of both members.   *)
AssignDeleter ==
  /\ frame.pc = "assign"
  /\ handle' = [handle EXCEPT ![frame.h].mr = handle[frame.src].mr,
                              ![frame.h].destroy = handle[frame.src].destroy]
  /\ frame' = Idle
  /\ UNCHANGED <<heap, raised>>

-----------------------------------------------------------------------------
Call == \/ \E h \in Handles, T \in Types, p \in Pools, long \in BOOLEAN, a \in Addr :
             MakeAllocate(h, T, p, long, a)
        \/ \E h \in Handles : MakeAllocateThrows(h)
        \/ \E h \in Handles : Reset(h)
        \/ \E s, d \in Handles : MoveAssign(s, d)

Step == \/ Construct \/ (\E b \in Addr : ConstructNamed(b))
        \/ ConstructThrows \/ Catch \/ Return
        \/ DeleterSkips \/ DestroyAt \/ Deallocate \/ AssignDeleter

Next == Call \/ Step

Spec == Init /\ [][Next]_vars
-----------------------------------------------------------------------------
(* The shape of the state.                                                 *)
Orl(S) == S \cup {NULL}
Block == [kind : Orl(Kinds), mr : Orl(Pools), live : BOOLEAN, name : Orl(Addr)]
Handle == [ptr : Orl(Addr), mr : Orl(Pools), destroy : Orl(Types)]
Frame == [pc : {"idle", "construct", "return", "catch",
                "deleter", "deallocate", "assign"},
          T : Orl(Types), mr : Orl(Pools), long : BOOLEAN,
          c : Orl(Addr), h : Orl(Handles), src : Orl(Handles)]

TypeOK == /\ heap \in [Addr -> Block]
          /\ handle \in [Handles -> Handle]
          /\ frame \in Frame
          /\ raised \in BOOLEAN

Reassigned(h) == frame.src # NULL /\ h = frame.h

(* A handle that is not in the middle of an assignment carries the deleter *)
(* for what it points to: the object is alive, of the type destroy<T> was  *)
(* instantiated for, in the pool its memory came from (cmd.h, make and     *)
(* deleter; the hazard is the type erasure between the two).               *)
DeleterMatches ==
  \A h \in Handles : handle[h].ptr # NULL =>
    LET b == heap[handle[h].ptr] IN
    /\ b.live /\ b.kind \in Types
    /\ ~Reassigned(h) => b.kind = handle[h].destroy /\ b.mr = handle[h].mr

(* A command has one owner: no two handles share one, and a call that is   *)
(* creating or deleting one works on none that a handle still owns.        *)
OneOwner ==
  \A h \in Handles : handle[h].ptr # NULL =>
    /\ \A g \in Handles : handle[g].ptr = handle[h].ptr => g = h
    /\ handle[h].ptr # frame.c

(* Between calls all memory taken from the pools is a command some handle  *)
(* owns or the name of one: neither a throwing make nor a deletion leaks.  *)
NoLeak ==
  frame = Idle => \A a \in Addr : Free(a) \/ \E h \in Handles :
    handle[h].ptr # NULL /\ a \in {handle[h].ptr, heap[handle[h].ptr].name}

(* A command's name lives in the pool of the command (cmd_sentinel.h:12),  *)
(* in a buffer no other command uses.                                      *)
NameInPool ==
  \A a \in Addr : heap[a].name # NULL =>
    LET b == heap[a].name IN
    /\ heap[b].kind = "chars" /\ heap[b].mr = heap[a].mr
    /\ \A a2 \in Addr : heap[a2].name = b => a2 = a

(* A step gives a command's memory back only after the object in it was    *)
(* destroyed, as the type and to the pool it was allocated with.           *)
GivenBackAsTaken ==
  [][\A a \in Addr : heap[a].kind \in Types /\ heap'[a] = FreeBlock =>
        ~heap[a].live /\ heap[a].kind = frame.T /\ heap[a].mr = frame.mr]_vars

(* The factory implements the ownership a caller sees.                     *)
owned == [h \in Handles |->
            IF handle[h].ptr = NULL THEN NULL ELSE heap[handle[h].ptr].kind]
Owner == INSTANCE CmdOwner
ImplementsOwner == Owner!Spec
=============================================================================
