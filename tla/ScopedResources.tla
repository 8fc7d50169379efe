-------------------------- MODULE ScopedResources --------------------------
(***************************************************************************)
(* What C++ scopes and constructors promise of resources acquired in a     *)
(* fixed order: one at a time, each only while all earlier ones are held,  *)
(* and given back one at a time in the reverse order.                      *)
(***************************************************************************)
EXTENDS Naturals, Sequences

CONSTANT Order   \* the resources, in the order they are acquired

VARIABLE held    \* the set of those held

First(n) == {Order[i] : i \in 1..n}

Init == held = {}

Acquire == \E n \in 1..Len(Order) : held = First(n - 1) /\ held' = First(n)
Release == \E n \in 1..Len(Order) : held = First(n) /\ held' = First(n - 1)

Next == Acquire \/ Release

Spec == Init /\ [][Next]_held
=============================================================================
