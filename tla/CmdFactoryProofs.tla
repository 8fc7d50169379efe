-------------------------- MODULE CmdFactoryProofs --------------------------
(* The inductive invariant of CmdFactory and what follows from it.         *)
EXTENDS CmdFactory, TLAPS

MakePc == {"construct", "return", "catch"}
DeletePc == {"deleter", "deallocate"}

(* What the call in progress knows of the block it works on, and of the    *)
(* handle it will fill or has just refilled.                               *)
FrameInv ==
  /\ frame.pc = "idle" => frame = Idle
  /\ frame.pc \in MakePc => /\ frame.c \in Addr /\ frame.h \in Handles
                            /\ frame.src = NULL
                            /\ handle[frame.h].ptr = NULL
                            /\ frame.long => frame.T = "sentinel"
  /\ frame.pc \in DeletePc => frame.h \in Handles
  /\ frame.pc = "deallocate" => frame.c \in Addr
  /\ frame.pc = "assign" => frame.c = NULL /\ frame.src # NULL
  /\ frame.c # NULL =>
       LET b == heap[frame.c] IN
       /\ b.kind = frame.T /\ frame.T \in Types
       /\ b.mr = frame.mr /\ frame.mr \in Pools
       /\ b.live <=> frame.pc \in {"return", "deleter"}
  /\ frame.src # NULL =>
       /\ frame.pc \in DeletePc \cup {"assign"}
       /\ frame.h \in Handles /\ frame.src # frame.h
       /\ handle[frame.src].ptr = NULL
       /\ handle[frame.h].ptr # NULL =>
            LET b == heap[handle[frame.h].ptr] IN
            /\ b.kind = handle[frame.src].destroy
            /\ b.mr = handle[frame.src].mr

(* A block is either free or fully described; only a living sentinel has a *)
(* name buffer.                                                            *)
BlockInv ==
  \A a \in Addr :
    /\ heap[a].kind = NULL => Free(a)
    /\ heap[a].kind # NULL => heap[a].mr \in Pools
    /\ heap[a].kind = "chars" => ~heap[a].live
    /\ heap[a].name # NULL => heap[a].live /\ heap[a].kind = "sentinel"

(* Every block in use is reachable: nothing has been lost.                 *)
Reachable ==
  \A a \in Addr :
    /\ heap[a].kind \in Types => a = frame.c \/ \E h \in Handles : handle[h].ptr = a
    /\ heap[a].kind = "chars" => \E o \in Addr : heap[o].name = a

IInv == /\ TypeOK /\ FrameInv /\ BlockInv /\ Reachable
        /\ DeleterMatches /\ OneOwner /\ NameInPool

USE NullAssumption DEF Orl, Kinds, Types, Block, Handle, Frame,
  FreeBlock, RawBlock, Object, Free, Idle
-----------------------------------------------------------------------------
(* Nothing is allocated at the start.                                      *)
LEMMA InitInv == Init => IInv
<1> SUFFICES ASSUME Init PROVE IInv
  OBVIOUS
<1> USE DEF Init, Empty
<1>1. TypeOK
  BY DEF TypeOK
<1>2. FrameInv
  BY DEF FrameInv, MakePc, DeletePc
<1>3. BlockInv /\ Reachable /\ NameInPool
  BY DEF BlockInv, Reachable, NameInPool
<1>4. DeleterMatches /\ OneOwner
  BY DEF DeleterMatches, OneOwner
<1> QED BY <1>1, <1>2, <1>3, <1>4 DEF IInv

(* A fresh block belongs to the call and to nobody else.                   *)
LEMMA MakeAllocateStep ==
  ASSUME IInv, NEW h \in Handles, NEW T \in Types, NEW p \in Pools,
         NEW long \in BOOLEAN, NEW a \in Addr, MakeAllocate(h, T, p, long, a)
  PROVE  IInv'
<1> USE DEF IInv, MakeAllocate, TypeOK
<1>1. TypeOK'
  OBVIOUS
<1>2. FrameInv'
  BY DEF FrameInv
<1>3. BlockInv'
  BY DEF BlockInv
<1>4. Reachable'
  BY DEF Reachable
<1>5. DeleterMatches'
  BY DEF DeleterMatches, Reassigned
<1>6. OneOwner'
  BY DEF OneOwner, DeleterMatches
<1>7. NameInPool'
  BY DEF NameInPool
<1> QED BY <1>1, <1>2, <1>3, <1>4, <1>5, <1>6, <1>7

(* The object begins its life in the block of the call.                    *)
LEMMA ConstructStep ==
  ASSUME IInv, Construct
  PROVE  IInv'
<1> USE DEF IInv, Construct, TypeOK
<1>1. TypeOK'
  BY DEF FrameInv, MakePc
<1>2. FrameInv'
  BY DEF FrameInv, MakePc
<1>3. BlockInv'
  BY DEF BlockInv, FrameInv, MakePc
<1>4. Reachable'
  BY DEF Reachable, FrameInv, BlockInv
<1>5. DeleterMatches'
  BY DEF DeleterMatches, Reassigned, FrameInv
<1>6. OneOwner'
  BY DEF OneOwner
<1>7. NameInPool'
  BY DEF NameInPool, FrameInv
<1> QED BY <1>1, <1>2, <1>3, <1>4, <1>5, <1>6, <1>7

(* The name of a new sentinel: two blocks change, and b was free before.   *)
LEMMA ConstructNamedStep ==
  ASSUME IInv, NEW b \in Addr, ConstructNamed(b)
  PROVE  IInv'
<1> USE DEF IInv, TypeOK
<1> DEFINE c == frame.c
<1>1. /\ c \in Addr /\ c # b /\ heap[c].name = NULL /\ ~heap[c].live
      /\ heap[c].kind = "sentinel" /\ heap[c].mr = frame.mr /\ frame.mr \in Pools
      /\ frame.T = "sentinel" /\ frame.src = NULL
  BY DEF ConstructNamed, FrameInv, MakePc, BlockInv
<1>2. /\ heap' = [a \in Addr |-> IF a = c THEN Object("sentinel", frame.mr, b) ELSE
                               IF a = b THEN RawBlock("chars", frame.mr) ELSE heap[a]]
      /\ handle' = handle /\ raised' = raised
      /\ frame' = [frame EXCEPT !.pc = "return"]
  BY <1>1 DEF ConstructNamed
<1>4. /\ \A h \in Handles : handle[h].ptr # b /\ handle[h].ptr # c
      /\ \A a \in Addr : heap[a].name # b
  BY <1>1 DEF ConstructNamed, DeleterMatches, NameInPool
<1>5. TypeOK'
  BY <1>1, <1>2
<1>6. FrameInv'
  BY <1>1, <1>2, <1>4 DEF FrameInv, MakePc, ConstructNamed
<1>7. BlockInv'
  BY <1>1, <1>2 DEF BlockInv
<1>8. Reachable'
  <2> SUFFICES ASSUME NEW a \in Addr, heap'[a].kind # NULL
               PROVE  /\ heap'[a].kind \in Types =>
                           a = frame'.c \/ \E h \in Handles : handle'[h].ptr = a
                      /\ heap'[a].kind = "chars" => \E o \in Addr : heap'[o].name = a
    BY DEF Reachable
  <2>1. CASE a = c  BY <1>1, <1>2, <2>1
  <2>2. CASE a = b  BY <1>1, <1>2, <2>2
  <2>3. CASE a # c /\ a # b
    <3>1. heap'[a] = heap[a]
      BY <1>2, <2>3
    <3>2. heap[a].kind \in Types => \E h \in Handles : handle[h].ptr = a
      BY <2>3 DEF Reachable
    <3>3. ASSUME heap[a].kind = "chars"
          PROVE  \E o \in Addr : heap'[o].name = a
      <4>1. PICK o \in Addr : heap[o].name = a
        BY <3>3 DEF Reachable
      <4>2. o # c /\ o # b
        BY <1>1, <4>1 DEF ConstructNamed
      <4> QED BY <1>2, <4>1, <4>2
    <3> QED BY <1>2, <3>1, <3>2, <3>3
  <2> QED BY <2>1, <2>2, <2>3
<1>9. DeleterMatches'
  BY <1>1, <1>2, <1>4 DEF DeleterMatches, Reassigned
<1>10. OneOwner'
  BY <1>1, <1>2 DEF OneOwner
<1>11. NameInPool'
  BY <1>1, <1>2, <1>4 DEF NameInPool
<1> QED BY <1>5, <1>6, <1>7, <1>8, <1>9, <1>10, <1>11

(* A constructor that throws leaves the memory raw.                        *)
LEMMA ConstructThrowsStep ==
  ASSUME IInv, ConstructThrows
  PROVE  IInv'
<1> USE DEF IInv, ConstructThrows, TypeOK
<1>1. TypeOK'
  OBVIOUS
<1>2. FrameInv'
  BY DEF FrameInv, MakePc
<1>3. BlockInv'
  BY DEF BlockInv
<1>4. Reachable'
  BY DEF Reachable
<1>5. DeleterMatches'
  BY DEF DeleterMatches, Reassigned
<1>6. OneOwner'
  BY DEF OneOwner
<1>7. NameInPool'
  BY DEF NameInPool
<1> QED BY <1>1, <1>2, <1>3, <1>4, <1>5, <1>6, <1>7

(* The catch block frees the one block nobody owns.                        *)
LEMMA CatchStep ==
  ASSUME IInv, Catch
  PROVE  IInv'
<1> USE DEF IInv, Catch, TypeOK
<1>1. TypeOK'
  OBVIOUS
<1>2. FrameInv'
  BY DEF FrameInv, MakePc, DeletePc
<1>3. BlockInv'
  BY DEF BlockInv
<1>4. Reachable'
  BY DEF Reachable, FrameInv, BlockInv
<1>5. DeleterMatches'
  BY DEF DeleterMatches, Reassigned, FrameInv, DeletePc
<1>6. OneOwner'
  BY DEF OneOwner
<1>7. NameInPool'
  BY DEF NameInPool, FrameInv
<1> QED BY <1>1, <1>2, <1>3, <1>4, <1>5, <1>6, <1>7

(* The call hands its block, with the matching deleter, to the handle.     *)
LEMMA ReturnStep ==
  ASSUME IInv, Return
  PROVE  IInv'
<1> USE DEF IInv, Return, TypeOK
<1>1. TypeOK'
  OBVIOUS
<1>2. FrameInv'
  BY DEF FrameInv, MakePc, DeletePc
<1>3. BlockInv'
  BY DEF BlockInv
<1>4. Reachable'
  BY DEF Reachable, FrameInv, MakePc
<1>5. DeleterMatches'
  BY DEF DeleterMatches, Reassigned, FrameInv
<1>6. OneOwner'
  BY DEF OneOwner
<1>7. NameInPool'
  BY DEF NameInPool
<1> QED BY <1>1, <1>2, <1>3, <1>4, <1>5, <1>6, <1>7

(* The handle gives its command up to the deleter.                         *)
LEMMA ResetStep ==
  ASSUME IInv, NEW h \in Handles, Reset(h)
  PROVE  IInv'
<1> USE DEF IInv, Reset, CallDeleter, TypeOK
<1>1. TypeOK'
  OBVIOUS
<1>2. FrameInv'
  BY DEF FrameInv, BlockInv, DeleterMatches, Reassigned
<1>3. BlockInv'
  BY DEF BlockInv
<1>4. Reachable'
  BY DEF Reachable
<1>5. DeleterMatches'
  BY DEF DeleterMatches, Reassigned
<1>6. OneOwner'
  BY DEF OneOwner
<1>7. NameInPool'
  BY DEF NameInPool
<1> QED BY <1>1, <1>2, <1>3, <1>4, <1>5, <1>6, <1>7

(* Two handles change: no command ends up in both.                         *)
LEMMA MoveAssignStep ==
  ASSUME IInv, NEW s \in Handles, NEW d \in Handles, MoveAssign(s, d)
  PROVE  IInv'
<1> USE DEF IInv, MoveAssign, CallDeleter, TypeOK
<1>1. TypeOK'
  OBVIOUS
<1>2. FrameInv'
  BY DEF FrameInv, MakePc, DeletePc, BlockInv, DeleterMatches, Reassigned
<1>3. BlockInv'
  BY DEF BlockInv
<1>4. Reachable'
  BY DEF Reachable
<1>5. DeleterMatches'
  BY DEF DeleterMatches, Reassigned
<1>6. OneOwner'
  BY DEF OneOwner
<1>7. NameInPool'
  BY DEF NameInPool
<1> QED BY <1>1, <1>2, <1>3, <1>4, <1>5, <1>6, <1>7

(* An empty handle: nothing to delete.                                     *)
LEMMA DeleterSkipsStep ==
  ASSUME IInv, DeleterSkips
  PROVE  IInv'
<1> USE DEF IInv, DeleterSkips, AfterDelete, TypeOK
<1>1. TypeOK'
  OBVIOUS
<1>2. FrameInv'
  BY DEF FrameInv, MakePc, DeletePc
<1>3. BlockInv'
  BY DEF BlockInv
<1>4. Reachable'
  BY DEF Reachable
<1>5. DeleterMatches'
  BY DEF DeleterMatches, Reassigned
<1>6. OneOwner'
  BY DEF OneOwner
<1>7. NameInPool'
  BY DEF NameInPool
<1> QED BY <1>1, <1>2, <1>3, <1>4, <1>5, <1>6, <1>7

(* Destruction: the name of the object, if any, is freed with it, and no other *)
(* command refers to that buffer.                                          *)
LEMMA DestroyAtStep ==
  ASSUME IInv, DestroyAt
  PROVE  IInv'
<1> USE DEF IInv, TypeOK
<1> DEFINE c == frame.c
           n == heap[c].name
<1>1. /\ c \in Addr /\ frame.h \in Handles /\ heap[c].kind \in Types
      /\ heap[c].kind = frame.T
  BY DEF DestroyAt, FrameInv, DeletePc
<1>2. n # NULL => n \in Addr /\ frame.T = "sentinel" /\ heap[n].kind = "chars" /\ n # c
  BY <1>1 DEF BlockInv, NameInPool
<1>3. heap' = [a \in Addr |-> IF a = c THEN RawBlock(heap[c].kind, heap[c].mr) ELSE
                              IF a = n THEN FreeBlock ELSE heap[a]]
  <2>1. \A a \in Addr : a = n => frame.T = "sentinel"
    BY <1>2
  <2> QED BY <2>1, <1>1 DEF DestroyAt
<1>4. /\ handle' = handle /\ raised' = raised
      /\ frame' = [frame EXCEPT !.pc = "deallocate"]
  BY DEF DestroyAt
<1>5. \A h \in Handles : handle[h].ptr # c /\ (n # NULL => handle[h].ptr # n)
  BY <1>1, <1>2 DEF DeleterMatches, OneOwner
<1>6. \A a \in Addr : a # c /\ heap[a].name # NULL => heap[a].name # n
  BY <1>1 DEF NameInPool
<1>7. \A a \in Addr : heap[a].name # NULL => heap[a].name # c
  BY <1>1 DEF NameInPool
<1>8. TypeOK'
  BY <1>1, <1>3, <1>4
<1>9. FrameInv'
  BY <1>1, <1>2, <1>3, <1>4, <1>5 DEF FrameInv, MakePc, DeletePc
<1>10. BlockInv'
  BY <1>1, <1>3 DEF BlockInv
<1>11. Reachable'
  <2> SUFFICES ASSUME NEW a \in Addr
               PROVE  /\ heap'[a].kind \in Types =>
                           a = frame'.c \/ \E h \in Handles : handle'[h].ptr = a
                      /\ heap'[a].kind = "chars" => \E o \in Addr : heap'[o].name = a
    BY DEF Reachable
  <2>1. CASE a = c  BY <1>1, <1>3, <1>4, <2>1
  <2>2. CASE a # c /\ a = n  BY <1>3, <2>2
  <2>3. CASE a # c /\ a # n
    <3>1. heap'[a] = heap[a]
      BY <1>3, <2>3
    <3>2. heap[a].kind \in Types => \E h \in Handles : handle[h].ptr = a
      BY <2>3 DEF Reachable
    <3>3. ASSUME heap[a].kind = "chars"
          PROVE  \E o \in Addr : heap'[o].name = a
      <4>1. PICK o \in Addr : heap[o].name = a
        BY <3>3 DEF Reachable
      <4>2. o # c
        BY <4>1, <2>3
      <4>3. o # n
        BY <1>2, <4>1 DEF BlockInv
      <4> QED BY <1>3, <4>1, <4>2, <4>3
    <3> QED BY <1>4, <3>1, <3>2, <3>3
  <2> QED BY <2>1, <2>2, <2>3
<1>12. DeleterMatches'
  BY <1>1, <1>3, <1>4, <1>5 DEF DeleterMatches, Reassigned
<1>13. OneOwner'
  BY <1>4 DEF OneOwner
<1>14. NameInPool'
  BY <1>1, <1>3, <1>6, <1>7 DEF NameInPool
<1> QED BY <1>8, <1>9, <1>10, <1>11, <1>12, <1>13, <1>14

(* The block of the call is raw by now and goes back to the pool.          *)
LEMMA DeallocateStep ==
  ASSUME IInv, Deallocate
  PROVE  IInv'
<1> USE DEF IInv, Deallocate, AfterDelete, TypeOK
<1>1. TypeOK'
  OBVIOUS
<1>2. FrameInv'
  BY DEF FrameInv, MakePc, DeletePc, OneOwner
<1>3. BlockInv'
  BY DEF BlockInv
<1>4. Reachable'
  BY DEF Reachable, FrameInv, BlockInv
<1>5. DeleterMatches'
  BY DEF DeleterMatches, Reassigned, FrameInv
<1>6. OneOwner'
  BY DEF OneOwner
<1>7. NameInPool'
  BY DEF NameInPool, FrameInv
<1> QED BY <1>1, <1>2, <1>3, <1>4, <1>5, <1>6, <1>7

(* The deleter follows the pointer: it matches again.                      *)
LEMMA AssignDeleterStep ==
  ASSUME IInv, AssignDeleter
  PROVE  IInv'
<1> USE DEF IInv, AssignDeleter, TypeOK
<1>1. TypeOK'
  BY DEF FrameInv
<1>2. FrameInv'
  BY DEF FrameInv, MakePc, DeletePc
<1>3. BlockInv'
  BY DEF BlockInv
<1>4. Reachable'
  BY DEF Reachable, FrameInv
<1>5. DeleterMatches'
  BY DEF DeleterMatches, Reassigned, FrameInv
<1>6. OneOwner'
  BY DEF OneOwner
<1>7. NameInPool'
  BY DEF NameInPool
<1> QED BY <1>1, <1>2, <1>3, <1>4, <1>5, <1>6, <1>7

(* make throws before it allocated anything.                               *)
LEMMA MakeAllocateThrowsStep ==
  ASSUME IInv, NEW h \in Handles, MakeAllocateThrows(h)
  PROVE  IInv'
BY DEF MakeAllocateThrows, IInv, TypeOK, FrameInv, BlockInv, Reachable,
       DeleterMatches, Reassigned, OneOwner, NameInPool

LEMMA StutterStep == IInv /\ UNCHANGED vars => IInv'
BY DEF vars, IInv, TypeOK, FrameInv, BlockInv, Reachable,
       DeleterMatches, Reassigned, OneOwner, NameInPool

(* The invariant is inductive.                                             *)
LEMMA StepInv == IInv /\ [Next]_vars => IInv'
<1> SUFFICES ASSUME IInv, [Next]_vars PROVE IInv'
  OBVIOUS
<1>1. ASSUME NEW h \in Handles, NEW T \in Types, NEW p \in Pools,
             NEW long \in BOOLEAN, NEW a \in Addr, MakeAllocate(h, T, p, long, a)
      PROVE  IInv'
  BY <1>1, MakeAllocateStep
<1>2. ASSUME NEW h \in Handles, MakeAllocateThrows(h) PROVE IInv'
  BY <1>2, MakeAllocateThrowsStep
<1>3. ASSUME NEW h \in Handles, Reset(h) PROVE IInv'
  BY <1>3, ResetStep
<1>4. ASSUME NEW s \in Handles, NEW d \in Handles, MoveAssign(s, d) PROVE IInv'
  BY <1>4, MoveAssignStep
<1>5. CASE Construct  BY <1>5, ConstructStep
<1>6. ASSUME NEW b \in Addr, ConstructNamed(b) PROVE IInv'
  BY <1>6, ConstructNamedStep
<1>7. CASE ConstructThrows  BY <1>7, ConstructThrowsStep
<1>8. CASE Catch  BY <1>8, CatchStep
<1>9. CASE Return  BY <1>9, ReturnStep
<1>10. CASE DeleterSkips  BY <1>10, DeleterSkipsStep
<1>11. CASE DestroyAt  BY <1>11, DestroyAtStep
<1>12. CASE Deallocate  BY <1>12, DeallocateStep
<1>13. CASE AssignDeleter  BY <1>13, AssignDeleterStep
<1>14. CASE UNCHANGED vars  BY <1>14, StutterStep
<1> QED BY <1>1, <1>2, <1>3, <1>4, <1>5, <1>6, <1>7, <1>8, <1>9, <1>10, <1>11,
           <1>12, <1>13, <1>14 DEF Next, Call, Step

LEMMA Invariance == Spec => []IInv
BY InitInv, StepInv, PTL DEF Spec
-----------------------------------------------------------------------------
(* The state keeps its shape, whatever the number of blocks and handles.   *)
THEOREM TypeCorrect == Spec => []TypeOK
<1>1. IInv => TypeOK  BY DEF IInv
<1> QED BY <1>1, Invariance, PTL

(* destroy<T> always meets an object of type T in memory of its pool.      *)
THEOREM DeletersMatch == Spec => []DeleterMatches
<1>1. IInv => DeleterMatches  BY DEF IInv
<1> QED BY <1>1, Invariance, PTL

(* A command never has two owners.                                         *)
THEOREM SingleOwner == Spec => []OneOwner
<1>1. IInv => OneOwner  BY DEF IInv
<1> QED BY <1>1, Invariance, PTL

(* A name's buffer comes from the pool of its command.                     *)
THEOREM NamesInPool == Spec => []NameInPool
<1>1. IInv => NameInPool  BY DEF IInv
<1> QED BY <1>1, Invariance, PTL

(* Between calls nothing that was allocated is out of the handles' reach.  *)
THEOREM NothingLeaks == Spec => []NoLeak
<1>1. ASSUME IInv, frame = Idle, NEW a \in Addr, ~Free(a)
      PROVE  \E h \in Handles :
               handle[h].ptr # NULL /\ a \in {handle[h].ptr, heap[handle[h].ptr].name}
  <2>1. /\ \A x \in Addr : heap[x].kind \in Types => \E h \in Handles : handle[h].ptr = x
        /\ \A x \in Addr : heap[x].kind = "chars" => \E o \in Addr : heap[o].name = x
        /\ \A x \in Addr : heap[x].name # NULL => heap[x].kind = "sentinel"
        /\ heap[a].kind \in Kinds
    BY <1>1 DEF IInv, TypeOK, BlockInv, Reachable
  <2>2. CASE heap[a].kind \in Types
    BY <2>1, <2>2
  <2>3. CASE heap[a].kind = "chars"
    <3>1. PICK o \in Addr : heap[o].name = a
      BY <2>1, <2>3
    <3>2. PICK h \in Handles : handle[h].ptr = o
      BY <2>1, <3>1
    <3> QED BY <3>1, <3>2
  <2> QED BY <2>1, <2>2, <2>3
<1>2. IInv => NoLeak
  BY <1>1 DEF NoLeak
<1> QED BY <1>2, Invariance, PTL

(* Memory is given back raw, by the type and to the pool it was taken for. *)
THEOREM ReturnedAsTaken == Spec => GivenBackAsTaken
<1>1. ASSUME IInv, [Next]_vars, NEW a \in Addr,
             heap[a].kind \in Types, heap'[a] = FreeBlock
      PROVE  ~heap[a].live /\ heap[a].kind = frame.T /\ heap[a].mr = frame.mr
  <2>1. heap[a].kind # NULL /\ heap[a].kind # "chars"
    BY <1>1
  <2>2. CASE Catch
    BY <1>1, <2>1, <2>2 DEF Catch, IInv, TypeOK, FrameInv, MakePc
  <2>3. CASE Deallocate
    BY <1>1, <2>1, <2>3 DEF Deallocate, IInv, TypeOK, FrameInv, DeletePc
  <2>4. CASE DestroyAt
    <3>1. frame.c \in Addr /\ frame.T \in Types
      BY <1>1, <2>4 DEF DestroyAt, IInv, TypeOK, FrameInv
    <3>2. heap[frame.c].name # NULL => heap[heap[frame.c].name].kind = "chars"
      BY <1>1, <3>1 DEF IInv, NameInPool
    <3>3. a # frame.c /\ heap'[a] # heap[a] => a = heap[frame.c].name
      BY <2>4 DEF DestroyAt
    <3>4. a = frame.c => heap'[a].kind = heap[a].kind
      BY <2>4, <3>1 DEF DestroyAt
    <3> QED BY <1>1, <2>1, <3>2, <3>3, <3>4
  <2>5. CASE \/ Construct \/ \E b \in Addr : ConstructNamed(b)
             \/ \E h \in Handles, T \in Types, p \in Pools, long \in BOOLEAN, b \in Addr :
                  MakeAllocate(h, T, p, long, b)
    BY <1>1, <2>1, <2>5
       DEF Construct, ConstructNamed, MakeAllocate, IInv, TypeOK, FrameInv
  <2>6. CASE heap' = heap
    BY <1>1, <2>1, <2>6
  <2> QED BY <1>1, <2>2, <2>3, <2>4, <2>5, <2>6
          DEF Next, Call, Step, vars, MakeAllocateThrows, Reset, MoveAssign,
              ConstructThrows, Return, DeleterSkips, AssignDeleter
<1>2. IInv /\ [Next]_vars =>
        [\A a \in Addr : heap[a].kind \in Types /\ heap'[a] = FreeBlock =>
            ~heap[a].live /\ heap[a].kind = frame.T /\ heap[a].mr = frame.mr]_vars
  BY <1>1
<1> QED BY <1>2, Invariance, PTL DEF Spec, GivenBackAsTaken
-----------------------------------------------------------------------------
(* What a caller sees of each step: a return fills the handle, a reset     *)
(* empties one, a move assignment transfers a command, and the steps in    *)
(* between change nothing.                                                 *)
LEMMA OwnerStep == IInv /\ IInv' /\ [Next]_vars => [Owner!Next]_owned
<1> SUFFICES ASSUME IInv, IInv', [Next]_vars PROVE Owner!Next \/ owned' = owned
  OBVIOUS
<1>1. /\ heap \in [Addr -> Block] /\ handle \in [Handles -> Handle]
      /\ heap' \in [Addr -> Block] /\ handle' \in [Handles -> Handle]
      /\ \A h \in Handles : handle[h].ptr # NULL => heap[handle[h].ptr].kind \in Types
  BY DEF IInv, TypeOK, DeleterMatches
<1>2. ASSUME handle' = handle,
             \A h \in Handles : handle[h].ptr # NULL =>
               heap'[handle[h].ptr].kind = heap[handle[h].ptr].kind
      PROVE  owned' = owned
  BY <1>1, <1>2 DEF owned
<1>3. CASE Return
  <2>1. /\ frame.h \in Handles /\ frame.c \in Addr /\ frame.T \in Types
        /\ handle[frame.h].ptr = NULL /\ heap[frame.c].kind = frame.T
    BY <1>3 DEF Return, IInv, FrameInv, MakePc
  <2>2. owned[frame.h] = NULL /\ owned' = [owned EXCEPT ![frame.h] = frame.T]
    BY <1>1, <1>3, <2>1 DEF Return, owned
  <2> QED BY <2>1, <2>2 DEF Owner!Next, Owner!Make
<1>4. ASSUME NEW h \in Handles, Reset(h) PROVE Owner!Next
  <2>1. owned[h] # NULL /\ owned' = [owned EXCEPT ![h] = NULL]
    BY <1>1, <1>4 DEF Reset, owned
  <2> QED BY <2>1 DEF Owner!Next, Owner!Reset
<1>5. ASSUME NEW s \in Handles, NEW d \in Handles, MoveAssign(s, d) PROVE Owner!Next
  <2>1. s # d /\ owned' = [owned EXCEPT ![d] = owned[s], ![s] = NULL]
    BY <1>1, <1>5 DEF MoveAssign, owned
  <2> QED BY <2>1 DEF Owner!Next, Owner!Move
<1>6. CASE AssignDeleter
  <2>1. heap' = heap /\ \A h \in Handles : handle'[h].ptr = handle[h].ptr
    BY <1>1, <1>6 DEF AssignDeleter
  <2> QED BY <2>1 DEF owned
<1>7. ASSUME NEW h \in Handles, NEW T \in Types, NEW p \in Pools,
             NEW long \in BOOLEAN, NEW a \in Addr, MakeAllocate(h, T, p, long, a)
      PROVE  owned' = owned
  BY <1>1, <1>2, <1>7 DEF MakeAllocate
<1>8. CASE Construct
  BY <1>1, <1>2, <1>8 DEF Construct, IInv, OneOwner
<1>9. ASSUME NEW b \in Addr, ConstructNamed(b) PROVE owned' = owned
  BY <1>1, <1>2, <1>9 DEF ConstructNamed, IInv, OneOwner
<1>10. CASE Catch \/ Deallocate
  BY <1>1, <1>2, <1>10 DEF Catch, Deallocate, IInv, OneOwner
<1>11. CASE DestroyAt
  <2>1. \A h \in Handles : handle[h].ptr # NULL =>
          handle[h].ptr \in Addr /\ handle[h].ptr # frame.c
          /\ handle[h].ptr # heap[frame.c].name
    BY <1>1, <1>11 DEF DestroyAt, IInv, TypeOK, OneOwner, NameInPool
  <2> QED BY <1>2, <1>11, <2>1 DEF DestroyAt
<1>12. CASE ConstructThrows \/ DeleterSkips \/ UNCHANGED vars
            \/ \E h \in Handles : MakeAllocateThrows(h)
  BY <1>2, <1>12 DEF ConstructThrows, DeleterSkips, MakeAllocateThrows, vars
<1> QED BY <1>3, <1>4, <1>5, <1>6, <1>7, <1>8, <1>9, <1>10, <1>11, <1>12
        DEF Next, Call, Step

(* The factory, its deleters and std::unique_ptr together implement plain  *)
(* single ownership: CmdOwner with `owned' read off handles and heap.      *)
THEOREM Refinement == Spec => ImplementsOwner
<1>1. Init => Owner!Init
  BY DEF Init, Empty, Owner!Init, owned
<1> QED BY <1>1, OwnerStep, Invariance, PTL DEF Spec, ImplementsOwner, Owner!Spec
=============================================================================
