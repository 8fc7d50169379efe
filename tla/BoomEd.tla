------------------------------- MODULE BoomEd -------------------------------
(***************************************************************************)
(* The program: main builds an app, runs it and lets it go.  pc names the  *)
(* next call of the one thread, through platform::app's constructor, the   *)
(* commands made in app's constructor (over CmdFactory), the frame loop    *)
(* and the destructors.  An exception nobody catches ends in               *)
(* std::terminate, with the stack unwound or not: C++ leaves that open.    *)
(***************************************************************************)
EXTENDS Glfw

CONSTANT Addr   \* the memory the pool can hand out

ASSUME FactoryNullAssumption ==
  NULL \notin Addr \cup {"pool", "c", "s", "add_vertex", "sentinel", "chars"}

VARIABLES
  pc,         \* what the thread does next
  window,     \* the member app::window
  unwinding,  \* is an exception on its way out, destroying what was built?
  pool,       \* the local unsynchronized_pool_resource: none, alive, gone
  heap, handle, frame, raised   \* of CmdFactory; the handles are c and s

factoryVars == <<heap, handle, frame, raised>>
vars == <<glfwVars, pc, window, unwinding, pool, factoryVars>>

Factory == INSTANCE CmdFactory WITH Pools <- {"pool"}, Handles <- {"c", "s"}

Startup == {"glfwInit", "hint", "createWindow", "makeCurrent", "loadGL",
            "swapInterval", "getPlatform"}
Commands == {"pool", "make_c", "make_s", "drop_s", "drop_c", "drop_pool"}
Loop == {"shouldClose", "poll", "clearColor", "clear", "swap"}
Shutdown == {"destroyWindow", "terminate"}
Ended == {"exit", "terminated", "crashed"}

(* Init without the {} of `GLFWwindow* window{}'                           *)
InitIndeterminate == /\ GlfwInit /\ Factory!Init
                     /\ pc = "glfwInit" /\ window = "indeterminate"
                     /\ unwinding = FALSE /\ pool = "none"

Init == /\ GlfwInit /\ Factory!Init
        /\ pc = "glfwInit" /\ window = NULL
        /\ unwinding = FALSE /\ pool = "none"

At(l) == pc = l
Goto(l) == pc' = l
App == <<window, unwinding, pool, factoryVars>>

(* throw: with unwinding the thread goes on to destroy what lies at l,     *)
(* without it std::terminate is called on the spot.                        *)
Throw(l) == \/ unwinding' = TRUE /\ Goto(l)
            \/ unwinding' = FALSE /\ Goto("terminated")

-----------------------------------------------------------------------------
(* platform::app::app                                                      *)

CallGlfwInit ==
  /\ At("glfwInit")
  /\ \/ glfwInit(TRUE) /\ Goto("hint") /\ UNCHANGED unwinding
     \/ glfwInit(FALSE) /\ Throw("terminated")
  /\ UNCHANGED <<window, pool, factoryVars>>

(* CallHint without its hints                                              *)
NoHint == At("hint") /\ Goto("createWindow") /\ UNCHANGED <<glfwVars, App>>

CallHint ==
  At("hint") /\ glfwWindowHint(33) /\ Goto("createWindow") /\ UNCHANGED App

(* A null window throws; ~app does not run for an app under construction.  *)
CallCreateWindow ==
  /\ At("createWindow")
  /\ \/ \E w \in Windows, v \in Versions, ok \in BOOLEAN :
          glfwCreateWindow(w, v, ok) /\ window' = w
        /\ Goto("makeCurrent") /\ UNCHANGED unwinding
     \/ glfwCreateWindowFails /\ window' = NULL /\ Throw("terminated")
  /\ UNCHANGED <<pool, factoryVars>>

(* CallMakeCurrent forgotten                                               *)
SkipMakeCurrent == At("makeCurrent") /\ Goto("loadGL") /\ UNCHANGED <<glfwVars, App>>

CallMakeCurrent ==
  /\ At("makeCurrent")
  /\ \E ok \in BOOLEAN : glfwMakeContextCurrent(window, ok)
  /\ Goto("loadGL") /\ UNCHANGED App

(* What gladLoadGL returns is not looked at.                               *)
CallLoadGL == At("loadGL") /\ gladLoadGL /\ Goto("swapInterval") /\ UNCHANGED App

CallSwapInterval ==
  At("swapInterval") /\ glfwSwapInterval /\ Goto("getPlatform") /\ UNCHANGED App

CallGetPlatform ==
  At("getPlatform") /\ glfwGetPlatform /\ Goto("pool") /\ UNCHANGED App

-----------------------------------------------------------------------------
(* app::app, whose base platform::app is complete: unwinding destroys it.  *)

ConstructPool ==
  /\ At("pool")
  /\ \/ pool' = "alive" /\ Goto("make_c") /\ UNCHANGED unwinding
     \/ Throw("destroyWindow") /\ UNCHANGED pool
  /\ UNCHANGED <<glfwVars, window, factoryVars>>

(* auto h = cf.make<T>(...): the steps of make, one by one.                *)
Make(h, T, next, cleanup) ==
  /\ \/ \E a \in Addr : Factory!MakeAllocate(h, T, "pool", FALSE, a)
        /\ UNCHANGED <<pc, unwinding>>
     \/ Factory!MakeAllocateThrows(h) /\ Throw(cleanup)
     \/ Factory!Construct /\ UNCHANGED <<pc, unwinding>>
     \/ Factory!Return /\ Goto(next) /\ UNCHANGED unwinding
  /\ UNCHANGED <<glfwVars, window, pool>>

MakeC == At("make_c") /\ Make("c", "add_vertex", "make_s", "drop_pool")

(* MakeS whose exception forgets that c has been built                     *)
MakeSForgetsC == At("make_s") /\ Make("s", "sentinel", "drop_s", "drop_pool")

(* "hello" fits the inline buffer of the string: no second allocation.     *)
MakeS == At("make_s") /\ Make("s", "sentinel", "drop_s", "drop_c")

(* ~unique_cmd: the steps of the deleter, one by one.                      *)
Drop(h, next) ==
  /\ \/ Factory!Reset(h) /\ UNCHANGED pc
     \/ Factory!DestroyAt /\ UNCHANGED pc
     \/ Factory!Deallocate /\ Goto(next)
  /\ UNCHANGED <<glfwVars, window, unwinding, pool>>

(* DropS, DropC for a pool declared after the commands                     *)
DropSThenPool == At("drop_s") /\ Drop("s", "drop_pool")

DropS == At("drop_s") /\ Drop("s", "drop_c")
DropC == At("drop_c") /\ Drop("c", "drop_pool")

(* ~unsynchronized_pool_resource gives all its memory back.                *)
DropPool ==
  /\ At("drop_pool")
  /\ pool' = "gone"
  /\ heap' = [a \in Addr |-> Factory!FreeBlock]
  /\ Goto(IF unwinding THEN "destroyWindow" ELSE "shouldClose")
  /\ UNCHANGED <<glfwVars, window, unwinding, handle, frame, raised>>

-----------------------------------------------------------------------------
(* platform::app::run                                                      *)

CallShouldClose ==
  /\ At("shouldClose")
  /\ Goto(IF win[window].shouldClose THEN "destroyWindow" ELSE "poll")
  /\ UNCHANGED <<glfwVars, App>>

CallPollEvents ==
  At("poll") /\ glfwPollEvents /\ Goto("clearColor") /\ UNCHANGED App

(* A call through a function pointer glad did not load is a null call.     *)
CallGL(l, next) ==
  At(l) /\ Goto(IF loaded THEN next ELSE "crashed") /\ UNCHANGED <<glfwVars, App>>

CallClearColor == CallGL("clearColor", "clear")
CallClear == CallGL("clear", "swap")

CallSwapBuffers ==
  At("swap") /\ glfwSwapBuffers /\ Goto("shouldClose") /\ UNCHANGED App

-----------------------------------------------------------------------------
(* platform::app::~app                                                     *)

(* CallDestroyWindow skipped, "glfwTerminate will do it"                   *)
SkipDestroyWindow ==
  At("destroyWindow") /\ Goto("terminate") /\ UNCHANGED <<glfwVars, App>>

CallDestroyWindow ==
  /\ At("destroyWindow")
  /\ \E ok \in BOOLEAN : glfwDestroyWindow(window, ok)
  /\ Goto("terminate") /\ UNCHANGED App

(* CallTerminate forgotten                                                 *)
SkipTerminate ==
  /\ At("terminate") /\ Goto(IF unwinding THEN "terminated" ELSE "exit")
  /\ UNCHANGED <<glfwVars, App>>

CallTerminate ==
  /\ At("terminate") /\ glfwTerminate
  /\ Goto(IF unwinding THEN "terminated" ELSE "exit")
  /\ UNCHANGED App

-----------------------------------------------------------------------------
Main == \/ CallGlfwInit \/ CallHint \/ CallCreateWindow \/ CallMakeCurrent
        \/ CallLoadGL \/ CallSwapInterval \/ CallGetPlatform
        \/ ConstructPool \/ MakeC \/ MakeS \/ DropS \/ DropC \/ DropPool
        \/ CallShouldClose \/ CallPollEvents \/ CallClearColor \/ CallClear
        \/ CallSwapBuffers \/ CallDestroyWindow \/ CallTerminate

Environment == pc \notin Ended /\ UserCloses /\ UNCHANGED <<pc, App>>

Stopped == pc \in Ended /\ UNCHANGED vars

Next == Main \/ Environment \/ Stopped

(* The thread is scheduled and every library call returns.                 *)
Spec == Init /\ [][Next]_vars /\ WF_vars(Main)
-----------------------------------------------------------------------------
TypeOK ==
  /\ GlfwTypeOK
  /\ pc \in Startup \cup Commands \cup Loop \cup Shutdown \cup Ended
  /\ window \in Windows \cup {NULL}
  /\ unwinding \in BOOLEAN /\ pool \in {"none", "alive", "gone"}
  /\ Factory!TypeOK

(* GLFW is called only between glfwInit and glfwTerminate, and a current   *)
(* context is there when one is needed unless the driver refused it.       *)
GlfwUsedInOrder ==
  /\ "NOT_INITIALIZED" \notin errors
  /\ "NO_CURRENT_CONTEXT" \in errors => "PLATFORM_ERROR" \in errors

(* What run has drawn went through loaded functions to the window's own,   *)
(* current context of version 3.3 or more, whatever the driver refused     *)
(* before: a refusal the constructor ignores either does no harm or leaves *)
(* no context to load functions for, an error nobody looks at, and then it *)
(* is the first call into GL that crashes.                                 *)
DrawsInItsContext ==
  /\ pc \in {"clear", "swap"} => /\ loaded
                                /\ current = window /\ window \in Listed
                                /\ win[window].version >= 33
  /\ pc \in Loop \cup {"crashed"} => (loaded <=> "NO_CURRENT_CONTEXT" \notin errors)
  /\ pc = "crashed" => ~loaded /\ current = NULL /\ "PLATFORM_ERROR" \in errors

(* The frame loop never touches a window that is gone, and no destroyed    *)
(* window's context stays current unless the driver would not let go.      *)
NoDanglingWindow ==
  /\ pc \in Loop \cup {"destroyWindow"} => window \in Listed
  /\ current # NULL /\ current \notin Listed => "PLATFORM_ERROR" \in errors

(* The pool outlives its commands (the order of app::app's locals): when   *)
(* it is released no handle owns a command, no deleter is under way, and   *)
(* no byte of it is in use.                                                *)
PoolOutlivesCommands ==
  pool = "gone" \/ pc = "drop_pool" =>
    /\ frame = Factory!Idle
    /\ \A h \in {"c", "s"} : handle[h].ptr = NULL
    /\ \A a \in Addr : heap[a] = Factory!FreeBlock

Order == <<"glfw", "window", "pool", "c", "s">>
Held == {r \in {"glfw"} : initialized} \cup {r \in {"window"} : Listed # {}}
        \cup {r \in {"pool"} : pool = "alive"}
        \cup {h \in {"c", "s"} : handle[h].ptr # NULL}

(* Whoever leaves by the destructors of a complete platform::app leaves    *)
(* nothing behind: a normal exit, and an exception that unwinds.           *)
LeavesNothing ==
  pc = "exit" \/ (pc = "terminated" /\ unwinding /\ window # NULL) => Held = {}

(* "If it succeeds, you should call glfwTerminate before the application   *)
(* exits" (glfw3.h), asked of the exits that unwind.                       *)
TerminatesGlfw == pc = "exit" \/ (pc = "terminated" /\ unwinding) => ~initialized

(* Resources come and go in stack order on every path.                     *)
Scopes == INSTANCE ScopedResources WITH Order <- Order, held <- Held
ImplementsScopes == Scopes!Spec

(* The program uses the factory within its contract, and the release of    *)
(* the pool takes nothing from under it.                                   *)
ImplementsFactory == Factory!Spec

(* A close request for a running program is obeyed.                        *)
CloseEnds == (events /\ pc \in Loop) ~> pc \in Ended
=============================================================================
