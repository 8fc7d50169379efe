---------------------------- MODULE BoomEdProofs ----------------------------
(* The inductive invariant of BoomEd, by the place the thread is at, and   *)
(* what follows from it.                                                   *)
EXTENDS BoomEd, Sequences, TLAPS

(* No window yet, and from makeCurrent to destroyWindow: one.              *)
Uncreated == {"glfwInit", "hint", "createWindow"}
Using == (Startup \ Uncreated) \cup Commands \cup Loop \cup {"destroyWindow"}
Refused == "PLATFORM_ERROR" \in errors

(* An exception that unwinds passes only through what destroys.            *)
UnwindingInv ==
  unwinding => pc \in {"drop_c", "drop_pool", "terminated"} \cup Shutdown

(* Between glfwInit and glfwTerminate the library is initialized.          *)
LibraryInv ==
  /\ pc \notin Ended \cup {"glfwInit"} => initialized
  /\ pc \in {"glfwInit", "exit"} => ~initialized
  /\ pc = "terminated" /\ unwinding /\ window # NULL => ~initialized
  /\ pc = "createWindow" => hinted = 33
  /\ "NOT_INITIALIZED" \notin errors

(* app::window is the one open window.                                     *)
WindowInv ==
  /\ pc \in Uncreated => window = NULL
  /\ pc \in Using \cup {"terminate", "crashed"} => window # NULL
  /\ pc \in Using \cup {"crashed"} => Listed = {window} /\ win[window].version >= 33
  /\ pc \in Uncreated \cup {"terminate", "exit"} => Listed = {}
  /\ pc = "terminated" /\ unwinding => Listed = {}

(* Only a driver that refused something keeps the program from drawing in  *)
(* its own context with loaded functions; the functions are loaded if that *)
(* context was current then, and it is an error that nobody looks at if it *)
(* was not.                                                                *)
ContextInv ==
  /\ current \in {NULL, window}
  /\ current \in Listed \cup {NULL} \/ Refused
  /\ ~Refused => /\ pc \in Using \ {"makeCurrent"} => current = window
                 /\ pc \in Using \ {"makeCurrent", "loadGL"} => loaded
                 /\ pc # "crashed"
                 /\ "NO_CURRENT_CONTEXT" \notin errors
  /\ pc \in Uncreated \cup {"makeCurrent", "loadGL"} =>
       ~loaded /\ "NO_CURRENT_CONTEXT" \notin errors
  /\ pc \in (Using \ {"makeCurrent", "loadGL"}) \cup {"crashed"} =>
       /\ loaded <=> current = window
       /\ loaded <=> "NO_CURRENT_CONTEXT" \notin errors
  /\ pc = "crashed" => ~loaded
  /\ pc \in {"clear", "swap"} => loaded

PoolInv ==
  /\ pc \in Startup \cup {"pool"} => pool = "none"
  /\ pc \in Commands \ {"pool"} => pool = "alive"
  /\ pc \in Loop \cup Shutdown \cup {"exit", "crashed"} => pool # "alive"
  /\ pc = "terminated" /\ unwinding => pool # "alive"

Owns(h) == handle[h].ptr # NULL
Making(h, T) == \/ frame = Factory!Idle
                \/ /\ frame.pc \in {"construct", "return"} /\ frame.h = h
                   /\ frame.T = T /\ frame.mr = "pool" /\ ~frame.long
                   /\ frame.c # NULL
Deleting(h) == \/ frame = Factory!Idle /\ Owns(h)
               \/ /\ frame.pc \in {"deleter", "deallocate"} /\ ~Owns(h)
                  /\ frame.c # NULL /\ frame.src = NULL

(* Which handle owns a command, and which call of the factory is under way.*)
CommandInv ==
  /\ pool # "alive" \/ pc = "drop_pool" =>
       frame = Factory!Idle /\ ~Owns("c") /\ ~Owns("s")
  /\ pc = "make_c" => ~Owns("c") /\ ~Owns("s") /\ Making("c", "add_vertex")
  /\ pc = "make_s" => Owns("c") /\ ~Owns("s") /\ Making("s", "sentinel")
  /\ pc = "drop_s" => Owns("c") /\ Deleting("s")
  /\ pc = "drop_c" => ~Owns("s") /\ Deleting("c")

(* The pool's memory in use is what the handles and the call hold; the     *)
(* names of these commands need none.                                      *)
HeapInv ==
  \A a \in Addr :
    /\ heap[a].name = NULL
    /\ \/ heap[a] = Factory!FreeBlock
       \/ a \in {handle["c"].ptr, handle["s"].ptr, frame.c}

IInv == /\ TypeOK /\ UnwindingInv /\ LibraryInv /\ WindowInv /\ ContextInv
        /\ PoolInv /\ CommandInv /\ HeapInv

USE GlfwAssumption, FactoryNullAssumption
    DEF Startup, Commands, Loop, Shutdown, Ended, Uncreated, Using, At, Goto,
        App, glfwVars, factoryVars, Refused, Owns

-----------------------------------------------------------------------------
(* A call of GLFW leaves the pool's memory and the handles alone.          *)
LEMMA FactoryKept ==
  Factory!TypeOK /\ HeapInv /\ UNCHANGED factoryVars => Factory!TypeOK' /\ HeapInv'
BY DEF HeapInv, Factory!FreeBlock, Factory!TypeOK, Factory!Block, Factory!Handle,
       Factory!Frame, Factory!Orl, Factory!Kinds, Factory!Types

(* A call of the factory, or of what is loaded, leaves GLFW alone.         *)
LEMMA GlfwKept == GlfwTypeOK /\ UNCHANGED glfwVars => GlfwTypeOK' /\ UNCHANGED Listed
BY DEF GlfwTypeOK, Errors, WindowState, Listed

(* main has built nothing.                                                 *)
LEMMA InitInv == Init => IInv
<1> SUFFICES ASSUME Init PROVE IInv
  OBVIOUS
<1> USE DEF Init, GlfwInit, Factory!Init, Factory!Empty, NoWindows, Listed
<1>1. TypeOK
  BY DEF TypeOK, GlfwTypeOK, Factory!TypeOK, Factory!Block, Factory!Handle,
     Factory!Frame, Factory!Orl, Factory!FreeBlock, Factory!Idle
<1>2. UnwindingInv /\ LibraryInv /\ WindowInv /\ ContextInv /\ PoolInv
  BY DEF UnwindingInv, LibraryInv, WindowInv, ContextInv, PoolInv
<1>3. CommandInv /\ HeapInv
  BY DEF CommandInv, HeapInv, Factory!FreeBlock
<1> QED BY <1>1, <1>2, <1>3 DEF IInv

(* glfwInit succeeds, or the program ends with nothing done.               *)
LEMMA GlfwInitStep == IInv /\ CallGlfwInit => IInv'
<1> SUFFICES ASSUME IInv, CallGlfwInit PROVE IInv'
  OBVIOUS
<1> USE DEF IInv, CallGlfwInit, glfwInit, Throw, Attempt, InputError, DefaultVersion
<1>1. Factory!TypeOK' /\ HeapInv'
  BY FactoryKept DEF TypeOK
<1>2. GlfwTypeOK'
  <2>1. win' = win /\ current' = current /\ UNCHANGED <<loaded, events>>
    OBVIOUS
  <2>2. errors' = errors \/ errors' = errors \cup {"PLATFORM_ERROR"}
    OBVIOUS
  <2>3. CASE glfwInit(TRUE)
    <3>1. initialized' = TRUE /\ hinted' = 10 /\ errors' = errors
      BY <2>3
    <3> QED BY <2>1, <3>1 DEF TypeOK, GlfwTypeOK, Errors, WindowState
  <2>4. CASE glfwInit(FALSE)
    <3>1. initialized' = FALSE /\ hinted' = 0
      BY <2>4
    <3> QED BY <2>1, <2>2, <3>1 DEF TypeOK, GlfwTypeOK, Errors, WindowState
  <2> QED BY <2>3, <2>4
<1>3. TypeOK'
  BY <1>1, <1>2 DEF TypeOK
<1>4. UnwindingInv' /\ LibraryInv' 
  BY DEF UnwindingInv, LibraryInv
<1>5. WindowInv' /\ ContextInv'
  BY DEF WindowInv, ContextInv, Listed
<1>6. PoolInv' /\ CommandInv'
  BY DEF PoolInv, CommandInv
<1> QED BY <1>1, <1>4, <1>5, <1>6, <1>3

(* The one window of at least the version hinted at, or none and an        *)
(* exception that no destructor of platform::app will see.                 *)
LEMMA CreateWindowStep == IInv /\ CallCreateWindow => IInv'
<1> SUFFICES ASSUME IInv, CallCreateWindow PROVE IInv'
  OBVIOUS
<1> USE DEF IInv, CallCreateWindow, RequireInit, Throw, Attempt, InputError
<1>1. /\ pc = "createWindow" /\ initialized /\ hinted = 33 /\ Listed = {} /\ current = NULL
      /\ UNCHANGED <<pool, factoryVars>> /\ UNCHANGED <<initialized, hinted, loaded, events>>
  BY DEF LibraryInv, WindowInv, ContextInv, glfwCreateWindow, glfwCreateWindowFails
<1>2. PoolInv' /\ CommandInv' /\ Factory!TypeOK' /\ HeapInv'
  BY <1>1, FactoryKept DEF PoolInv, CommandInv, TypeOK, glfwCreateWindow, glfwCreateWindowFails
<1>3. CASE glfwCreateWindowFails /\ window' = NULL /\ Throw("terminated")
  <2>1. TypeOK'
    BY <1>1, <1>2, <1>3 DEF TypeOK, GlfwTypeOK, glfwCreateWindowFails, Errors, WindowState
  <2>2. Listed' = {}
    BY <1>1, <1>3 DEF glfwCreateWindowFails, Listed
  <2>3. UnwindingInv' /\ LibraryInv' /\ WindowInv' /\ ContextInv'
    BY <1>1, <1>3, <2>2 DEF UnwindingInv, LibraryInv, WindowInv, ContextInv, glfwCreateWindowFails
  <2> QED BY <1>2, <2>1, <2>3
<1>4. ASSUME NEW w \in Windows, NEW v \in Versions, NEW ok \in BOOLEAN,
             glfwCreateWindow(w, v, ok), window' = w, Goto("makeCurrent"), UNCHANGED unwinding
      PROVE  IInv'
  <2> DEFINE fresh == [shouldClose |-> FALSE, version |-> v]
  <2>1. fresh \in WindowState
    BY <1>4 DEF WindowState
  <2>2. fresh \in WindowState /\ fresh # NULL /\ v >= 33 /\ w # NULL
    BY <1>1, <1>4, <2>1 DEF glfwCreateWindow
  <2>3. win' = [win EXCEPT ![w] = fresh]
    BY <1>1, <1>4 DEF glfwCreateWindow
  <2>4. win'[w] = fresh /\ \A u \in Windows : u # w => win'[u] = NULL
    BY <1>1, <2>3 DEF Listed, TypeOK, GlfwTypeOK
  <2>5. Listed' = {w} /\ win'[w].version >= 33
    BY <2>2, <2>4 DEF Listed
  <2>6. TypeOK'
    BY <1>1, <1>2, <1>4, <2>2, <2>3 DEF TypeOK, GlfwTypeOK, glfwCreateWindow, Errors, WindowState
  <2>7. UnwindingInv' /\ LibraryInv' /\ WindowInv'
    BY <1>1, <1>4, <2>2, <2>5 DEF UnwindingInv, LibraryInv, WindowInv, glfwCreateWindow
  <2>8. ContextInv'
    BY <1>1, <1>4, <2>5 DEF ContextInv, glfwCreateWindow
  <2> QED BY <1>2, <2>6, <2>7, <2>8
<1> QED BY <1>3, <1>4

(* The hint asks for version 3.3.                                          *)
LEMMA HintStep == IInv /\ CallHint => IInv'
<1> SUFFICES ASSUME IInv, CallHint PROVE IInv'
  OBVIOUS
<1> USE DEF IInv, CallHint, glfwWindowHint, RequireInit
<1>1. initialized /\ hinted' = 33 /\ UNCHANGED <<initialized, win, current, loaded, events, errors>>
  BY DEF LibraryInv, WindowInv
<1>2. GlfwTypeOK' /\ UNCHANGED Listed
  BY <1>1 DEF TypeOK, GlfwTypeOK, Errors, WindowState, Listed
<1>3. TypeOK' /\ HeapInv'
  BY <1>1, <1>2, FactoryKept DEF TypeOK
<1>4. UnwindingInv' /\ LibraryInv' /\ PoolInv' /\ CommandInv'
  BY <1>1 DEF UnwindingInv, LibraryInv, PoolInv, CommandInv
<1>5. WindowInv' /\ ContextInv'
  BY <1>1, <1>2 DEF WindowInv, ContextInv
<1> QED BY <1>3, <1>4, <1>5

(* The functions are loaded if a context is current, and one is unless     *)
(* the driver refused it.                                                  *)
LEMMA LoadGLStep == IInv /\ CallLoadGL => IInv'
<1> SUFFICES ASSUME IInv, CallLoadGL PROVE IInv'
  OBVIOUS
<1> USE DEF IInv, CallLoadGL, gladLoadGL, RequireInit, InputError
<1>1. initialized /\ UNCHANGED <<initialized, hinted, win, current, events>>
  BY DEF LibraryInv, WindowInv
<1>2. GlfwTypeOK' /\ UNCHANGED Listed
  BY <1>1 DEF TypeOK, GlfwTypeOK, Errors, WindowState, Listed
<1>3. TypeOK' /\ HeapInv'
  BY <1>1, <1>2, FactoryKept DEF TypeOK
<1>4. UnwindingInv' /\ LibraryInv' /\ PoolInv' /\ CommandInv'
  BY <1>1 DEF UnwindingInv, LibraryInv, PoolInv, CommandInv
<1>5. WindowInv' /\ ContextInv'
  BY <1>1, <1>2 DEF WindowInv, ContextInv
<1> QED BY <1>3, <1>4, <1>5

(* The swap interval needs a current context, and is not kept here.        *)
LEMMA SwapIntervalStep == IInv /\ CallSwapInterval => IInv'
<1> SUFFICES ASSUME IInv, CallSwapInterval PROVE IInv'
  OBVIOUS
<1> USE DEF IInv, CallSwapInterval, glfwSwapInterval, RequireInit, InputError
<1>1. initialized /\ UNCHANGED <<initialized, hinted, win, current, loaded, events>>
  BY DEF LibraryInv, WindowInv
<1>2. GlfwTypeOK' /\ UNCHANGED Listed
  BY <1>1 DEF TypeOK, GlfwTypeOK, Errors, WindowState, Listed
<1>3. TypeOK' /\ HeapInv'
  BY <1>1, <1>2, FactoryKept DEF TypeOK
<1>4. UnwindingInv' /\ LibraryInv' /\ PoolInv' /\ CommandInv'
  BY <1>1 DEF UnwindingInv, LibraryInv, PoolInv, CommandInv
<1>5. WindowInv' /\ ContextInv'
  BY <1>1, <1>2 DEF WindowInv, ContextInv
<1> QED BY <1>3, <1>4, <1>5

(* The calls that change nothing but the place: a call through a function  *)
(* pointer that was not loaded ends at "crashed".                          *)
LEMMA QuietStep ==
  IInv /\ (\/ CallGetPlatform \/ CallShouldClose \/ CallClearColor
           \/ CallClear \/ CallSwapBuffers) => IInv'
<1> SUFFICES ASSUME IInv, \/ CallGetPlatform \/ CallShouldClose \/ CallClearColor
                          \/ CallClear \/ CallSwapBuffers
             PROVE  IInv'
  OBVIOUS
<1> USE DEF IInv, CallGetPlatform, CallShouldClose, CallClearColor, CallClear,
            CallSwapBuffers
<1>1. initialized /\ UNCHANGED <<glfwVars, App>>
  BY DEF LibraryInv, CallGL, glfwGetPlatform, glfwSwapBuffers, RequireInit
<1>2. \/ pc = "getPlatform" /\ pc' = "pool"
      \/ /\ pc \in Loop /\ pc' \in Loop \cup {"destroyWindow"}
         /\ pc' \in {"clear", "swap"} => loaded
      \/ pc \in Loop /\ pc' = "crashed" /\ ~loaded
  BY DEF CallGL
<1>3. GlfwTypeOK' /\ UNCHANGED Listed
  BY <1>1, GlfwKept DEF TypeOK
<1>4. TypeOK' /\ HeapInv'
  BY <1>1, <1>2, <1>3, FactoryKept DEF TypeOK
<1>5. UnwindingInv' /\ LibraryInv'
  BY <1>1, <1>2 DEF UnwindingInv, LibraryInv
<1>6. PoolInv' /\ CommandInv'
  BY <1>1, <1>2 DEF PoolInv, CommandInv, Making, Deleting, Factory!Idle
<1>7. WindowInv' /\ ContextInv'
  BY <1>1, <1>2, <1>3 DEF WindowInv, ContextInv
<1> QED BY <1>4, <1>5, <1>6, <1>7

(* A close request in the queue is none of the program's state.            *)
LEMMA EnvironmentStep == IInv /\ Environment => IInv'
<1> SUFFICES ASSUME IInv, Environment PROVE IInv'
  OBVIOUS
<1> USE DEF IInv, Environment, UserCloses
<1>1. UNCHANGED <<initialized, hinted, win, current, loaded, errors, pc>> /\ events' = TRUE
  BY DEF LibraryInv, WindowInv
<1>2. GlfwTypeOK' /\ UNCHANGED Listed
  BY <1>1 DEF TypeOK, GlfwTypeOK, Errors, WindowState, Listed
<1>3. TypeOK' /\ HeapInv'
  BY <1>1, <1>2, FactoryKept DEF TypeOK
<1>4. UnwindingInv' /\ LibraryInv'
  BY <1>1 DEF UnwindingInv, LibraryInv
<1>5. PoolInv' /\ CommandInv'
  BY <1>1 DEF PoolInv, CommandInv, Making, Deleting, Factory!Idle
<1>6. WindowInv' /\ ContextInv'
  BY <1>1, <1>2 DEF WindowInv, ContextInv
<1> QED BY <1>3, <1>4, <1>6, <1>5

(* The window's context becomes current, or the driver refuses.            *)
LEMMA MakeCurrentStep == IInv /\ CallMakeCurrent => IInv'
<1> SUFFICES ASSUME IInv, NEW ok \in BOOLEAN, pc = "makeCurrent",
                    glfwMakeContextCurrent(window, ok), pc' = "loadGL", UNCHANGED App
             PROVE  IInv'
  BY DEF CallMakeCurrent
<1> USE DEF IInv
<1>1. /\ initialized /\ UNCHANGED <<initialized, hinted, win, loaded, events>>
      /\ \/ errors' = errors /\ current' = window
         \/ errors' = errors \cup {"PLATFORM_ERROR"} /\ current' = current
  BY DEF LibraryInv, glfwMakeContextCurrent, RequireInit, Attempt, InputError
<1>2. GlfwTypeOK' /\ UNCHANGED Listed
  BY <1>1 DEF TypeOK, GlfwTypeOK, Errors, WindowState, Listed
<1>3. TypeOK' /\ HeapInv'
  BY <1>1, <1>2, FactoryKept DEF TypeOK
<1>4. UnwindingInv' /\ LibraryInv' /\ PoolInv' /\ CommandInv'
  BY <1>1 DEF UnwindingInv, LibraryInv, PoolInv, CommandInv
<1>5. WindowInv' /\ ContextInv'
  BY <1>1, <1>2 DEF WindowInv, ContextInv
<1> QED BY <1>3, <1>4, <1>5

(* A close request reaches the flag of the window, which stays as it was.  *)
LEMMA PollEventsStep == IInv /\ CallPollEvents => IInv'
<1> SUFFICES ASSUME IInv, CallPollEvents PROVE IInv'
  OBVIOUS
<1> USE DEF IInv, CallPollEvents
<1>1. /\ initialized /\ pc = "poll" /\ pc' = "clearColor"
      /\ UNCHANGED App /\ UNCHANGED <<initialized, hinted, current, loaded, errors>>
      /\ events' = FALSE
      /\ win' = [w \in Windows |->
                   IF w \in Listed /\ events THEN [win[w] EXCEPT !.shouldClose = TRUE]
                   ELSE win[w]]
  BY DEF LibraryInv, glfwPollEvents, RequireInit
<1>2. \A w \in Listed :
        /\ win[w] \in WindowState
        /\ [win[w] EXCEPT !.shouldClose = TRUE] \in WindowState
        /\ [win[w] EXCEPT !.shouldClose = TRUE].version = win[w].version
  BY DEF TypeOK, GlfwTypeOK, Listed, WindowState
<1>3. \A w \in Windows : /\ win'[w] \in WindowState \cup {NULL}
                         /\ win'[w] = NULL <=> win[w] = NULL
                         /\ w \in Listed => win'[w].version = win[w].version
  BY <1>1, <1>2 DEF TypeOK, GlfwTypeOK, Listed
<1>4. GlfwTypeOK'
  BY <1>1, <1>3 DEF TypeOK, GlfwTypeOK, Errors, WindowState
<1>5. UNCHANGED Listed
  BY <1>3 DEF Listed
<1>6. TypeOK' /\ HeapInv'
  BY <1>1, <1>4, FactoryKept DEF TypeOK
<1>7. UnwindingInv' /\ LibraryInv' /\ PoolInv' /\ CommandInv'
  BY <1>1 DEF UnwindingInv, LibraryInv, PoolInv, CommandInv
<1>8. WindowInv'
  BY <1>1, <1>3, <1>5 DEF WindowInv, Listed
<1>9. ContextInv'
  BY <1>1, <1>5 DEF ContextInv
<1> QED BY <1>6, <1>7, <1>8, <1>9

(* The window leaves the list; its context is detached if the driver lets  *)
(* go of it.                                                               *)
LEMMA DestroyWindowStep == IInv /\ CallDestroyWindow => IInv'
<1> SUFFICES ASSUME IInv, NEW ok \in BOOLEAN, pc = "destroyWindow",
                    glfwDestroyWindow(window, ok), pc' = "terminate", UNCHANGED App
             PROVE  IInv'
  BY DEF CallDestroyWindow
<1> USE DEF IInv
<1>1. /\ initialized /\ UNCHANGED <<initialized, hinted, loaded>> /\ events' = FALSE
      /\ Listed = {window} /\ win' = [win EXCEPT ![window] = NULL]
      /\ \/ errors' = errors /\ current' = NULL
         \/ errors' = errors \cup {"PLATFORM_ERROR"} /\ current' = current
  BY DEF LibraryInv, WindowInv, ContextInv, glfwDestroyWindow, RequireInit, Attempt, InputError
<1>2. Listed' = {}
  BY <1>1 DEF TypeOK, GlfwTypeOK, Listed
<1>3. GlfwTypeOK'
  BY <1>1 DEF TypeOK, GlfwTypeOK, Errors, WindowState
<1>4. TypeOK' /\ HeapInv'
  BY <1>1, <1>3, FactoryKept DEF TypeOK
<1>5. UnwindingInv' /\ LibraryInv' /\ PoolInv' /\ CommandInv'
  BY <1>1 DEF UnwindingInv, LibraryInv, PoolInv, CommandInv
<1>6. WindowInv' /\ ContextInv'
  BY <1>1, <1>2 DEF WindowInv, ContextInv
<1> QED BY <1>4, <1>5, <1>6

(* glfwTerminate takes the library back to where it was before glfwInit.   *)
LEMMA TerminateStep == IInv /\ CallTerminate => IInv'
<1> SUFFICES ASSUME IInv, CallTerminate PROVE IInv'
  OBVIOUS
<1> USE DEF IInv, CallTerminate
<1>1. /\ initialized' = FALSE /\ hinted' = 0 /\ win' = NoWindows
      /\ current' = NULL /\ events' = FALSE /\ UNCHANGED <<loaded, errors>>
  BY DEF LibraryInv, glfwTerminate, terminate
<1>2. Listed' = {}
  BY <1>1 DEF Listed, NoWindows
<1>3. GlfwTypeOK'
  BY <1>1 DEF TypeOK, GlfwTypeOK, Errors, WindowState, NoWindows
<1>4. TypeOK' /\ HeapInv'
  BY <1>1, <1>3, FactoryKept DEF TypeOK
<1>5. UnwindingInv' /\ LibraryInv' /\ PoolInv' /\ CommandInv'
  BY <1>1 DEF UnwindingInv, LibraryInv, PoolInv, CommandInv
<1>6. WindowInv' /\ ContextInv'
  BY <1>1, <1>2 DEF WindowInv, ContextInv
<1> QED BY <1>4, <1>5, <1>6

(* The pool begins its life with nothing in it, or throws.                 *)
LEMMA ConstructPoolStep == IInv /\ ConstructPool => IInv'
<1> SUFFICES ASSUME IInv, ConstructPool PROVE IInv'
  OBVIOUS
<1> USE DEF IInv, ConstructPool, Throw
<1>1. GlfwTypeOK' /\ UNCHANGED Listed
  BY GlfwKept DEF TypeOK
<1>2. TypeOK' /\ HeapInv'
  BY <1>1, FactoryKept DEF TypeOK
<1>3. UnwindingInv' /\ LibraryInv' /\ PoolInv'
  BY DEF UnwindingInv, LibraryInv, PoolInv
<1>4. CommandInv'
  BY DEF PoolInv, CommandInv, Making, Deleting, Factory!Idle
<1>5. WindowInv' /\ ContextInv'
  BY <1>1 DEF WindowInv, ContextInv
<1> QED BY <1>2, <1>3, <1>4, <1>5

(* By the time the pool goes, nothing is left in it to give back.          *)
LEMMA DropPoolStep ==
  IInv /\ DropPool => IInv' /\ UNCHANGED factoryVars
<1> SUFFICES ASSUME IInv, DropPool PROVE IInv' /\ UNCHANGED factoryVars
  OBVIOUS
<1> USE DEF IInv, DropPool
<1>1. \A a \in Addr : heap[a] = Factory!FreeBlock
  BY DEF HeapInv, CommandInv, Factory!Idle
<1>2. heap' = heap
  BY <1>1 DEF TypeOK, Factory!TypeOK, Factory!FreeBlock
<1>3. GlfwTypeOK' /\ UNCHANGED Listed
  BY GlfwKept DEF TypeOK
<1>4. TypeOK' /\ HeapInv'
  BY <1>2, <1>3, FactoryKept DEF TypeOK
<1>5. UnwindingInv' /\ LibraryInv' /\ PoolInv'
  BY DEF UnwindingInv, LibraryInv, PoolInv
<1>6. CommandInv'
  BY DEF CommandInv, Making, Deleting, Factory!Idle
<1>7. WindowInv' /\ ContextInv'
  BY <1>3 DEF WindowInv, ContextInv
<1> QED BY <1>2, <1>4, <1>5, <1>6, <1>7

-----------------------------------------------------------------------------
(* One step of a make for h: it goes on, throws having done nothing, or    *)
(* returns with h filled.                                                  *)
LEMMA MakeOutcome ==
  ASSUME NEW h \in {"c", "s"}, NEW T \in {"add_vertex", "sentinel"},
         NEW next, NEW cleanup, Factory!TypeOK, HeapInv,
         Making(h, T), ~Owns(h), Make(h, T, next, cleanup)
  PROVE  /\ Factory!TypeOK' /\ HeapInv'
         /\ \A g \in {"c", "s"} : g # h => handle'[g] = handle[g]
         /\ \/ UNCHANGED <<pc, unwinding>> /\ ~(Owns(h)') /\ Making(h, T)'
            \/ Throw(cleanup) /\ frame = Factory!Idle /\ UNCHANGED <<heap, handle, frame>>
            \/ pc' = next /\ UNCHANGED unwinding /\ Owns(h)' /\ frame' = Factory!Idle
<1> USE DEF Factory!TypeOK, Factory!Block, Factory!Handle, Factory!Frame, Factory!Orl,
            Factory!Kinds, Factory!Types, Factory!FreeBlock, Factory!Idle
<1>1. ASSUME NEW a \in Addr, Factory!MakeAllocate(h, T, "pool", FALSE, a),
             UNCHANGED <<pc, unwinding>>
      PROVE  /\ Factory!TypeOK' /\ HeapInv' /\ handle' = handle
             /\ UNCHANGED <<pc, unwinding>> /\ Making(h, T)'
  <2> USE DEF Factory!MakeAllocate, Factory!RawBlock
  <2>1. Factory!TypeOK'
    BY <1>1
  <2>2. HeapInv'
    BY <1>1 DEF HeapInv
  <2>3. Making(h, T)'
    BY <1>1 DEF Making
  <2> QED BY <1>1, <2>1, <2>2, <2>3
<1>2. ASSUME Factory!MakeAllocateThrows(h), Throw(cleanup)
      PROVE  /\ Factory!TypeOK' /\ HeapInv'
             /\ Throw(cleanup) /\ frame = Factory!Idle /\ UNCHANGED <<heap, handle, frame>>
  BY <1>2 DEF Factory!MakeAllocateThrows, HeapInv
<1>3. ASSUME Factory!Construct, UNCHANGED <<pc, unwinding>>
      PROVE  /\ Factory!TypeOK' /\ HeapInv' /\ handle' = handle
             /\ UNCHANGED <<pc, unwinding>> /\ Making(h, T)'
  <2> USE DEF Factory!Construct, Factory!Object
  <2>1. frame.c \in Addr /\ frame.T = T /\ frame.mr = "pool"
    BY <1>3 DEF Making
  <2>2. Factory!TypeOK'
    BY <1>3, <2>1
  <2>3. HeapInv'
    BY <1>3, <2>1 DEF HeapInv
  <2>4. Making(h, T)'
    BY <1>3 DEF Making
  <2> QED BY <1>3, <2>2, <2>3, <2>4
<1>4. ASSUME Factory!Return, pc' = next, UNCHANGED unwinding
      PROVE  /\ Factory!TypeOK' /\ HeapInv'
             /\ \A g \in {"c", "s"} : g # h => handle'[g] = handle[g]
             /\ pc' = next /\ UNCHANGED unwinding /\ Owns(h)' /\ frame' = Factory!Idle
  <2> USE DEF Factory!Return
  <2>1. frame.h = h /\ frame.c \in Addr /\ frame.T = T /\ frame.mr = "pool"
    BY <1>4 DEF Making
  <2>2. handle' = [handle EXCEPT ![h] = [ptr |-> frame.c, mr |-> "pool", destroy |-> T]]
    BY <1>4, <2>1
  <2>3. Factory!TypeOK'
    BY <1>4, <2>1, <2>2
  <2>4. HeapInv'
    BY <1>4, <2>1, <2>2 DEF HeapInv
  <2> QED BY <1>4, <2>1, <2>2, <2>3, <2>4
<1> QED BY <1>1, <1>2, <1>3, <1>4 DEF Make

(* One step of the deletion of h's command: it goes on or is done.         *)
LEMMA DropOutcome ==
  ASSUME NEW h \in {"c", "s"}, NEW next, Factory!TypeOK, HeapInv,
         Deleting(h), Drop(h, next)
  PROVE  /\ Factory!TypeOK' /\ HeapInv' /\ UNCHANGED unwinding
         /\ \A g \in {"c", "s"} : g # h => handle'[g] = handle[g]
         /\ \/ UNCHANGED pc /\ Deleting(h)'
            \/ pc' = next /\ ~(Owns(h)') /\ frame' = Factory!Idle
<1> USE DEF Factory!TypeOK, Factory!Block, Factory!Handle, Factory!Frame, Factory!Orl,
            Factory!Kinds, Factory!Types, Factory!FreeBlock, Factory!Idle
<1>1. UNCHANGED unwinding
  BY DEF Drop
<1>2. ASSUME Factory!Reset(h), UNCHANGED pc
      PROVE  /\ Factory!TypeOK' /\ HeapInv' /\ UNCHANGED pc /\ Deleting(h)'
             /\ \A g \in {"c", "s"} : g # h => handle'[g] = handle[g]
  <2> USE DEF Factory!Reset, Factory!CallDeleter
  <2>1. Factory!TypeOK'
    BY <1>2
  <2>2. HeapInv'
    BY <1>2 DEF HeapInv
  <2>3. Deleting(h)'
    BY <1>2 DEF Deleting
  <2> QED BY <1>2, <2>1, <2>2, <2>3
<1>3. ASSUME Factory!DestroyAt, UNCHANGED pc
      PROVE  Factory!TypeOK' /\ HeapInv' /\ UNCHANGED pc /\ Deleting(h)' /\ handle' = handle
  <2>1. frame.c \in Addr /\ ~Owns(h) /\ frame.src = NULL
    BY <1>3 DEF Factory!DestroyAt, Deleting
  <2>2. heap' = [a \in Addr |-> IF a = frame.c
                                THEN Factory!RawBlock(heap[a].kind, heap[a].mr) ELSE heap[a]]
    BY <1>3, <2>1 DEF Factory!DestroyAt, HeapInv
  <2>3. Factory!TypeOK'
    BY <1>3, <2>2 DEF Factory!DestroyAt, Factory!RawBlock
  <2>4. frame'.c = frame.c /\ handle' = handle
    BY <1>3 DEF Factory!DestroyAt
  <2>5. HeapInv'
    BY <2>2, <2>4 DEF Factory!RawBlock, HeapInv
  <2>6. Deleting(h)'
    BY <1>3, <2>1 DEF Factory!DestroyAt, Deleting
  <2> QED BY <1>3, <2>3, <2>5, <2>6 DEF Factory!DestroyAt
<1>4. ASSUME Factory!Deallocate, pc' = next
      PROVE  /\ Factory!TypeOK' /\ HeapInv' /\ handle' = handle
             /\ pc' = next /\ ~(Owns(h)') /\ frame' = Factory!Idle
  <2>1. frame.c \in Addr /\ ~Owns(h) /\ frame.src = NULL
    BY <1>4 DEF Factory!Deallocate, Deleting
  <2>2. frame' = Factory!Idle /\ handle' = handle /\ raised' = raised
        /\ heap' = [heap EXCEPT ![frame.c] = Factory!FreeBlock]
    BY <1>4, <2>1 DEF Factory!Deallocate, Factory!AfterDelete
  <2>3. Factory!TypeOK'
    BY <2>1, <2>2
  <2>4. HeapInv'
    BY <2>1, <2>2 DEF HeapInv
  <2> QED BY <1>4, <2>1, <2>2, <2>3, <2>4
<1> QED BY <1>1, <1>2, <1>3, <1>4 DEF Drop

(* The commands are made; bad_alloc goes to the destructors of what is     *)
(* built.                                                                  *)
LEMMA MakeStep == IInv /\ (MakeC \/ MakeS) => IInv'
<1> SUFFICES ASSUME IInv, MakeC \/ MakeS PROVE IInv'
  OBVIOUS
<1>1. IInv
  OBVIOUS
<1>2. UNCHANGED <<glfwVars, window, pool>>
  BY DEF MakeC, MakeS, Make
<1>3. GlfwTypeOK' /\ UNCHANGED Listed
  BY <1>2, GlfwKept DEF IInv, TypeOK
<1>4. CASE MakeC
  <2>1. /\ pc = "make_c" /\ Make("c", "add_vertex", "make_s", "drop_pool")
        /\ Making("c", "add_vertex") /\ ~Owns("c") /\ ~Owns("s") /\ unwinding = FALSE
        /\ pool = "alive"
    BY <1>4 DEF MakeC, IInv, CommandInv, UnwindingInv, PoolInv, TypeOK
  <2>2. /\ Factory!TypeOK' /\ HeapInv' /\ handle'["s"] = handle["s"]
        /\ \/ UNCHANGED <<pc, unwinding>> /\ ~(Owns("c")') /\ Making("c", "add_vertex")'
           \/ Throw("drop_pool") /\ frame = Factory!Idle /\ UNCHANGED <<heap, handle, frame>>
           \/ pc' = "make_s" /\ UNCHANGED unwinding /\ Owns("c")' /\ frame' = Factory!Idle
    BY <2>1, MakeOutcome DEF IInv, TypeOK
  <2>3. TypeOK' /\ HeapInv'
    BY <1>2, <1>3, <2>1, <2>2 DEF IInv, TypeOK, Throw
  <2>4. CommandInv'
    BY <1>2, <2>1, <2>2 DEF CommandInv, Making, Throw
  <2>5. UnwindingInv' /\ LibraryInv' /\ PoolInv'
    BY <1>1, <1>2, <2>1, <2>2 DEF IInv, UnwindingInv, LibraryInv, PoolInv, WindowInv, Throw
  <2>6. WindowInv' /\ ContextInv'
    BY <1>1, <1>2, <1>3, <2>1, <2>2 DEF IInv, WindowInv, ContextInv, Throw
  <2> QED BY <2>3, <2>4, <2>5, <2>6 DEF IInv
<1>5. CASE MakeS
  <2>1. /\ pc = "make_s" /\ Make("s", "sentinel", "drop_s", "drop_c")
        /\ Making("s", "sentinel") /\ Owns("c") /\ ~Owns("s") /\ unwinding = FALSE
        /\ pool = "alive"
    BY <1>5 DEF MakeS, IInv, CommandInv, UnwindingInv, PoolInv, TypeOK
  <2>2. /\ Factory!TypeOK' /\ HeapInv' /\ handle'["c"] = handle["c"]
        /\ \/ UNCHANGED <<pc, unwinding>> /\ ~(Owns("s")') /\ Making("s", "sentinel")'
           \/ Throw("drop_c") /\ frame = Factory!Idle /\ UNCHANGED <<heap, handle, frame>>
           \/ pc' = "drop_s" /\ UNCHANGED unwinding /\ Owns("s")' /\ frame' = Factory!Idle
    BY <2>1, MakeOutcome DEF IInv, TypeOK
  <2>3. TypeOK' /\ HeapInv'
    BY <1>2, <1>3, <2>1, <2>2 DEF IInv, TypeOK, Throw
  <2>4. CommandInv'
    BY <1>2, <2>1, <2>2 DEF CommandInv, Making, Deleting, Throw
  <2>5. UnwindingInv' /\ LibraryInv' /\ PoolInv'
    BY <1>1, <1>2, <2>1, <2>2 DEF IInv, UnwindingInv, LibraryInv, PoolInv, WindowInv, Throw
  <2>6. WindowInv' /\ ContextInv'
    BY <1>1, <1>2, <1>3, <2>1, <2>2 DEF IInv, WindowInv, ContextInv, Throw
  <2> QED BY <2>3, <2>4, <2>5, <2>6 DEF IInv
<1> QED BY <1>4, <1>5

(* The commands go, the last one first.                                    *)
LEMMA DropStep == IInv /\ (DropS \/ DropC) => IInv'
<1> SUFFICES ASSUME IInv, DropS \/ DropC PROVE IInv'
  OBVIOUS
<1>1. IInv
  OBVIOUS
<1>2. UNCHANGED <<glfwVars, window, pool>>
  BY DEF DropS, DropC, Drop
<1>3. GlfwTypeOK' /\ UNCHANGED Listed
  BY <1>2, GlfwKept DEF IInv, TypeOK
<1>4. CASE DropS
  <2>1. /\ pc = "drop_s" /\ Drop("s", "drop_c") /\ Deleting("s") /\ Owns("c")
        /\ pool = "alive"
    BY <1>4 DEF DropS, IInv, CommandInv, PoolInv
  <2>2. /\ Factory!TypeOK' /\ HeapInv' /\ UNCHANGED unwinding /\ handle'["c"] = handle["c"]
        /\ \/ UNCHANGED pc /\ Deleting("s")'
           \/ pc' = "drop_c" /\ ~(Owns("s")') /\ frame' = Factory!Idle
    BY <2>1, DropOutcome DEF IInv, TypeOK
  <2>3. TypeOK' /\ HeapInv'
    BY <1>2, <1>3, <2>1, <2>2 DEF IInv, TypeOK
  <2>4. CommandInv'
    BY <1>2, <2>1, <2>2 DEF CommandInv, Deleting
  <2>5. UnwindingInv' /\ LibraryInv' /\ PoolInv'
    BY <1>1, <1>2, <2>1, <2>2 DEF IInv, UnwindingInv, LibraryInv, PoolInv
  <2>6. WindowInv' /\ ContextInv'
    BY <1>1, <1>2, <1>3, <2>1, <2>2 DEF IInv, WindowInv, ContextInv
  <2> QED BY <2>3, <2>4, <2>5, <2>6 DEF IInv
<1>5. CASE DropC
  <2>1. /\ pc = "drop_c" /\ Drop("c", "drop_pool") /\ Deleting("c") /\ ~Owns("s")
        /\ pool = "alive"
    BY <1>5 DEF DropC, IInv, CommandInv, PoolInv
  <2>2. /\ Factory!TypeOK' /\ HeapInv' /\ UNCHANGED unwinding /\ handle'["s"] = handle["s"]
        /\ \/ UNCHANGED pc /\ Deleting("c")'
           \/ pc' = "drop_pool" /\ ~(Owns("c")') /\ frame' = Factory!Idle
    BY <2>1, DropOutcome DEF IInv, TypeOK
  <2>3. TypeOK' /\ HeapInv'
    BY <1>2, <1>3, <2>1, <2>2 DEF IInv, TypeOK
  <2>4. CommandInv'
    BY <1>2, <2>1, <2>2 DEF CommandInv, Deleting
  <2>5. UnwindingInv' /\ LibraryInv' /\ PoolInv'
    BY <1>1, <1>2, <2>1, <2>2 DEF IInv, UnwindingInv, LibraryInv, PoolInv
  <2>6. WindowInv' /\ ContextInv'
    BY <1>1, <1>2, <1>3, <2>1, <2>2 DEF IInv, WindowInv, ContextInv
  <2> QED BY <2>3, <2>4, <2>5, <2>6 DEF IInv
<1> QED BY <1>4, <1>5

(* Nothing changes.                                                        *)
LEMMA StutterStep == IInv /\ UNCHANGED vars => IInv'
<1> SUFFICES ASSUME IInv, UNCHANGED vars PROVE IInv'
  OBVIOUS
<1> USE DEF IInv, vars
<1>1. GlfwTypeOK' /\ UNCHANGED Listed
  BY GlfwKept DEF TypeOK
<1>2. TypeOK' /\ HeapInv'
  BY <1>1, FactoryKept DEF TypeOK
<1>3. UnwindingInv' /\ LibraryInv' /\ PoolInv'
  BY DEF UnwindingInv, LibraryInv, PoolInv
<1>4. CommandInv'
  BY DEF CommandInv, Making, Deleting, Factory!Idle
<1>5. WindowInv' /\ ContextInv'
  BY <1>1 DEF WindowInv, ContextInv
<1> QED BY <1>2, <1>3, <1>4, <1>5

(* The invariant is inductive.                                             *)
LEMMA StepInv == IInv /\ [Next]_vars => IInv'
BY GlfwInitStep, HintStep, CreateWindowStep, MakeCurrentStep, LoadGLStep,
   SwapIntervalStep, QuietStep, ConstructPoolStep, MakeStep, DropStep, DropPoolStep,
   PollEventsStep, DestroyWindowStep, TerminateStep, EnvironmentStep, StutterStep
   DEF Next, Main, Stopped

LEMMA Invariance == Spec => []IInv
BY InitInv, StepInv, PTL DEF Spec

-----------------------------------------------------------------------------
(* The state keeps its shape.                                              *)
THEOREM TypeCorrect == Spec => []TypeOK
<1>1. IInv => TypeOK  BY DEF IInv
<1> QED BY <1>1, Invariance, PTL

(* platform::app calls GLFW between glfwInit and glfwTerminate only, and   *)
(* with a current context unless the driver refused one.                   *)
THEOREM LibraryUsedInOrder == Spec => []GlfwUsedInOrder
<1>1. IInv => GlfwUsedInOrder
  BY DEF IInv, LibraryInv, ContextInv, GlfwUsedInOrder
<1> QED BY <1>1, Invariance, PTL

(* What run draws, whatever the driver refused before, it draws with       *)
(* loaded functions in the window's own current context of version 3.3 at  *)
(* least; where a refusal left none, the first call into GL crashes.       *)
THEOREM DrawsInContext == Spec => []DrawsInItsContext
<1>1. IInv => DrawsInItsContext
  BY DEF IInv, WindowInv, ContextInv, DrawsInItsContext
<1> QED BY <1>1, Invariance, PTL

(* The frame loop's window is open; a destroyed one's context is detached  *)
(* unless the driver kept it.                                              *)
THEOREM NoWindowDangles == Spec => []NoDanglingWindow
<1>1. IInv => NoDanglingWindow
  BY DEF IInv, WindowInv, ContextInv, NoDanglingWindow
<1> QED BY <1>1, Invariance, PTL

(* The pool of app::app is released empty, and stays so.                   *)
THEOREM PoolOutlives == Spec => []PoolOutlivesCommands
<1>1. ASSUME IInv, pool = "gone" \/ pc = "drop_pool"
      PROVE  /\ frame = Factory!Idle
             /\ \A h \in {"c", "s"} : handle[h].ptr = NULL
             /\ \A a \in Addr : heap[a] = Factory!FreeBlock
  <2>1. frame = Factory!Idle /\ ~Owns("c") /\ ~Owns("s")
    BY <1>1 DEF IInv, CommandInv
  <2>2. \A a \in Addr : heap[a] = Factory!FreeBlock
    BY <1>1, <2>1 DEF IInv, HeapInv, Factory!Idle
  <2> QED BY <2>1, <2>2
<1>2. IInv => PoolOutlivesCommands
  BY <1>1 DEF PoolOutlivesCommands
<1> QED BY <1>2, Invariance, PTL

(* A normal exit and an exception that unwinds a complete platform::app    *)
(* leave neither library nor window, pool or command behind.               *)
THEOREM NothingLeft == Spec => []LeavesNothing
<1>1. ASSUME IInv, pc = "exit" \/ (pc = "terminated" /\ unwinding /\ window # NULL)
      PROVE  Held = {}
  <2>1. ~initialized /\ Listed = {} /\ pool # "alive"
    BY <1>1 DEF IInv, LibraryInv, WindowInv, PoolInv
  <2>2. \A h \in {"c", "s"} : handle[h].ptr = NULL
    BY <1>1, <2>1 DEF IInv, CommandInv
  <2> QED BY <2>1, <2>2 DEF Held
<1>2. IInv => LeavesNothing
  BY <1>1 DEF LeavesNothing
<1> QED BY <1>2, Invariance, PTL

-----------------------------------------------------------------------------
(* Every step of the program is a step of the factory or leaves its state  *)
(* alone: what make and the deleters do, one by one, is within their       *)
(* contract, and the release of the pool finds all memory free already.    *)
LEMMA FactoryStep == IInv /\ [Next]_vars => [Factory!Next]_factoryVars
<1> SUFFICES ASSUME IInv, [Next]_vars PROVE Factory!Next \/ UNCHANGED factoryVars
  OBVIOUS
<1>1. ASSUME NEW h \in {"c", "s"}, NEW T \in Factory!Types, NEW next, NEW cleanup,
             Make(h, T, next, cleanup)
      PROVE  Factory!Next
  <2>1. CASE Factory!Construct \/ Factory!Return
    BY <2>1 DEF Factory!Next, Factory!Step
  <2>2. CASE Factory!MakeAllocateThrows(h)
    BY <2>2 DEF Factory!Next, Factory!Call
  <2>3. ASSUME NEW a \in Addr, Factory!MakeAllocate(h, T, "pool", FALSE, a)
        PROVE  Factory!Next
    BY <2>3 DEF Factory!Next, Factory!Call
  <2> QED BY <1>1, <2>1, <2>2, <2>3 DEF Make
<1>2. ASSUME NEW h \in {"c", "s"}, NEW next, Drop(h, next)
      PROVE  Factory!Next
  BY <1>2 DEF Drop, Factory!Next, Factory!Call, Factory!Step
<1>3. CASE MakeC \/ MakeS
  BY <1>1, <1>3 DEF MakeC, MakeS, Factory!Types
<1>4. CASE DropS \/ DropC
  BY <1>2, <1>4 DEF DropS, DropC
<1>5. CASE DropPool
  BY <1>5, DropPoolStep
<1>6. CASE Main /\ ~(MakeC \/ MakeS \/ DropS \/ DropC \/ DropPool)
  BY <1>6 DEF Main, CallGlfwInit, CallHint, CallCreateWindow, CallMakeCurrent, CallLoadGL,
     CallSwapInterval, CallGetPlatform, ConstructPool, CallShouldClose, CallPollEvents,
     CallClearColor, CallClear, CallGL, CallSwapBuffers, CallDestroyWindow, CallTerminate
<1>7. CASE Environment \/ Stopped \/ UNCHANGED vars
  BY <1>7 DEF Environment, Stopped, vars
<1> QED BY <1>3, <1>4, <1>5, <1>6, <1>7 DEF Next

(* The program uses cmd_factory and the unique_cmds within their contract. *)
THEOREM FactoryRefinement == Spec => ImplementsFactory
<1>1. Init => Factory!Init
  BY DEF Init
<1>2. IInv /\ [Next]_vars => [Factory!Next]_(Factory!vars)
  BY FactoryStep DEF Factory!vars
<1> QED BY <1>1, <1>2, Invariance, PTL DEF Spec, ImplementsFactory, Factory!Spec

-----------------------------------------------------------------------------
(* The first resources in the order of their acquisition.                  *)
LEMMA Firsts ==
  /\ Len(Order) = 5
  /\ Scopes!First(0) = {} /\ Scopes!First(1) = {"glfw"}
  /\ Scopes!First(2) = {"glfw", "window"} /\ Scopes!First(3) = {"glfw", "window", "pool"}
  /\ Scopes!First(4) = {"glfw", "window", "pool", "c"}
  /\ Scopes!First(5) = {"glfw", "window", "pool", "c", "s"}
BY DEF Order, Scopes!First

(* Held is a prefix of the order when exactly the first few are acquired.  *)
LEMMA HeldPrefix ==
  /\ ~initialized /\ Listed = {} /\ pool # "alive" /\ ~Owns("c") /\ ~Owns("s")
       => Held = Scopes!First(0)
  /\ initialized /\ Listed = {} /\ pool # "alive" /\ ~Owns("c") /\ ~Owns("s")
       => Held = Scopes!First(1)
  /\ initialized /\ Listed # {} /\ pool # "alive" /\ ~Owns("c") /\ ~Owns("s")
       => Held = Scopes!First(2)
  /\ initialized /\ Listed # {} /\ pool = "alive" /\ ~Owns("c") /\ ~Owns("s")
       => Held = Scopes!First(3)
  /\ initialized /\ Listed # {} /\ pool = "alive" /\ Owns("c") /\ ~Owns("s")
       => Held = Scopes!First(4)
  /\ initialized /\ Listed # {} /\ pool = "alive" /\ Owns("c") /\ Owns("s")
       => Held = Scopes!First(5)
BY Firsts DEF Held

(* How many resources are held at each place.                              *)
HeldByPlace ==
  /\ pc \in {"glfwInit", "exit"} => Held = Scopes!First(0)
  /\ pc \in {"hint", "createWindow", "terminate"} => Held = Scopes!First(1)
  /\ pc \in (Using \ Commands) \cup {"pool"} => Held = Scopes!First(2)
  /\ pc \in {"make_c", "drop_pool"} => Held = Scopes!First(3)
  /\ pc = "make_s" => Held = Scopes!First(4)
  /\ pc = "drop_s" => Held = IF Owns("s") THEN Scopes!First(5) ELSE Scopes!First(4)
  /\ pc = "drop_c" => Held = IF Owns("c") THEN Scopes!First(4) ELSE Scopes!First(3)
  /\ pc = "terminated" /\ unwinding /\ window # NULL => Held = Scopes!First(0)

LEMMA HeldAt == IInv => HeldByPlace
<1> SUFFICES ASSUME IInv PROVE HeldByPlace
  OBVIOUS
<1>1. pc \in Using => initialized /\ Listed # {}
  BY DEF IInv, LibraryInv, WindowInv
<1>2. pc \in {"glfwInit", "exit"} \/ (pc = "terminated" /\ unwinding /\ window # NULL)
        => Held = Scopes!First(0)
  BY HeldPrefix DEF IInv, LibraryInv, WindowInv, PoolInv, CommandInv
<1>3. pc \in {"hint", "createWindow", "terminate"} => Held = Scopes!First(1)
  BY HeldPrefix DEF IInv, LibraryInv, WindowInv, PoolInv, CommandInv
<1>4. pc \in (Using \ Commands) \cup {"pool"} => Held = Scopes!First(2)
  BY <1>1, HeldPrefix DEF IInv, PoolInv, CommandInv
<1>5. pc \in Commands \ {"pool"} => pool = "alive"
  BY DEF IInv, PoolInv
<1>6. pc \in {"make_c", "drop_pool"} => Held = Scopes!First(3)
  BY <1>1, <1>5, HeldPrefix DEF IInv, CommandInv
<1>7. pc = "make_s" => Held = Scopes!First(4)
  BY <1>1, <1>5, HeldPrefix DEF IInv, CommandInv
<1>8. pc = "drop_s" => Held = IF Owns("s") THEN Scopes!First(5) ELSE Scopes!First(4)
  BY <1>1, <1>5, HeldPrefix DEF IInv, CommandInv
<1>9. pc = "drop_c" => Held = IF Owns("c") THEN Scopes!First(4) ELSE Scopes!First(3)
  BY <1>1, <1>5, HeldPrefix DEF IInv, CommandInv
<1> QED BY <1>2, <1>3, <1>4, <1>6, <1>7, <1>8, <1>9 DEF HeldByPlace

(* Only glfwInit, windows, the pool and filled handles count.              *)
LEMMA HeldKept == UNCHANGED <<initialized, win, pool, handle>> => UNCHANGED Held
BY DEF Held, Listed

(* A resource more, or a resource less.                                    *)
LEMMA ScopeStep ==
  ASSUME NEW n \in 1..5
  PROVE  /\ Held = Scopes!First(n - 1) /\ Held' = Scopes!First(n) => Scopes!Next
         /\ Held = Scopes!First(n) /\ Held' = Scopes!First(n - 1) => Scopes!Next
BY Firsts DEF Scopes!Next, Scopes!Acquire, Scopes!Release

(* Every step acquires the next resource, releases the last one, or        *)
(* neither: on the normal path and on each exceptional one.                *)
LEMMA HeldStep == IInv /\ IInv' /\ [Next]_vars => [Scopes!Next]_Held
<1> SUFFICES ASSUME IInv, IInv', [Next]_vars PROVE Scopes!Next \/ UNCHANGED Held
  OBVIOUS
<1> USE ScopeStep, HeldKept
<1>1. HeldByPlace
  BY HeldAt
<1>2. HeldByPlace'
  BY HeldAt, PTL
<1>3. CASE CallGlfwInit
  <2>1. CASE pc' = "hint"
    BY <1>1, <1>2, <1>3, <2>1 DEF HeldByPlace, CallGlfwInit
  <2>2. CASE pc' # "hint"
    <3>1. glfwInit(FALSE) /\ pc = "glfwInit" /\ UNCHANGED <<pool, handle>>
      BY <1>3, <2>2 DEF CallGlfwInit
    <3>2. initialized = FALSE
      BY <3>1 DEF IInv, LibraryInv, TypeOK, GlfwTypeOK
    <3> QED BY <3>1, <3>2 DEF glfwInit
  <2> QED BY <2>1, <2>2
<1>4. CASE CallCreateWindow
  <2>1. CASE pc' = "makeCurrent"
    BY <1>1, <1>2, <1>4, <2>1 DEF HeldByPlace, CallCreateWindow
  <2>2. CASE pc' # "makeCurrent"
    BY <1>4, <2>2 DEF CallCreateWindow, glfwCreateWindowFails, RequireInit
  <2> QED BY <2>1, <2>2
<1>5. CASE ConstructPool
  <2>1. CASE pc' = "make_c"
    BY <1>1, <1>2, <1>5, <2>1 DEF HeldByPlace, ConstructPool
  <2>2. CASE pc' # "make_c"
    BY <1>5, <2>2 DEF ConstructPool
  <2> QED BY <2>1, <2>2
<1>6. CASE MakeC \/ MakeS
  <2>1. CASE handle' = handle
    BY <1>6, <2>1 DEF MakeC, MakeS, Make
  <2>2. CASE pc = "make_c" /\ pc' = "make_s"
    BY <1>1, <1>2, <2>2 DEF HeldByPlace
  <2>3. CASE pc = "make_s" /\ pc' = "drop_s" /\ Factory!Return
    <3>1. Owns("s")'
      BY <2>3 DEF Factory!Return, Factory!Idle, IInv, CommandInv, Deleting
    <3> QED BY <1>1, <1>2, <2>3, <3>1 DEF HeldByPlace
  <2> QED BY <1>6, <2>1, <2>2, <2>3 DEF MakeC, MakeS, Make, Factory!MakeAllocate,
          Factory!MakeAllocateThrows, Factory!Construct
<1>7. CASE DropS \/ DropC
  <2>1. CASE handle' = handle
    BY <1>7, <2>1 DEF DropS, DropC, Drop
  <2>2. CASE pc = "drop_s" /\ pc' = pc /\ Factory!Reset("s")
    BY <1>1, <1>2, <2>2 DEF HeldByPlace, Factory!Reset, IInv, TypeOK, Factory!TypeOK
  <2>3. CASE pc = "drop_c" /\ pc' = pc /\ Factory!Reset("c")
    BY <1>1, <1>2, <2>3 DEF HeldByPlace, Factory!Reset, IInv, TypeOK, Factory!TypeOK
  <2> QED BY <1>7, <2>1, <2>2, <2>3 DEF DropS, DropC, Drop,
          Factory!DestroyAt, Factory!Deallocate
<1>8. CASE DropPool
  BY <1>1, <1>2, <1>8 DEF DropPool, HeldByPlace
<1>9. CASE CallDestroyWindow \/ CallTerminate
  BY <1>1, <1>2, <1>9 DEF CallDestroyWindow, CallTerminate, HeldByPlace, IInv, WindowInv
<1>10. CASE CallPollEvents
  BY <1>1, <1>2, <1>10 DEF CallPollEvents, HeldByPlace
<1>11. CASE \/ CallHint \/ CallMakeCurrent \/ CallLoadGL \/ CallSwapInterval
            \/ CallGetPlatform \/ CallShouldClose \/ CallClearColor \/ CallClear
            \/ CallSwapBuffers \/ Environment \/ Stopped \/ UNCHANGED vars
  BY <1>11 DEF CallHint, CallMakeCurrent, CallLoadGL, CallSwapInterval, CallGetPlatform,
     CallShouldClose, CallClearColor, CallClear, CallGL, CallSwapBuffers, Environment,
     Stopped, vars, glfwWindowHint, glfwMakeContextCurrent, gladLoadGL, glfwSwapInterval,
     glfwGetPlatform, glfwSwapBuffers, UserCloses, RequireInit
<1> QED BY <1>3, <1>4, <1>5, <1>6, <1>7, <1>8, <1>9, <1>10, <1>11 DEF Next, Main

(* Library, window, pool and commands come and go in stack order, whatever *)
(* throws and whatever fails.                                              *)
THEOREM ScopesRefinement == Spec => ImplementsScopes
<1>1. Init => Scopes!Init
  BY DEF Init, GlfwInit, NoWindows, Factory!Init, Factory!Empty, Held, Listed, Scopes!Init
<1> QED BY <1>1, HeldStep, Invariance, PTL DEF Spec, ImplementsScopes, Scopes!Spec

-----------------------------------------------------------------------------
(* The theorems of CmdFactory, for the one pool and the two handles here.  *)
FP == INSTANCE CmdFactoryProofs WITH Pools <- {"pool"}, Handles <- {"c", "s"}

LEMMA FactoryAssumption == FP!NullAssumption
BY FactoryNullAssumption DEF FP!NullAssumption, FP!Kinds, FP!Types

(* FP and Factory are the same module under the same substitution.         *)
LEMMA SameFactory == Factory!Spec => FP!Spec
BY DEF Factory!Spec, FP!Spec, Factory!Init, FP!Init, Factory!Next, FP!Next,
       Factory!Call, FP!Call, Factory!Step, FP!Step, Factory!vars, FP!vars,
       Factory!MakeAllocate, FP!MakeAllocate,
       Factory!MakeAllocateThrows, FP!MakeAllocateThrows,
       Factory!Construct, FP!Construct, Factory!ConstructNamed, FP!ConstructNamed,
       Factory!ConstructThrows, FP!ConstructThrows, Factory!Catch, FP!Catch,
       Factory!Return, FP!Return, Factory!Reset, FP!Reset,
       Factory!MoveAssign, FP!MoveAssign, Factory!CallDeleter, FP!CallDeleter,
       Factory!DeleterSkips, FP!DeleterSkips, Factory!DestroyAt, FP!DestroyAt,
       Factory!Deallocate, FP!Deallocate, Factory!AssignDeleter, FP!AssignDeleter,
       Factory!AfterDelete, FP!AfterDelete, Factory!Empty, FP!Empty,
       Factory!Idle, FP!Idle, Factory!FreeBlock, FP!FreeBlock,
       Factory!RawBlock, FP!RawBlock, Factory!Object, FP!Object,
       Factory!Free, FP!Free, Factory!Types, FP!Types, Factory!Kinds, FP!Kinds

(* What cmd_factory promises holds of the commands of the program, over    *)
(* all its exceptional paths: each deleter matches its object, a command   *)
(* has one owner, none is lost between calls, memory is given back as the  *)
(* type and to the pool it was taken for, and what a caller sees of the    *)
(* handles is the ownership of CmdOwner.                                   *)
THEOREM FactoryPromises ==
  Spec => /\ []Factory!DeleterMatches /\ []Factory!OneOwner /\ []Factory!NoLeak
          /\ Factory!GivenBackAsTaken /\ Factory!ImplementsOwner
<1>1. FP!Spec => []FP!DeleterMatches
  BY FP!DeletersMatch, FactoryAssumption DEF FP!DeletersMatch
<1>2. FP!Spec => []FP!OneOwner
  BY FP!SingleOwner, FactoryAssumption DEF FP!SingleOwner
<1>3. FP!Spec => []FP!NoLeak
  BY FP!NothingLeaks, FactoryAssumption DEF FP!NothingLeaks
<1>4. FP!Spec => FP!GivenBackAsTaken
  BY FP!ReturnedAsTaken, FactoryAssumption DEF FP!ReturnedAsTaken
<1>5. FP!Spec => FP!ImplementsOwner
  BY FP!Refinement, FactoryAssumption DEF FP!Refinement
<1>6. /\ FP!DeleterMatches => Factory!DeleterMatches
      /\ FP!OneOwner => Factory!OneOwner
      /\ FP!NoLeak => Factory!NoLeak
  BY DEF Factory!DeleterMatches, FP!DeleterMatches, Factory!Reassigned, FP!Reassigned,
         Factory!Types, FP!Types, Factory!OneOwner, FP!OneOwner, Factory!NoLeak, FP!NoLeak,
         Factory!Free, FP!Free, Factory!FreeBlock, FP!FreeBlock, Factory!Idle, FP!Idle
<1>7. FP!GivenBackAsTaken => Factory!GivenBackAsTaken
  BY DEF Factory!GivenBackAsTaken, FP!GivenBackAsTaken, Factory!vars, FP!vars,
         Factory!Types, FP!Types, Factory!FreeBlock, FP!FreeBlock
<1>8. FP!ImplementsOwner => Factory!ImplementsOwner
  BY DEF Factory!ImplementsOwner, FP!ImplementsOwner, Factory!Owner!Spec, FP!Owner!Spec,
         Factory!Owner!Init, FP!Owner!Init, Factory!Owner!Next, FP!Owner!Next,
         Factory!Owner!Make, FP!Owner!Make, Factory!Owner!Reset, FP!Owner!Reset,
         Factory!Owner!Move, FP!Owner!Move, Factory!owned, FP!owned,
         Factory!Types, FP!Types
<1> QED BY <1>1, <1>2, <1>3, <1>4, <1>5, <1>6, <1>7, <1>8, FactoryRefinement, SameFactory,
           PTL DEF ImplementsFactory
=============================================================================
