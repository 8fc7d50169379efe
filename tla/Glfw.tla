-------------------------------- MODULE Glfw --------------------------------
(***************************************************************************)
(* The part of GLFW 3.4 (with its X11/GLX back end) and of the glad loader *)
(* that platform::app calls, one operator per call.  Failures of the       *)
(* window system and the driver are nondeterministic; hints, windows and   *)
(* the current context follow the library's code.                          *)
(***************************************************************************)
EXTENDS Naturals

CONSTANTS Windows,   \* the _GLFWwindow objects
          Versions,  \* 10 * major + minor of the contexts drivers can create
          NULL

WindowState == [shouldClose : BOOLEAN, version : Versions]

ASSUME GlfwAssumption ==
  Versions \subseteq Nat /\ NULL \notin Windows /\ NULL \notin WindowState

VARIABLES
  initialized,  \* _glfw.initialized
  hinted,       \* _glfw.hints.context: the version asked for
  win,          \* Windows -> the window's state, NULL when not in the list
  current,      \* _glfw.contextSlot: whose context is current
  loaded,       \* do glad's function pointers point to functions?
  events,       \* has the window system a close request queued?
  errors        \* the codes passed to _glfwInputError so far

glfwVars == <<initialized, hinted, win, current, loaded, events, errors>>

Errors == {"NOT_INITIALIZED", "NO_CURRENT_CONTEXT", "PLATFORM_ERROR"}
DefaultVersion == 10  \* glfwDefaultWindowHints: OpenGL 1.0
Listed == {w \in Windows : win[w] # NULL}
NoWindows == [w \in Windows |-> NULL]

GlfwInit == /\ initialized = FALSE /\ hinted = 0
            /\ win = NoWindows /\ current = NULL
            /\ loaded = FALSE /\ events = FALSE /\ errors = {}

InputError(code) == errors' = errors \cup {code}

(* A call into the window system or the driver that is refused unless ok.  *)
Attempt(ok) == IF ok THEN UNCHANGED errors ELSE InputError("PLATFORM_ERROR")

(* _GLFW_REQUIRE_INIT: outside glfwInit..glfwTerminate a call only errs.   *)
RequireInit(call) ==
  IF initialized THEN call
  ELSE /\ InputError("NOT_INITIALIZED")
       /\ UNCHANGED <<initialized, hinted, win, current, loaded, events>>

(* The program calls it once; ok is the answer of the platform's init.     *)
glfwInit(ok) ==
  /\ initialized' = ok
  /\ hinted' = IF ok THEN DefaultVersion ELSE 0
  /\ Attempt(ok)
  /\ UNCHANGED <<win, current, loaded, events>>

(* The pair of hints CONTEXT_VERSION_MAJOR, CONTEXT_VERSION_MINOR.         *)
glfwWindowHint(version) == RequireInit(
  /\ hinted' = version
  /\ UNCHANGED <<initialized, win, current, loaded, events, errors>>)

(* Success: the window is listed and its context, which is at least what   *)
(* was asked for, current no more: _glfwRefreshContextAttribs made it so to *)
(* read its version, and puts the previous one back, which may fail (~ok). *)
glfwCreateWindow(w, version, ok) == RequireInit(
  /\ w \notin Listed
  /\ version >= hinted
  /\ win' = [win EXCEPT ![w] = [shouldClose |-> FALSE, version |-> version]]
  /\ Attempt(ok)
  /\ current' = IF ok THEN current ELSE w
  /\ UNCHANGED <<initialized, hinted, loaded, events>>)

(* Failure, of whatever kind: what was made so far is destroyed again.     *)
glfwCreateWindowFails == RequireInit(
  /\ InputError("PLATFORM_ERROR")
  /\ UNCHANGED <<initialized, hinted, win, current, loaded, events>>)

(* glXMakeCurrent may refuse; the slot then keeps its value.               *)
glfwMakeContextCurrent(w, ok) == RequireInit(
  /\ Attempt(ok)
  /\ current' = IF ok THEN w ELSE current
  /\ UNCHANGED <<initialized, hinted, win, loaded, events>>)

(* gladLoadGL(glfwGetProcAddress): without a current context every lookup  *)
(* yields NULL and the loader returns 0 having loaded nothing.             *)
gladLoadGL == RequireInit(
  /\ IF current # NULL THEN loaded' = TRUE /\ UNCHANGED errors
     ELSE InputError("NO_CURRENT_CONTEXT") /\ UNCHANGED loaded
  /\ UNCHANGED <<initialized, hinted, win, current, events>>)

glfwSwapInterval == RequireInit(
  /\ IF current # NULL THEN UNCHANGED errors ELSE InputError("NO_CURRENT_CONTEXT")
  /\ UNCHANGED <<initialized, hinted, win, current, loaded, events>>)

(* PollEventsDeaf loses the close request it takes from the queue          *)
PollEventsDeaf == RequireInit(
  /\ events' = FALSE
  /\ UNCHANGED <<initialized, hinted, win, current, loaded, errors>>)

(* A close request in the queue becomes the window's shouldClose flag.     *)
glfwPollEvents == RequireInit(
  /\ win' = [w \in Windows |->
               IF w \in Listed /\ events THEN [win[w] EXCEPT !.shouldClose = TRUE]
               ELSE win[w]]
  /\ events' = FALSE
  /\ UNCHANGED <<initialized, hinted, current, loaded, errors>>)

(* Calls that need the library but change none of this state.              *)
glfwSwapBuffers == RequireInit(UNCHANGED glfwVars)
glfwGetPlatform == RequireInit(UNCHANGED glfwVars)

(* glfwDestroyWindow leaving the window's context current                  *)
DestroyWindowStillCurrent(w, ok) == RequireInit(
  /\ win' = [win EXCEPT ![w] = NULL]
  /\ events' = FALSE
  /\ UNCHANGED <<initialized, hinted, current, loaded, errors>>)

(* Its context is detached, if that is current and the driver lets go of   *)
(* it (ok), then the window leaves the list.                               *)
glfwDestroyWindow(w, ok) == RequireInit(
  /\ win' = [win EXCEPT ![w] = NULL]
  /\ IF current = w
     THEN Attempt(ok) /\ current' = IF ok THEN NULL ELSE current
     ELSE UNCHANGED <<current, errors>>
  /\ events' = FALSE
  /\ UNCHANGED <<initialized, hinted, loaded>>)

(* Destroys what windows are left and zeroes the library's state.          *)
terminate ==
  /\ initialized' = FALSE /\ hinted' = 0
  /\ win' = NoWindows /\ current' = NULL /\ events' = FALSE

glfwTerminate ==
  /\ IF initialized THEN terminate
     ELSE UNCHANGED <<initialized, hinted, win, current, events>>
  /\ UNCHANGED <<loaded, errors>>

(* The environment: somebody asks an open window to close.                 *)
UserCloses == /\ Listed # {} /\ ~events
              /\ events' = TRUE
              /\ UNCHANGED <<initialized, hinted, win, current, loaded, errors>>

GlfwTypeOK ==
  /\ initialized \in BOOLEAN /\ loaded \in BOOLEAN /\ events \in BOOLEAN
  /\ hinted \in Nat
  /\ win \in [Windows -> WindowState \cup {NULL}]
  /\ current \in Windows \cup {NULL}
  /\ errors \subseteq Errors
=============================================================================
