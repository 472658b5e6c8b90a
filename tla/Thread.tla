------------------------------- MODULE Thread -------------------------------
(***************************************************************************)
(* Groundfloor::Thread (Groundfloor/Materials/Thread.{h,cpp}): an object   *)
(* that owns a native thread, controlled through flags without a mutex.    *)
(*                                                                         *)
(* A controller is a thread that calls start(), stop(), stopAndWait(),     *)
(* waitWhileRunning() or the destructor of one Thread object.  Each        *)
(* native thread start() creates runs executionloop() and is one of Loops. *)
(* Every read and write of a flag another thread uses is a step.  What     *)
(* execute() does is left open: it may call stop(), it returns or throws.  *)
(* The intervals slept have no effect on the flags and are left out.       *)
(***************************************************************************)
EXTENDS Integers, FiniteSets

CONSTANTS Controllers,  \* threads that may call stop()
          Owners,       \* those of them that may also start, wait and destroy
          MaxStarts     \* bound: native threads created in a behaviour

ASSUME ThreadAssumption == Owners \subseteq Controllers /\ MaxStarts \in Nat \ {0}

Loops == 1..MaxStarts
NoLoop == 0

VARIABLES
  bRunning, bStartedExecutionMethod, bShouldTerminate,
  bExceptionOccurred, bThreadIsCreated,
  aPThreadStruct,       \* the native thread created last
  loop,                 \* where each native thread is in executionloop()
  ctl,                  \* where each controller is in its call
  destroyed,            \* the destructor has returned
  spawned,              \* history: the number of native threads created
  detached              \* history: the native threads detached

flags == <<bRunning, bStartedExecutionMethod, bShouldTerminate,
           bExceptionOccurred, bThreadIsCreated, aPThreadStruct>>
threadVars == <<flags, loop, ctl, destroyed, spawned, detached>>

ThreadInit ==
  /\ bRunning = FALSE
  /\ bStartedExecutionMethod = FALSE
  /\ bShouldTerminate = FALSE
  /\ bExceptionOccurred = FALSE
  /\ bThreadIsCreated = FALSE
  /\ aPThreadStruct = NoLoop
  /\ loop = [l \in Loops |-> "none"]
  /\ ctl = [c \in Controllers |-> "idle"]
  /\ destroyed = FALSE
  /\ spawned = 0
  /\ detached = {}

CtlGoto(c, from, to) ==
  /\ ctl[c] = from /\ ctl' = [ctl EXCEPT ![c] = to]
  /\ UNCHANGED loop

LoopGoto(l, from, to) ==
  /\ loop[l] = from /\ loop' = [loop EXCEPT ![l] = to]
  /\ UNCHANGED <<ctl, destroyed, spawned, detached, aPThreadStruct, bThreadIsCreated>>

(***************************************************************************)
(* start()                                                                 *)
(***************************************************************************)

\* The thread is running already: start() returns without doing anything.
StartIgnored(c) ==
  /\ c \in Owners /\ ~destroyed
  /\ CtlGoto(c, "idle", "idle")
  /\ bRunning
  /\ UNCHANGED <<flags, destroyed, spawned, detached>>

StartCall(c) ==
  /\ c \in Owners /\ ~destroyed
  /\ spawned < MaxStarts
  /\ CtlGoto(c, "idle", "start.begin")
  /\ ~bRunning
  /\ UNCHANGED <<flags, destroyed, spawned, detached>>

StartClearStarted(c) ==
  /\ CtlGoto(c, "start.begin", "start.reset")
  /\ bStartedExecutionMethod' = FALSE
  /\ UNCHANGED <<bRunning, bShouldTerminate, bExceptionOccurred, bThreadIsCreated,
                 aPThreadStruct, destroyed, spawned, detached>>

\* cleanup(): the previous native thread is detached.
Detached == IF bThreadIsCreated THEN detached \union {aPThreadStruct} ELSE detached

\* Mutant: start() creates the next native thread without cleanup().
StartResetNoCleanup(c) ==
  /\ CtlGoto(c, "start.reset", "start.create")
  /\ bShouldTerminate' = FALSE
  /\ bExceptionOccurred' = FALSE
  /\ UNCHANGED <<bRunning, bStartedExecutionMethod, bThreadIsCreated, aPThreadStruct,
                 destroyed, spawned, detached>>

StartReset(c) ==
  /\ CtlGoto(c, "start.reset", "start.create")
  /\ bShouldTerminate' = FALSE
  /\ bExceptionOccurred' = FALSE
  /\ detached' = Detached
  /\ bThreadIsCreated' = FALSE
  /\ UNCHANGED <<bRunning, bStartedExecutionMethod, aPThreadStruct, destroyed, spawned>>

\* pthread_create() succeeds.
StartCreate(c) ==
  /\ ctl[c] = "start.create" /\ ctl' = [ctl EXCEPT ![c] = "start.wait"]
  /\ spawned < MaxStarts
  /\ spawned' = spawned + 1
  /\ loop' = [loop EXCEPT ![spawned + 1] = "created"]
  /\ aPThreadStruct' = spawned + 1
  /\ bThreadIsCreated' = TRUE
  /\ UNCHANGED <<bRunning, bStartedExecutionMethod, bShouldTerminate, bExceptionOccurred,
                 destroyed, detached>>

\* Mutant: start() does not wait for the native thread to report.
StartReturnAtOnce(c) ==
  /\ CtlGoto(c, "start.wait", "idle")
  /\ UNCHANGED <<flags, destroyed, spawned, detached>>

StartReturn(c) ==
  /\ CtlGoto(c, "start.wait", "idle")
  /\ bStartedExecutionMethod
  /\ UNCHANGED <<flags, destroyed, spawned, detached>>

(***************************************************************************)
(* stop(), stopAndWait(), waitWhileRunning(), the destructor               *)
(***************************************************************************)
RequestStop ==
  /\ bShouldTerminate' = TRUE
  /\ UNCHANGED <<bRunning, bStartedExecutionMethod, bExceptionOccurred, bThreadIsCreated,
                 aPThreadStruct>>

Stop(c) ==
  /\ ~destroyed
  /\ CtlGoto(c, "idle", "idle")
  /\ RequestStop
  /\ UNCHANGED <<destroyed, spawned, detached>>

StopAndWaitCall(c) ==
  /\ c \in Owners /\ ~destroyed
  /\ CtlGoto(c, "idle", "stop.wait")
  /\ RequestStop
  /\ UNCHANGED <<destroyed, spawned, detached>>

WaitCall(c) ==
  /\ c \in Owners /\ ~destroyed
  /\ CtlGoto(c, "idle", "wait")
  /\ UNCHANGED <<flags, destroyed, spawned, detached>>

\* ~Thread() is stopAndWait() and then cleanup().
DestroyCall(c) ==
  /\ c \in Owners /\ ~destroyed
  /\ CtlGoto(c, "idle", "destroy.wait")
  /\ RequestStop
  /\ UNCHANGED <<destroyed, spawned, detached>>

\* Mutant: stopAndWait() is satisfied when the thread was told to stop.
WaitReturnWhenTold(c) ==
  /\ \/ CtlGoto(c, "stop.wait", "idle") /\ bShouldTerminate
     \/ CtlGoto(c, "wait", "idle") /\ ~bRunning
  /\ UNCHANGED <<flags, destroyed, spawned, detached>>

WaitReturn(c) ==
  /\ \/ CtlGoto(c, "stop.wait", "idle")
     \/ CtlGoto(c, "wait", "idle")
  /\ ~bRunning
  /\ UNCHANGED <<flags, destroyed, spawned, detached>>

DestroyReturn(c) ==
  /\ CtlGoto(c, "destroy.wait", "idle")
  /\ ~bRunning
  /\ detached' = Detached
  /\ bThreadIsCreated' = FALSE
  /\ destroyed' = TRUE
  /\ UNCHANGED <<bRunning, bStartedExecutionMethod, bShouldTerminate, bExceptionOccurred,
                 aPThreadStruct, spawned>>

(***************************************************************************)
(* executionloop(), in the native thread                                   *)
(***************************************************************************)
LoopEnter(l) ==
  /\ LoopGoto(l, "created", "entered")
  /\ bRunning' = TRUE
  /\ UNCHANGED <<bStartedExecutionMethod, bShouldTerminate, bExceptionOccurred>>

LoopAnnounce(l) ==
  /\ LoopGoto(l, "entered", "test")
  /\ bStartedExecutionMethod' = TRUE
  /\ UNCHANGED <<bRunning, bShouldTerminate, bExceptionOccurred>>

LoopTest(l) ==
  /\ LoopGoto(l, "test", IF bShouldTerminate THEN "leave" ELSE "execute")
  /\ UNCHANGED <<bRunning, bStartedExecutionMethod, bShouldTerminate, bExceptionOccurred>>

\* execute() calls stop() on its own object, as RunnableFunction does.
ExecuteStop(l) ==
  /\ LoopGoto(l, "execute", "execute")
  /\ RequestStop

ExecuteReturn(l) ==
  /\ LoopGoto(l, "execute", "test")
  /\ UNCHANGED <<bRunning, bStartedExecutionMethod, bShouldTerminate, bExceptionOccurred>>

ExecuteThrow(l) ==
  /\ LoopGoto(l, "execute", "leave")
  /\ bExceptionOccurred' = TRUE
  /\ UNCHANGED <<bRunning, bStartedExecutionMethod, bShouldTerminate>>

\* Mutant: an exception leaves bRunning set.
LoopLeaveRunning(l) ==
  /\ LoopGoto(l, "leave", "done")
  /\ bRunning' = bExceptionOccurred
  /\ UNCHANGED <<bStartedExecutionMethod, bShouldTerminate, bExceptionOccurred>>

\* The last access of executionloop() to the object.
LoopLeave(l) ==
  /\ LoopGoto(l, "leave", "done")
  /\ bRunning' = FALSE
  /\ UNCHANGED <<bStartedExecutionMethod, bShouldTerminate, bExceptionOccurred>>

(***************************************************************************)
(* The specification.                                                      *)
(***************************************************************************)
CallThread(c) ==
  \/ StartIgnored(c) \/ StartCall(c) \/ Stop(c) \/ StopAndWaitCall(c)
  \/ WaitCall(c) \/ DestroyCall(c)

StepThread(c) ==
  \/ StartClearStarted(c) \/ StartReset(c) \/ StartCreate(c)
  \/ StartReturn(c) \/ WaitReturn(c) \/ DestroyReturn(c)

LoopControl(l) == LoopEnter(l) \/ LoopAnnounce(l) \/ LoopTest(l) \/ LoopLeave(l)

ExecuteEnd(l) == ExecuteReturn(l) \/ ExecuteThrow(l)

ThreadNext ==
  \/ \E c \in Controllers : CallThread(c) \/ StepThread(c)
  \/ \E l \in Loops : LoopControl(l) \/ ExecuteStop(l) \/ ExecuteEnd(l)

ThreadSpec == ThreadInit /\ [][ThreadNext]_threadVars

\* Threads are scheduled fairly and each call of execute() comes to an end.
ThreadFairness ==
  /\ \A c \in Controllers : WF_threadVars(StepThread(c))
  /\ \A l \in Loops : WF_threadVars(LoopControl(l)) /\ WF_threadVars(ExecuteEnd(l))

FairThreadSpec == ThreadSpec /\ ThreadFairness

(***************************************************************************)
(* Properties.                                                             *)
(***************************************************************************)
\* A native thread that still is to use the object.
Alive(l) == loop[l] \notin {"none", "done"}

\* Thread.cpp:59-60 has start() do nothing if the thread is running already:
\* no two native threads execute the same object at the same time.
AtMostOneLoop == \A l, m \in Loops : Alive(l) /\ Alive(m) => l = m

\* Thread.h:54 has stopAndWait() wait until the executionloop has exited: when
\* it returns to its caller, no native thread uses the object any more.
StopAndWaitHasWaited ==
  [][\A c \in Owners : ctl[c] = "stop.wait" /\ ctl'[c] = "idle"
                         => \A l \in Loops : ~Alive(l)]_threadVars

\* No native thread is forgotten, and none is detached that was never created:
\* the only one that may be left to detach is the one whose handle is kept.
HandlesKept ==
  /\ detached \subseteq 1..spawned
  /\ \A l \in 1..spawned : l \in detached \/ (bThreadIsCreated /\ aPThreadStruct = l)

\* Over any number of starts no handle of a native thread is lost, and once the
\* destructor has returned, none touches the object and each one was detached.
DestroyedCleanly ==
  /\ HandlesKept
  /\ destroyed => \A l \in Loops : ~Alive(l) /\ (l <= spawned => l \in detached)

\* Every call comes back, if execute() does: start(), because the thread it
\* creates reports even if it is stopped, ends by itself or throws in its first
\* round, and stopAndWait() and the destructor, because bRunning is cleared
\* however the loop is left.
CallsReturn ==
  \A c \in Owners :
    ctl[c] \in {"start.wait", "stop.wait", "destroy.wait"} ~> ctl[c] = "idle"

=============================================================================
