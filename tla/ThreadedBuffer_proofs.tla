----------------------- MODULE ThreadedBuffer_proofs -----------------------
(***************************************************************************)
(* Theorems about Thread, for any number of controllers and starts, as long *)
(* as one thread alone starts, waits for and destroys the object; and about *)
(* ThreadedBuffer, for any producers, controllers, objects and starts: it   *)
(* is a Thread, it processes its objects once and in order, and, if one     *)
(* thread owns it, it ends cleanly.                                         *)
(*                                                                         *)
(* The argument for Thread: only one native thread can still use the        *)
(* object, the one created last; while it has not announced itself, the     *)
(* owner waits in start(); from then on bRunning says whether it still uses *)
(* the object.  The argument for the buffer is given below.                 *)
(***************************************************************************)
EXTENDS ThreadedBuffer, SequenceTheorems, TLAPS

\* Who may start and destroy: not two threads at a time.  With two owners
\* stopAndWait() may return while the other is in start().
OneOwner == \A c, d \in Owners : c = d

(***************************************************************************)
(* The inductive invariant                                                  *)
(***************************************************************************)

Running == {"entered", "test", "execute", "leave"}
LoopPlaces == {"none", "created", "done"} \union Running
Starting == {"start.begin", "start.reset", "start.create"}
CtlPlaces == {"idle", "start.wait", "stop.wait", "wait", "destroy.wait"} \union Starting

TypeInv ==
  /\ {bRunning, bStartedExecutionMethod, bShouldTerminate,
      bExceptionOccurred, bThreadIsCreated, destroyed} \subseteq BOOLEAN
  /\ aPThreadStruct \in Nat
  /\ loop \in [Loops -> LoopPlaces]
  /\ ctl \in [Controllers -> CtlPlaces]
  /\ spawned \in Nat
  /\ detached \subseteq Loops

\* Only an owner is ever inside a call.
CallInv == \A c \in Controllers : ctl[c] # "idle" => c \in Owners

\* The native threads created so far; all but the last are done, and bRunning
\* tells of the last one.
LoopInv ==
  /\ spawned <= MaxStarts
  /\ \A l \in Loops : loop[l] = "none" <=> l > spawned
  /\ \A l \in Loops : Alive(l) => l = spawned
  /\ \A l \in Loops : loop[l] \in Running => bRunning
  /\ bRunning => \E l \in Loops : loop[l] \in Running

\* Until a native thread has announced itself the owner waits for it, and
\* nothing uses the object while the owner makes ready to create one.
StartInv ==
  /\ \A l \in Loops : loop[l] \in {"created", "entered"} =>
       /\ ~bStartedExecutionMethod
       /\ \E c \in Owners : ctl[c] = "start.wait"
  /\ \A c \in Owners : ctl[c] \in Starting => \A l \in Loops : ~Alive(l)
  /\ \A c \in Owners : ctl[c] \in {"start.reset", "start.create"} => ~bStartedExecutionMethod

\* Each handle was detached, but for the one that is kept.
HandleInv ==
  /\ HandlesKept
  /\ bThreadIsCreated => aPThreadStruct \in 1..spawned
  /\ \A c \in Owners : ctl[c] = "start.create" => ~bThreadIsCreated

\* After the destructor the owner calls nothing any more.
DestroyInv ==
  destroyed => /\ ~bThreadIsCreated
               /\ \A l \in Loops : ~Alive(l)
               /\ \A c \in Owners : ctl[c] = "idle"

ThreadInv == TypeInv /\ CallInv /\ LoopInv /\ StartInv /\ HandleInv /\ DestroyInv

(***************************************************************************)
(* It holds                                                                 *)
(***************************************************************************)

\* The invariant of Thread holds at the start.
LEMMA InitEstablishes == ThreadInit => ThreadInv
<1> SUFFICES ASSUME ThreadInit PROVE ThreadInv
  OBVIOUS
<1> USE ThreadAssumption DEF ThreadInit, Loops, NoLoop
<1>1. TypeInv
  BY DEF TypeInv, LoopPlaces, CtlPlaces
<1>2. CallInv
  BY DEF CallInv
<1>3. LoopInv
  BY DEF LoopInv, Alive, Running
<1>4. StartInv
  BY DEF StartInv, Starting
<1>5. HandleInv
  BY DEF HandleInv, HandlesKept
<1>6. DestroyInv
  BY DEF DestroyInv
<1> QED BY <1>1, <1>2, <1>3, <1>4, <1>5, <1>6 DEF ThreadInv

\* While the owner is in a call that is not waiting for a native thread to announce
\* itself, bRunning is all it needs to know of them.
LEMMA NobodyUsesIt ==
  ASSUME ThreadInv, OneOwner, NEW c \in Controllers,
         ctl[c] \notin {"idle", "start.wait"}, ~bRunning
  PROVE  \A l \in Loops : ~Alive(l)
BY DEF ThreadInv, TypeInv, CallInv, LoopInv, StartInv, OneOwner, LoopPlaces, Alive, Running

\* cleanup() leaves no handle, and detaches native threads that were created only.
LEMMA CleanupDetachesAll ==
  ASSUME ThreadInv
  PROVE  Detached = 1..spawned /\ 1..spawned \subseteq Loops
<1>1. 1..spawned \subseteq Loops
  BY ThreadAssumption DEF ThreadInv, TypeInv, LoopInv, Loops
<1>2. HandlesKept /\ (bThreadIsCreated => aPThreadStruct \in 1..spawned)
  BY DEF ThreadInv, HandleInv
<1>3. Detached \subseteq 1..spawned
  BY <1>2 DEF HandlesKept, Detached
<1>4. \A l \in 1..spawned : l \in Detached
  BY <1>2 DEF HandlesKept, Detached
<1> QED BY <1>1, <1>3, <1>4

\* The calls and steps of a controller.
LEMMA ControllersKeep ==
  ASSUME ThreadInv, OneOwner, NEW c \in Controllers, CallThread(c) \/ StepThread(c)
  PROVE  ThreadInv'
<1> USE ThreadAssumption
    DEF ThreadInv, TypeInv, CallInv, LoopInv, StartInv, HandleInv, DestroyInv, HandlesKept,
        OneOwner, Alive, Loops, LoopPlaces, CtlPlaces, Running, Starting, CtlGoto, flags
<1>1. CASE StartIgnored(c)
  BY <1>1 DEF StartIgnored
<1>2. CASE StartCall(c)
  BY <1>2 DEF StartCall
<1>3. CASE Stop(c)
  BY <1>3 DEF Stop, RequestStop
<1>4. CASE StopAndWaitCall(c)
  BY <1>4 DEF StopAndWaitCall, RequestStop
<1>5. CASE WaitCall(c)
  BY <1>5 DEF WaitCall
<1>6. CASE DestroyCall(c)
  BY <1>6 DEF DestroyCall, RequestStop
<1>7. CASE StartClearStarted(c)
  BY <1>7 DEF StartClearStarted
<1>8. CASE StartReset(c)
  <2>1. detached' = 1..spawned /\ 1..spawned \subseteq Loops
    BY <1>8, CleanupDetachesAll DEF StartReset
  <2> HIDE DEF Loops
  <2>2. TypeInv' /\ CallInv' /\ LoopInv' /\ StartInv' /\ DestroyInv'
    BY <1>8, <2>1 DEF StartReset
  <2>3. HandleInv'
    BY <1>8, <2>1 DEF StartReset
  <2> QED BY <2>2, <2>3
<1>9. CASE StartCreate(c)
  BY <1>9 DEF StartCreate
<1>10. CASE StartReturn(c)
  BY <1>10 DEF StartReturn
<1>11. CASE WaitReturn(c)
  BY <1>11 DEF WaitReturn
<1>12. CASE DestroyReturn(c)
  <2>1. detached' = 1..spawned /\ 1..spawned \subseteq Loops
    BY <1>12, CleanupDetachesAll DEF DestroyReturn
  <2>2. \A l \in Loops : ~Alive(l)
    BY <1>12, NobodyUsesIt DEF DestroyReturn
  <2> HIDE DEF Loops
  <2>3. TypeInv' /\ CallInv' /\ LoopInv' /\ StartInv'
    BY <1>12, <2>1 DEF DestroyReturn
  <2>4. HandleInv' /\ DestroyInv'
    BY <1>12, <2>1, <2>2 DEF DestroyReturn
  <2> QED BY <2>3, <2>4
<1> QED BY <1>1, <1>2, <1>3, <1>4, <1>5, <1>6, <1>7, <1>8, <1>9, <1>10, <1>11, <1>12 DEF CallThread, StepThread

\* The steps of a native thread.
LEMMA LoopsKeep ==
  ASSUME ThreadInv, NEW l \in Loops, LoopControl(l) \/ ExecuteStop(l) \/ ExecuteEnd(l)
  PROVE  ThreadInv'
<1> USE ThreadAssumption
    DEF ThreadInv, TypeInv, CallInv, LoopInv, StartInv, HandleInv, DestroyInv, HandlesKept,
        Alive, Loops, LoopPlaces, CtlPlaces, Running, Starting, LoopGoto
<1>1. CASE LoopEnter(l)
  BY <1>1 DEF LoopEnter
<1>2. CASE LoopAnnounce(l)
  BY <1>2 DEF LoopAnnounce
<1>3. CASE LoopTest(l)
  BY <1>3 DEF LoopTest
<1>4. CASE LoopLeave(l)
  BY <1>4 DEF LoopLeave
<1>5. CASE ExecuteStop(l)
  BY <1>5 DEF ExecuteStop, RequestStop
<1>6. CASE ExecuteReturn(l)
  BY <1>6 DEF ExecuteReturn
<1>7. CASE ExecuteThrow(l)
  BY <1>7 DEF ExecuteThrow
<1> QED BY <1>1, <1>2, <1>3, <1>4, <1>5, <1>6, <1>7 DEF LoopControl, ExecuteEnd

\* Steps that do not concern it keep it.
LEMMA StutteringKeeps == ThreadInv /\ UNCHANGED threadVars => ThreadInv'
BY DEF threadVars, flags, ThreadInv, TypeInv, CallInv, LoopInv, StartInv, HandleInv, DestroyInv,
       HandlesKept, Alive

\* The invariant, for one owner and any number of other threads that call stop().
THEOREM ThreadInvHolds == ASSUME OneOwner PROVE ThreadSpec => []ThreadInv
<1>1. ThreadInv /\ [ThreadNext]_threadVars => ThreadInv'
  BY ControllersKeep, LoopsKeep, StutteringKeeps DEF ThreadNext
<1> QED BY InitEstablishes, <1>1, PTL DEF ThreadSpec

-----------------------------------------------------------------------------
(* What follows from it                                                     *)

\* Thread.cpp:59-60: however often the thread is started and stopped, no two native
\* threads execute the same object at the same time.
THEOREM NeverTwoLoops == ASSUME OneOwner PROVE ThreadSpec => []AtMostOneLoop
<1>1. ThreadInv => AtMostOneLoop
  BY DEF ThreadInv, LoopInv, AtMostOneLoop
<1> QED BY ThreadInvHolds, <1>1, PTL

\* Over any number of starts no handle of a native thread is lost, and after the
\* destructor none uses the object and each was detached.
THEOREM DestructionIsClean == ASSUME OneOwner PROVE ThreadSpec => []DestroyedCleanly
<1>1. ThreadInv => DestroyedCleanly
  BY DEF ThreadInv, TypeInv, HandleInv, HandlesKept, DestroyInv, DestroyedCleanly, Loops
<1> QED BY ThreadInvHolds, <1>1, PTL

\* Thread.h:54: when stopAndWait() returns to the only owner, no native thread uses
\* the object.  With a second owner in start() this is not so.
THEOREM StopAndWaitWaits == ASSUME OneOwner PROVE ThreadSpec => StopAndWaitHasWaited
<1>1. ThreadInv /\ [ThreadNext]_threadVars =>
        [\A c \in Owners : ctl[c] = "stop.wait" /\ ctl'[c] = "idle"
                              => \A l \in Loops : ~Alive(l)]_threadVars
  <2> SUFFICES ASSUME ThreadInv, ThreadNext, NEW c \in Owners,
                      ctl[c] = "stop.wait", ctl'[c] = "idle"
               PROVE  \A l \in Loops : ~Alive(l)
    OBVIOUS
  <2>1. c \in Controllers /\ ctl \in [Controllers -> CtlPlaces]
    BY ThreadAssumption DEF ThreadInv, TypeInv
  <2>2. ~bRunning
    BY <2>1 DEF ThreadNext, CallThread, StepThread, LoopControl, ExecuteEnd, CtlGoto, LoopGoto,
           StartIgnored, StartCall, Stop, StopAndWaitCall, WaitCall, DestroyCall, StartClearStarted,
           StartReset, StartCreate, StartReturn, WaitReturn, DestroyReturn, LoopEnter, LoopAnnounce,
           LoopTest, LoopLeave, ExecuteStop, ExecuteReturn, ExecuteThrow
  <2> QED BY <2>1, <2>2, NobodyUsesIt
<1> QED BY ThreadInvHolds, <1>1, PTL DEF ThreadSpec, StopAndWaitHasWaited


(***************************************************************************)
(* It is a Thread: every step is one of Thread, or none of its concern.     *)
(***************************************************************************)

\* Every step is one of Thread, or none of its concern.
LEMMA ThreadSteps == TBNext => [ThreadNext]_threadVars
<1> SUFFICES ASSUME TBNext PROVE [ThreadNext]_threadVars
  OBVIOUS
<1>1. ASSUME NEW p \in Producers,
             (\E x \in Fresh : AddCall(p, x)) \/ AddLock(p) \/ AddPush(p) \/ AddUnlock(p)
      PROVE  UNCHANGED threadVars
  BY <1>1 DEF AddCall, AddLock, AddPush, AddUnlock
<1>2. ASSUME NEW l \in Loops, Execute(l) \/ ProcessStops(l) \/ \E x \in Fresh : ProcessAdds(l, x)
      PROVE  [ThreadNext]_threadVars
  <2>1. ExecuteStop(l) \/ ExecuteReturn(l) => ThreadNext
    BY DEF ThreadNext, ExecuteEnd
  <2> QED
    BY <1>2, <2>1 DEF Execute, ExecuteLock, ProcessBegin, NothingToProcess, ProcessTrue, ProcessFalse,
       ProcessThrows, ProcessedPop, StopIfEmpty, ExecuteUnlock, ProcessStops, ProcessAdds
<1>3. ASSUME NEW l \in Loops, LoopControl(l)
      PROVE  ThreadNext
  BY <1>3 DEF ThreadNext
<1>4. ASSUME NEW c \in Controllers, Control(c) \/ DestroyBase(c) \/ StepThread(c)
      PROVE  ThreadNext
  BY <1>4 DEF ThreadNext, Control, DestroyBase, CallThread
<1>5. ASSUME NEW c \in Controllers, DestroyDerived(c)
      PROVE  UNCHANGED threadVars
  BY <1>5 DEF DestroyDerived
<1>6. SetStopWhenEmpty => UNCHANGED threadVars
  BY DEF SetStopWhenEmpty
<1> QED BY <1>1, <1>2, <1>3, <1>4, <1>5, <1>6 DEF TBNext

\* ThreadedBuffer.h: the class derives from Thread, and whatever its execute() does
\* and its methods call, it behaves as Thread does.
THEOREM ImplementsThread == TBSpec => ThreadSpec
<1>1. TBInit => ThreadInit
  BY DEF TBInit
<1>2. [TBNext]_tbVars => [ThreadNext]_threadVars
  BY ThreadSteps DEF tbVars
<1> QED BY <1>1, <1>2, PTL DEF TBSpec, ThreadSpec

(***************************************************************************)
(* Objects are processed once, in order                                     *)
(*                                                                          *)
(* Who is beyond the first step of execute() holds the mutex, so the queue  *)
(* changes under nobody's hands: it always is what was added without the    *)
(* objects popped, and those were processed, one more between the moment    *)
(* processObject() accepts the first and its pop.                           *)
(***************************************************************************)

BodyPlaces == {"begin", "locked", "process", "pop", "check", "unlock"}

BufferTypes ==
  /\ lockBuffer \in Producers \union Loops \union {NULL}
  /\ added \in Seq(Objects) /\ aBuffer \in Seq(Objects) /\ processed \in Seq(Objects)
  /\ body \in [Loops -> BodyPlaces]
  /\ adding \in [Producers -> Objects \union {NULL}]

MutexInv ==
  /\ \A l \in Loops : body[l] # "begin" <=> lockBuffer = l
  /\ \A p \in Producers : lockBuffer = p => adding[p] # NULL

\* The buffer is the end of what was added, and what was processed its beginning.
OrderInv ==
  /\ Len(aBuffer) <= Len(added)
  /\ \A n \in 1..Len(aBuffer) : aBuffer[n] = added[Taken + n]
  /\ Len(processed) <= Len(added)
  /\ \A n \in 1..Len(processed) : processed[n] = added[n]

\* Where execute() is tells how many objects were processed and not popped.
StageInv ==
  /\ \A l \in Loops : body[l] \in {"process", "pop"} => Len(aBuffer) > 0
  /\ \A l \in Loops : body[l] = "pop" => Len(processed) = Taken + 1
  /\ (\A l \in Loops : body[l] # "pop") => Len(processed) = Taken

\* No object is added twice, and none is deleted that was not popped.
OnceInv ==
  /\ \A m, n \in 1..Len(added) : added[m] = added[n] => m = n
  /\ \A x \in deleted : \E n \in 1..Taken : added[n] = x

BufferInv == BufferTypes /\ MutexInv /\ OrderInv /\ StageInv /\ OnceInv

\* The invariant of the buffer holds at the start,
LEMMA BufferInvInit == TBInit => BufferInv
<1> USE DEF TBInit, BufferInv, BufferTypes, MutexInv, OrderInv, StageInv, OnceInv, BodyPlaces, Taken
<1> QED BY BufferAssumption

\* An object goes to the end of the buffer: add() does it with the mutex, and
\* processObject() while the native thread has it.
LEMMA PushKeeps ==
  ASSUME BufferInv, NEW x \in Objects, x \notin Elements(added),
         added' = Append(added, x), aBuffer' = Append(aBuffer, x),
         UNCHANGED <<lockBuffer, body, adding, processed, deleted>>
  PROVE  BufferInv'
<1> USE DEF BufferInv
<1>1. BufferTypes' /\ MutexInv'
  BY DEF BufferTypes, MutexInv
<1>2. /\ Len(added') = Len(added) + 1 /\ Len(aBuffer') = Len(aBuffer) + 1
      /\ \A n \in 1..Len(added) : added'[n] = added[n]
      /\ \A n \in 1..Len(aBuffer) : aBuffer'[n] = aBuffer[n]
      /\ added'[Len(added) + 1] = x /\ aBuffer'[Len(aBuffer) + 1] = x
  BY DEF BufferTypes
<1>3. Len(added) \in Nat /\ Len(aBuffer) \in Nat /\ Len(processed) \in Nat
  BY DEF BufferTypes
<1>4. Taken' = Taken /\ Taken \in Int
  BY <1>2, <1>3 DEF Taken
<1>5. OrderInv' /\ StageInv'
  <2>1. \A n \in 1..Len(aBuffer') : aBuffer'[n] = added'[Taken + n]
    <3> SUFFICES ASSUME NEW n \in 1..Len(aBuffer') PROVE aBuffer'[n] = added'[Taken + n]
      OBVIOUS
    <3>1. CASE n = Len(aBuffer) + 1
      BY <1>2, <1>3, <3>1 DEF Taken
    <3>2. CASE n \in 1..Len(aBuffer)
      <4>1. Taken + n \in 1..Len(added)
        BY <1>3, <3>2 DEF OrderInv, Taken
      <4> QED BY <1>2, <3>2, <4>1 DEF OrderInv
    <3>3. n = Len(aBuffer) + 1 \/ n \in 1..Len(aBuffer)
      BY <1>2, <1>3
    <3> QED BY <3>1, <3>2, <3>3
  <2>2. \A n \in 1..Len(processed') : processed'[n] = added'[n]
    BY <1>2, <1>3 DEF OrderInv
  <2>3. Len(aBuffer') <= Len(added') /\ Len(processed') <= Len(added')
    BY <1>2, <1>3 DEF OrderInv
  <2>4. OrderInv'
    BY <1>4, <2>1, <2>2, <2>3 DEF OrderInv
  <2>5. StageInv'
    BY <1>2, <1>3, <1>4 DEF StageInv
  <2> QED BY <2>4, <2>5
<1>6. OnceInv'
  <2>1. \A n \in 1..Len(added) : added[n] # x
    BY DEF Elements
  <2>2. \A m, n \in 1..Len(added') : added'[m] = added'[n] => m = n
    <3> SUFFICES ASSUME NEW m \in 1..Len(added'), NEW n \in 1..Len(added'), added'[m] = added'[n]
                 PROVE  m = n
      OBVIOUS
    <3>1. m \in 1..Len(added) \/ m = Len(added) + 1
      BY <1>2, <1>3
    <3>2. n \in 1..Len(added) \/ n = Len(added) + 1
      BY <1>2, <1>3
    <3> QED BY <1>2, <2>1, <3>1, <3>2 DEF OnceInv
  <2>3. \A x1 \in deleted : \E n \in 1..Taken : added'[n] = x1
    BY <1>2, <1>3 DEF OnceInv, Taken
  <2> QED BY <1>4, <2>2, <2>3 DEF OnceInv
<1> QED BY <1>1, <1>5, <1>6

\* The first object leaves the buffer after it was processed.
LEMMA PopKeeps ==
  ASSUME BufferInv, NEW l \in Loops, ProcessedPop(l)
  PROVE  BufferInv'
<1> USE DEF BufferInv, ProcessedPop, BodyGoto
<1>1. Len(aBuffer) > 0 /\ aBuffer \in Seq(Objects) /\ aBuffer # <<>>
  BY DEF StageInv, BufferTypes
<1>2. /\ Len(aBuffer') = Len(aBuffer) - 1 /\ aBuffer' \in Seq(Objects)
      /\ \A n \in 1..Len(aBuffer') : aBuffer'[n] = aBuffer[n + 1]
  BY <1>1
<1>3. /\ Len(added) \in Nat /\ Len(aBuffer) \in Nat /\ Len(processed) \in Nat
      /\ Taken \in Nat /\ Taken' = Taken + 1
  BY <1>2 DEF BufferTypes, OrderInv, Taken
<1>4. BufferTypes'
  BY <1>2 DEF BufferTypes, BodyPlaces
<1>5. MutexInv'
  BY DEF MutexInv, BufferTypes
<1>6. \A m \in Loops : body'[m] # "pop"
  BY BufferAssumption DEF MutexInv, BufferTypes
<1>7. OrderInv' /\ StageInv'
  <2>1. \A n \in 1..Len(aBuffer') : aBuffer'[n] = added'[Taken' + n]
    BY <1>2, <1>3 DEF OrderInv
  <2>2. \A m \in Loops : body'[m] \notin {"process", "pop"}
    BY DEF MutexInv, BufferTypes
  <2>3. OrderInv'
    BY <1>2, <1>3, <2>1 DEF OrderInv
  <2>4. StageInv'
    BY <1>3, <1>6, <2>2 DEF StageInv
  <2> QED BY <2>3, <2>4
<1>8. OnceInv'
  <2>1. Head(aBuffer) = added[Taken']
    BY <1>1, <1>3 DEF OrderInv
  <2> QED BY <1>3, <2>1 DEF OnceInv
<1> QED BY <1>4, <1>5, <1>7, <1>8

\* Where the queue is left alone, what is said of it alone stays true.
LEMMA QueueLeftAlone ==
  ASSUME OrderInv, OnceInv, UNCHANGED <<aBuffer, added, processed, deleted>>
  PROVE  OrderInv' /\ OnceInv' /\ Taken' = Taken
BY DEF OrderInv, OnceInv, Taken

\* The steps of add().
LEMMA AddKeeps ==
  ASSUME BufferInv, NEW p \in Producers,
         (\E x \in Fresh : AddCall(p, x)) \/ AddLock(p) \/ AddPush(p) \/ AddUnlock(p)
  PROVE  BufferInv'
<1>1. CASE \E x \in Fresh : AddCall(p, x)
  <2>1. BufferTypes' /\ MutexInv' /\ StageInv'
    BY <1>1 DEF BufferInv, AddCall, Fresh, BufferTypes, MutexInv, StageInv, Taken
  <2> QED BY <1>1, <2>1, QueueLeftAlone DEF AddCall, BufferInv
<1>2. CASE AddLock(p)
  <2>1. BufferTypes' /\ MutexInv' /\ StageInv'
    BY <1>2, BufferAssumption DEF BufferInv, AddLock, BufferTypes, MutexInv, StageInv, Taken
  <2> QED BY <1>2, <2>1, QueueLeftAlone DEF AddLock, BufferInv
<1>3. CASE AddPush(p)
  <2>1. adding[p] \in Objects /\ adding[p] \notin Elements(added)
    BY <1>3 DEF AddPush, BufferInv, BufferTypes, MutexInv
  <2> QED BY <1>3, <2>1, PushKeeps DEF AddPush
<1>4. CASE AddUnlock(p)
  <2>1. BufferTypes' /\ MutexInv' /\ StageInv'
    BY <1>4, BufferAssumption DEF BufferInv, AddUnlock, BufferTypes, MutexInv, StageInv, Taken
  <2> QED BY <1>4, <2>1, QueueLeftAlone DEF AddUnlock, BufferInv
<1> QED BY <1>1, <1>2, <1>3, <1>4

\* The steps of execute(), and what processObject() calls.
LEMMA ExecuteKeeps ==
  ASSUME BufferInv, NEW l \in Loops,
         Execute(l) \/ ProcessStops(l) \/ \E x \in Fresh : ProcessAdds(l, x)
  PROVE  BufferInv'
<1> USE DEF BufferInv, BodyGoto
<1>1. CASE ExecuteLock(l)
  <2>1. BufferTypes' /\ MutexInv' /\ StageInv'
    BY <1>1, BufferAssumption DEF ExecuteLock, BufferTypes, BodyPlaces, MutexInv, StageInv, Taken
  <2> QED BY <1>1, <2>1, QueueLeftAlone DEF ExecuteLock
<1>2. CASE ProcessBegin(l)
  <2>1. BufferTypes' /\ MutexInv' /\ StageInv'
    BY <1>2, BufferAssumption DEF ProcessBegin, BufferTypes, BodyPlaces, MutexInv, StageInv, Taken
  <2> QED BY <1>2, <2>1, QueueLeftAlone DEF ProcessBegin
<1>3. CASE NothingToProcess(l)
  <2>1. BufferTypes' /\ MutexInv' /\ StageInv'
    BY <1>3, BufferAssumption DEF NothingToProcess, BufferTypes, BodyPlaces, MutexInv, StageInv, Taken
  <2> QED BY <1>3, <2>1, QueueLeftAlone DEF NothingToProcess
<1>4. CASE ProcessTrue(l)
  <2>1. /\ Len(aBuffer) > 0 /\ Len(processed) = Taken
        /\ \A m \in Loops : m # l => body[m] = "begin"
    BY <1>4 DEF ProcessTrue, StageInv, MutexInv
  <2>2. /\ Head(aBuffer) = added[Len(processed) + 1] /\ Head(aBuffer) \in Objects
        /\ Len(processed) + 1 <= Len(added) /\ Len(processed) \in Nat
    BY <2>1 DEF BufferTypes, OrderInv, Taken
  <2>3. /\ processed' \in Seq(Objects) /\ Len(processed') = Len(processed) + 1
        /\ \A n \in 1..Len(processed) : processed'[n] = processed[n]
        /\ processed'[Len(processed) + 1] = Head(aBuffer)
    BY <1>4, <2>2 DEF ProcessTrue, BufferTypes
  <2>4. BufferTypes' /\ MutexInv'
    BY <1>4, <2>3 DEF ProcessTrue, BufferTypes, BodyPlaces, MutexInv
  <2>5. aBuffer' = aBuffer /\ added' = added /\ deleted' = deleted /\ Taken' = Taken
    BY <1>4 DEF ProcessTrue, Taken
  <2>6. \A n \in 1..Len(processed') : processed'[n] = added[n]
    BY <2>2, <2>3 DEF OrderInv
  <2>7. OrderInv' /\ OnceInv'
    BY <2>2, <2>3, <2>5, <2>6 DEF OrderInv, OnceInv
  <2>8. StageInv'
    BY <1>4, <2>1, <2>3, <2>5 DEF ProcessTrue, StageInv, BufferTypes
  <2> QED BY <2>4, <2>7, <2>8
<1>5. CASE ProcessFalse(l) \/ ProcessThrows(l)
  <2>1. BufferTypes' /\ MutexInv' /\ StageInv'
    BY <1>5, BufferAssumption
       DEF ProcessFalse, ProcessThrows, BufferTypes, BodyPlaces, MutexInv, StageInv, Taken
  <2> QED BY <1>5, <2>1, QueueLeftAlone DEF ProcessFalse, ProcessThrows
<1>6. CASE ProcessedPop(l)
  BY <1>6, PopKeeps
<1>7. CASE StopIfEmpty(l)
  <2>1. BufferTypes' /\ MutexInv' /\ StageInv'
    BY <1>7, BufferAssumption DEF StopIfEmpty, BufferTypes, BodyPlaces, MutexInv, StageInv, Taken
  <2> QED BY <1>7, <2>1, QueueLeftAlone DEF StopIfEmpty
<1>8. CASE ExecuteUnlock(l)
  <2>1. BufferTypes' /\ MutexInv' /\ StageInv'
    BY <1>8, BufferAssumption DEF ExecuteUnlock, BufferTypes, BodyPlaces, MutexInv, StageInv, Taken
  <2> QED BY <1>8, <2>1, QueueLeftAlone DEF ExecuteUnlock
<1>9. CASE ProcessStops(l)
  <2>1. BufferTypes' /\ MutexInv' /\ StageInv'
    BY <1>9 DEF ProcessStops, BufferTypes, BodyPlaces, MutexInv, StageInv, Taken
  <2> QED BY <1>9, <2>1, QueueLeftAlone DEF ProcessStops
<1>10. ASSUME NEW x \in Fresh, ProcessAdds(l, x)
       PROVE  BufferInv'
  <2>1. x \in Objects /\ x \notin Elements(added)
    BY DEF Fresh
  <2>2. body' = body
    BY <1>10 DEF ProcessAdds, BufferTypes
  <2> QED BY <1>10, <2>1, <2>2, PushKeeps DEF ProcessAdds
<1> QED BY <1>1, <1>2, <1>3, <1>4, <1>5, <1>6, <1>7, <1>8, <1>9, <1>10 DEF Execute

\* The other steps leave the buffer alone.
LEMMA OthersKeep ==
  ASSUME BufferInv, UNCHANGED <<lockBuffer, aBuffer, body, adding, added, processed, deleted>>
  PROVE  BufferInv'
<1>1. BufferTypes' /\ MutexInv' /\ StageInv'
  BY DEF BufferInv, BufferTypes, MutexInv, StageInv, Taken
<1> QED BY <1>1, QueueLeftAlone DEF BufferInv

\* and always: who is in execute() has the mutex, the buffer is what was added without
\* what was popped, and what was processed is what was popped and at most one more.
THEOREM BufferInvHolds == TBSpec => []BufferInv
<1>1. BufferInv /\ [TBNext]_tbVars => BufferInv'
  <2> SUFFICES ASSUME BufferInv, [TBNext]_tbVars PROVE BufferInv'
    OBVIOUS
  <2>1. \/ UNCHANGED <<lockBuffer, aBuffer, body, adding, added, processed, deleted>>
        \/ \E p \in Producers :
             (\E x \in Fresh : AddCall(p, x)) \/ AddLock(p) \/ AddPush(p) \/ AddUnlock(p)
        \/ \E l \in Loops :
             Execute(l) \/ ProcessStops(l) \/ \E x \in Fresh : ProcessAdds(l, x)
    BY DEF TBNext, tbVars, bufferVars, Control, DestroyDerived, DestroyBase, SetStopWhenEmpty
  <2> QED BY <2>1, AddKeeps, ExecuteKeeps, OthersKeep
<1> QED BY BufferInvInit, <1>1, PTL DEF TBSpec

\* ThreadedBuffer.cpp:32-59: whatever processObject() returns, throws, adds or stops,
\* and whoever adds meanwhile, the objects are processed once each and in order, and
\* one that waits in the buffer has not been deleted.
THEOREM OnceInOrder == TBSpec => []ProcessedOnceInOrder
<1>1. ASSUME BufferInv PROVE ProcessedOnceInOrder
  <2> USE <1>1 DEF BufferInv, BufferTypes, OrderInv
  <2>1. /\ Len(added) \in Nat /\ Len(aBuffer) \in Nat /\ Len(processed) \in Nat
        /\ Taken \in Nat /\ Len(aBuffer) = Len(added) - Taken
    BY DEF Taken
  <2>2. aBuffer = SubSeq(added, Taken + 1, Len(added))
    <3> DEFINE S == SubSeq(added, Taken + 1, Len(added))
    <3>1. /\ S \in Seq(Objects) /\ Len(S) = Len(aBuffer)
          /\ \A n \in 1..Len(S) : S[n] = added[Taken + n]
      BY <2>1
    <3> HIDE DEF S
    <3>2. aBuffer = S
      BY <3>1, SeqEqual
    <3> QED BY <3>2 DEF S
  <2>3. processed = SubSeq(added, 1, Len(processed))
    <3> DEFINE S == SubSeq(added, 1, Len(processed))
    <3>1. /\ S \in Seq(Objects) /\ Len(S) = Len(processed)
          /\ \A n \in 1..Len(S) : S[n] = added[n]
      BY <2>1
    <3> HIDE DEF S
    <3>2. processed = S
      BY <3>1, SeqEqual
    <3> QED BY <3>2 DEF S
  <2>4. Len(processed) \in {Taken, Taken + 1}
    BY DEF StageInv
  <2>5. \A n \in 1..Len(aBuffer) : aBuffer[n] \notin deleted
    <3> SUFFICES ASSUME NEW n \in 1..Len(aBuffer), aBuffer[n] \in deleted PROVE FALSE
      OBVIOUS
    <3>1. PICK m \in 1..Taken : added[m] = aBuffer[n]
      BY DEF OnceInv
    <3>2. added[m] = added[Taken + n] /\ m \in 1..Len(added) /\ Taken + n \in 1..Len(added)
      BY <2>1, <3>1
    <3>3. m = Taken + n
      BY <3>2 DEF OnceInv
    <3> QED BY <2>1, <3>3
  <2> QED BY <2>1, <2>2, <2>3, <2>4, <2>5 DEF ProcessedOnceInOrder
<1> QED BY BufferInvHolds, <1>1, PTL

(***************************************************************************)
(* It ends cleanly                                                          *)
(*                                                                          *)
(* One owner, who destroys the object when the thread has stopped or the    *)
(* buffer is empty.  While nobody calls stop() the thread is told to stop   *)
(* only by itself, at an empty buffer; and once the derived part is gone,   *)
(* no native thread is left or there is nothing left for it to process.     *)
(***************************************************************************)

\* Only execute() is ever beyond its first step.
BodyInv == \A l \in Loops : body[l] # "begin" => loop[l] = "execute"

\* A thread nobody stopped that is to stop, or did, has kept what was promised.
StopInv ==
  /\ bStopWhenEmpty \in BOOLEAN /\ stopped \in BOOLEAN
  /\ promised \in Nat /\ promised <= Len(added)
  /\ ~stopped /\ (bShouldTerminate \/ \E l \in Loops : loop[l] \in {"leave", "done"})
       => bStopWhenEmpty /\ Len(processed) >= promised

\* Once the derived part is gone, the owner only destroys the rest.
WholeInv ==
  /\ whole \in BOOLEAN /\ policy \in Policies
  /\ ~whole => /\ \A p \in Producers : adding[p] = NULL
               /\ \A c \in Owners : ctl[c] \in {"idle", "destroy.wait"}
               /\ policy = "empty" => Len(aBuffer) = 0
               /\ policy = "stopped" => \A l \in Loops : ~Alive(l)

EndInv == BodyInv /\ StopInv /\ WholeInv

\* What the end rests on holds at the start,
LEMMA EndInvInit == TBInit => EndInv
<1> SUFFICES ASSUME TBInit PROVE EndInv
  OBVIOUS
<1>1. BodyInv
  BY DEF TBInit, BodyInv
<1>2. StopInv
  <2>1. bShouldTerminate = FALSE /\ \A l \in Loops : loop[l] = "none"
    BY DEF TBInit, ThreadInit
  <2>2. promised \in Nat /\ promised <= Len(added)
    BY DEF TBInit
  <2>3. bStopWhenEmpty \in BOOLEAN /\ stopped \in BOOLEAN
    BY DEF TBInit
  <2> QED BY <2>1, <2>2, <2>3 DEF StopInv
<1>3. WholeInv
  BY DEF TBInit, WholeInv
<1> QED BY <1>1, <1>2, <1>3 DEF EndInv

\* The steps of add(): nobody adds to an object that is half destroyed.
LEMMA AddKeepsEnd ==
  ASSUME EndInv, BufferInv, NEW p \in Producers,
         (\E x \in Fresh : AddCall(p, x)) \/ AddLock(p) \/ AddPush(p) \/ AddUnlock(p)
  PROVE  EndInv'
<1> USE DEF EndInv, threadVars, flags, Alive
<1>1. UNCHANGED <<threadVars, body, bStopWhenEmpty, stopped, promised, whole, policy, processed>>
  BY DEF AddCall, AddLock, AddPush, AddUnlock
<1>2. BodyInv'
  BY <1>1 DEF BodyInv
<1>3. added \in Seq(Objects) /\ Len(added) \in Nat
  BY DEF BufferInv, BufferTypes
<1>4. Len(added') >= Len(added) /\ Len(added') \in Nat
  <2>1. CASE added' = added
    BY <1>3, <2>1
  <2>2. CASE AddPush(p)
    <3>1. adding[p] \in Objects
      BY <2>2 DEF AddPush, BufferInv, BufferTypes, MutexInv
    <3>2. Len(added') = Len(added) + 1
      BY <1>3, <2>2, <3>1 DEF AddPush
    <3> QED BY <1>3, <3>2
  <2> QED BY <2>1, <2>2 DEF AddCall, AddLock, AddUnlock
<1>5. StopInv'
  BY <1>1, <1>3, <1>4 DEF StopInv
<1>6. WholeInv'
  <2>1. CASE \E x \in Fresh : AddCall(p, x)
    BY <2>1, <1>1 DEF WholeInv, AddCall
  <2>2. CASE AddLock(p)
    BY <2>2, <1>1 DEF WholeInv, AddLock
  <2>3. CASE AddPush(p)
    <3>1. whole
      BY <2>3 DEF AddPush, WholeInv, BufferInv, MutexInv
    <3> QED BY <3>1, <1>1 DEF WholeInv
  <2>4. CASE AddUnlock(p)
    BY <2>4, <1>1 DEF WholeInv, AddUnlock, BufferInv, BufferTypes
  <2> QED BY <2>1, <2>2, <2>3, <2>4
<1> QED BY <1>2, <1>5, <1>6

\* The steps of execute().
LEMMA ExecuteKeepsEnd ==
  ASSUME EndInv, BufferInv, TypeInv, NEW l \in Loops,
         Execute(l) \/ ProcessStops(l) \/ \E x \in Fresh : ProcessAdds(l, x)
  PROVE  EndInv'
<1> USE DEF EndInv, threadVars, flags, Alive, BodyGoto
<1>1. /\ added \in Seq(Objects) /\ aBuffer \in Seq(Objects) /\ processed \in Seq(Objects)
      /\ body \in [Loops -> BodyPlaces] /\ loop \in [Loops -> LoopPlaces]
      /\ Len(added) \in Nat /\ Len(aBuffer) \in Nat /\ Len(processed) \in Nat
  BY DEF BufferInv, BufferTypes, TypeInv
<1>2. /\ loop[l] = "execute" /\ ~(policy = "stopped" /\ ~whole)
      /\ UNCHANGED <<bStopWhenEmpty, promised, whole, policy, adding, ctl>>
  BY DEF Execute, ExecuteLock, ProcessBegin, NothingToProcess, ProcessTrue, ProcessFalse,
         ProcessThrows, ProcessedPop, StopIfEmpty, ExecuteUnlock, ProcessStops, ProcessAdds,
         ExecuteStop, ExecuteReturn, LoopGoto, WholeInv
<1>3. CASE UNCHANGED <<threadVars, aBuffer, added, processed, stopped>>
  BY <1>1, <1>2, <1>3 DEF BodyInv, StopInv, WholeInv, Execute, ExecuteLock, ProcessBegin,
     NothingToProcess, ProcessTrue, ProcessFalse, ProcessThrows, ProcessedPop, StopIfEmpty,
     ExecuteUnlock, ProcessStops, ProcessAdds
<1>4. CASE ProcessTrue(l)
  <2>1. Len(aBuffer) > 0
    BY <1>4 DEF ProcessTrue, BufferInv, StageInv
  <2>2. Head(aBuffer) \in Objects
    BY <1>1, <2>1
  <2>3. Len(processed') = Len(processed) + 1
    BY <1>1, <1>4, <2>2 DEF ProcessTrue
  <2>4. BodyInv' /\ WholeInv'
    BY <1>1, <1>2, <1>4 DEF ProcessTrue, BodyInv, WholeInv
  <2>5. StopInv'
    BY <1>1, <1>2, <1>4, <2>3 DEF ProcessTrue, StopInv
  <2> QED BY <2>4, <2>5
<1>5. CASE ProcessedPop(l)
  <2>1. Len(aBuffer) > 0
    BY <1>5 DEF ProcessedPop, BufferInv, StageInv
  <2>2. whole \/ policy # "empty"
    BY <2>1 DEF WholeInv
  <2>3. BodyInv' /\ WholeInv'
    BY <1>1, <1>2, <1>5, <2>2 DEF ProcessedPop, BodyInv, WholeInv
  <2>4. StopInv'
    BY <1>1, <1>2, <1>5 DEF ProcessedPop, StopInv
  <2> QED BY <2>3, <2>4
<1>6. ASSUME NEW x \in Fresh, ProcessAdds(l, x)
      PROVE  EndInv'
  <2>1. Len(aBuffer) > 0 /\ x \in Objects
    BY <1>6 DEF ProcessAdds, BufferInv, StageInv, Fresh
  <2>2. Len(added') = Len(added) + 1
    BY <1>1, <1>6, <2>1 DEF ProcessAdds
  <2>3. whole \/ policy # "empty"
    BY <2>1 DEF WholeInv
  <2>4. BodyInv' /\ WholeInv'
    BY <1>1, <1>2, <1>6, <2>3 DEF ProcessAdds, BodyInv, WholeInv
  <2>5. StopInv'
    BY <1>1, <1>2, <1>6, <2>2 DEF ProcessAdds, StopInv
  <2> QED BY <2>4, <2>5
<1>7. CASE ProcessStops(l)
  BY <1>1, <1>2, <1>7
     DEF ProcessStops, ExecuteStop, LoopGoto, RequestStop, BodyInv, StopInv, WholeInv
<1>8. CASE StopIfEmpty(l)
  <2>1. loop' = loop /\ BodyInv' /\ WholeInv'
    BY <1>1, <1>2, <1>8 DEF StopIfEmpty, ExecuteStop, LoopGoto, BodyInv, WholeInv
  <2>2. aBuffer = <<>> => Len(processed) >= Len(added)
    <3>1. \A m \in Loops : body[m] # "pop"
      BY <1>8 DEF StopIfEmpty, BufferInv, MutexInv
    <3> QED BY <1>1, <3>1 DEF BufferInv, StageInv, Taken
  <2>3. StopInv'
    BY <1>1, <1>2, <1>8, <2>1, <2>2 DEF StopIfEmpty, ExecuteStop, RequestStop, StopInv
  <2> QED BY <2>1, <2>3
<1>9. CASE ExecuteUnlock(l)
  BY <1>1, <1>2, <1>9
     DEF ExecuteUnlock, ExecuteReturn, LoopGoto, BodyInv, StopInv, WholeInv
<1> QED
  BY <1>3, <1>4, <1>5, <1>6, <1>7, <1>8, <1>9
     DEF Execute, ExecuteLock, ProcessBegin, NothingToProcess, ProcessFalse, ProcessThrows

\* executionloop() around execute().
LEMMA LoopKeepsEnd ==
  ASSUME EndInv, ThreadInv, NEW l \in Loops, LoopControl(l), UNCHANGED bufferVars
  PROVE  EndInv'
<1> USE DEF EndInv, bufferVars, ThreadInv, TypeInv, LoopPlaces, LoopGoto, Alive
<1>1. BodyInv'
  BY DEF BodyInv, LoopControl, LoopEnter, LoopAnnounce, LoopTest, LoopLeave
<1>2. StopInv'
  BY DEF StopInv, LoopControl, LoopEnter, LoopAnnounce, LoopTest, LoopLeave
<1>3. WholeInv'
  BY DEF WholeInv, LoopControl, LoopEnter, LoopAnnounce, LoopTest, LoopLeave
<1> QED BY <1>1, <1>2, <1>3

\* The owner and the threads that call stop().
LEMMA ControllersKeepEnd ==
  ASSUME EndInv, ThreadInv, OneOwner, NEW c \in Controllers,
         \/ Control(c) \/ DestroyDerived(c) \/ DestroyBase(c)
         \/ StepThread(c) /\ UNCHANGED bufferVars
  PROVE  EndInv'
<1> USE ThreadAssumption DEF EndInv, bufferVars, flags, threadVars, CtlGoto, RequestStop
<1>1. CASE Control(c)
  <2>1. UNCHANGED <<loop, body, promised, bStopWhenEmpty, added, processed, whole, policy>> /\ whole
    BY <1>1 DEF Control, StartIgnored, StartCall, WaitCall, Stop, StopAndWaitCall
  <2>2. stopped' \/ UNCHANGED <<stopped, bShouldTerminate>>
    BY <1>1 DEF Control, StartIgnored, StartCall, WaitCall
  <2>3. stopped' \in BOOLEAN
    BY <1>1 DEF Control, StopInv
  <2> QED BY <2>1, <2>2, <2>3 DEF BodyInv, StopInv, WholeInv
<1>2. CASE DestroyDerived(c)
  <2>1. policy = "stopped" => \A l \in Loops : ~Alive(l)
    <3>1. \A d \in Owners : ctl[d] # "start.wait"
      BY <1>2 DEF DestroyDerived, OneOwner
    <3> QED BY <1>2, <3>1
            DEF DestroyDerived, ThreadInv, TypeInv, LoopInv, StartInv, Alive, LoopPlaces, Running
  <2>2. \A d \in Owners : ctl[d] = "idle"
    BY <1>2 DEF DestroyDerived, OneOwner
  <2> QED BY <1>2, <2>1, <2>2 DEF DestroyDerived, isEmpty, BodyInv, StopInv, WholeInv, Alive
<1>3. CASE DestroyBase(c)
  BY <1>3 DEF DestroyBase, DestroyCall, BodyInv, StopInv, WholeInv, Alive, ThreadInv, TypeInv
<1>4. CASE StepThread(c) /\ UNCHANGED bufferVars
  <2>1. BodyInv'
    BY <1>4 DEF BodyInv, StepThread, StartClearStarted, StartReset, StartCreate, StartReturn,
       WaitReturn, DestroyReturn, ThreadInv, TypeInv, LoopInv, Loops
  <2>2. StopInv'
    BY <1>4 DEF StopInv, StepThread, StartClearStarted, StartReset, StartCreate, StartReturn,
       WaitReturn, DestroyReturn, ThreadInv, TypeInv
  <2>3. WholeInv'
    BY <1>4 DEF WholeInv, StepThread, StartClearStarted, StartReset, StartCreate, StartReturn,
       WaitReturn, DestroyReturn, ThreadInv, TypeInv, CallInv, Alive
  <2> QED BY <2>1, <2>2, <2>3
<1> QED BY <1>1, <1>2, <1>3, <1>4

\* and is kept by setStopWhenEmpty().
LEMMA SetStopWhenEmptyKeepsEnd ==
  ASSUME EndInv, BufferInv, SetStopWhenEmpty
  PROVE  EndInv'
<1>1. Len(added) \in Nat
  BY DEF BufferInv, BufferTypes
<1> QED
  BY <1>1 DEF SetStopWhenEmpty, EndInv, BodyInv, StopInv, WholeInv, threadVars, flags, Alive

\* ThreadedBuffer.h:37 and FileWriter.h:35-36: a thread that stops because the buffer is
\* empty, and an owner that destroys the object when it is, lose nothing, and no object
\* is processed on a half destroyed one.
THEOREM EndsWell ==
  ASSUME OneOwner, "any" \notin Policies
  PROVE  TBSpec => []EndsCleanly
<1>1. TBSpec => []ThreadInv
  BY ImplementsThread, ThreadInvHolds, PTL
<1>2. ThreadInv /\ BufferInv /\ EndInv /\ [TBNext]_tbVars => EndInv'
  <2> SUFFICES ASSUME ThreadInv, BufferInv, EndInv, [TBNext]_tbVars PROVE EndInv'
    OBVIOUS
  <2>1. TypeInv
    BY DEF ThreadInv
  <2>2. CASE UNCHANGED tbVars
    BY <2>2 DEF tbVars, threadVars, flags, bufferVars, EndInv, BodyInv, StopInv, WholeInv, Alive
  <2> QED
    BY <2>1, <2>2, AddKeepsEnd, ExecuteKeepsEnd, LoopKeepsEnd, ControllersKeepEnd,
       SetStopWhenEmptyKeepsEnd DEF TBNext
<1>3. ASSUME BufferInv, EndInv PROVE EndsCleanly
  <2> USE <1>3 DEF BufferInv, EndInv
  <2>1. \A l \in Loops : l = spawned /\ loop[l] = "done" /\ ~stopped => Len(processed) >= promised
    BY DEF StopInv
  <2>2. policy = "empty" /\ ~whole => processed = added
    <3> SUFFICES ASSUME policy = "empty", ~whole PROVE processed = added
      OBVIOUS
    <3>1. added \in Seq(Objects) /\ processed \in Seq(Objects) /\ Len(aBuffer) = 0
      BY DEF BufferTypes, WholeInv
    <3>2. Len(processed) = Len(added)
      BY <3>1 DEF OrderInv, StageInv, Taken
    <3> QED BY <3>1, <3>2, SeqEqual DEF OrderInv
  <2>3. \A l \in Loops : body[l] = "process" => whole
    <3> SUFFICES ASSUME NEW l \in Loops, body[l] = "process", ~whole PROVE FALSE
      OBVIOUS
    <3>1. policy \in {"stopped", "empty"}
      BY BufferAssumption DEF WholeInv
    <3>2. Len(aBuffer) > 0
      BY DEF StageInv
    <3>3. Alive(l)
      BY DEF BodyInv, Alive
    <3> QED BY <3>1, <3>2, <3>3 DEF WholeInv
  <2> QED BY <2>1, <2>2, <2>3 DEF EndsCleanly
<1> QED BY <1>1, <1>2, <1>3, EndInvInit, BufferInvHolds, PTL DEF TBSpec
=============================================================================
