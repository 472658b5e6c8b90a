-------------------------- MODULE MessageLoop_proofs --------------------------
(***************************************************************************)
(* Theorems about the queue and the message loop, for any threads, events  *)
(* and preallocation.                                                      *)
(*                                                                         *)
(* Of FifoVector, whose methods the message loop runs: the inductive       *)
(* invariant FifoInv, and from it first-in first-out order, that push()    *)
(* neither wraps around nor waits, that the queue implements FifoQueue,    *)
(* and that isEmpty() tells the truth without a mutex. Which thread is     *)
(* Main does not matter there.                                             *)
(*                                                                         *)
(* Of the message loop: it uses the queue only through its methods, so     *)
(* that what is proved of FifoVector holds of mainMessageQueue, and an     *)
(* event is deleted only after it was executed itself, once, in the order  *)
(* of adding. The argument: trypop() and pop() are two calls with others   *)
(* between them, but only the main thread takes from the queue. What       *)
(* trypop() returned stays the oldest object until the main thread's own   *)
(* pop().                                                                  *)
(***************************************************************************)
EXTENDS MessageLoop, SequenceTheorems, TLAPS

(***************************************************************************)
(* What the operations of Vector that push() uses do.                      *)
(***************************************************************************)

\* Reallocating to a size that is no smaller keeps all elements.
LEMMA ResizeKeeps ==
  ASSUME NEW v \in Vectors(Objects), NEW n \in Nat, size(v) <= n
  PROVE  resizeVector(v, n) = [v EXCEPT !.allocated = n]
<1>1. v.elems \in Seq(Objects \union {NULL}) /\ size(v) = Len(v.elems)
  BY DEF Vectors, size
<1>2. SubSeq(v.elems, 1, IF n < Len(v.elems) THEN n ELSE Len(v.elems)) = v.elems
  BY <1>1, SubSeqFull
<1> QED BY <1>1, <1>2 DEF Vectors, resizeVector

\* addElement() appends, and the vector has the room it says it has.
LEMMA AddElementAppends ==
  ASSUME NEW v \in Vectors(Objects), NEW x \in Objects \union {NULL},
         v.prealloc > 0, size(v) <= v.allocated
  PROVE  LET w == addElement(v, x)
         IN  /\ w \in Vectors(Objects)
             /\ w.elems = Append(v.elems, x)
             /\ w.prealloc = v.prealloc
             /\ size(w) <= w.allocated
<1> DEFINE n == v.allocated + v.prealloc
           grown == IF v.allocated <= size(v) THEN resizeVector(v, n) ELSE v
           w == [grown EXCEPT !.elems = Append(@, x)]
<1>1. /\ v.elems \in Seq(Objects \union {NULL}) /\ size(v) = Len(v.elems) /\ Len(v.elems) \in Nat
      /\ v.allocated \in Nat /\ v.prealloc \in Nat /\ n \in Nat
  BY DEF Vectors, size
<1>2. resizeVector(v, n) = [v EXCEPT !.allocated = n]
  BY <1>1, ResizeKeeps
<1>3. /\ grown \in Vectors(Objects)
      /\ grown.elems = v.elems /\ grown.prealloc = v.prealloc
      /\ Len(v.elems) + 1 <= grown.allocated
  BY <1>1, <1>2 DEF Vectors
<1>4. Append(v.elems, x) \in Seq(Objects \union {NULL}) /\ Len(Append(v.elems, x)) = Len(v.elems) + 1
  BY <1>1, AppendProperties
<1>5. /\ w \in Vectors(Objects) /\ w.elems = Append(v.elems, x)
      /\ w.prealloc = v.prealloc /\ w.allocated = grown.allocated
  BY <1>3, <1>4 DEF Vectors
<1>6. addElement(v, x) = w
  BY DEF addElement
<1> QED BY <1>3, <1>4, <1>5, <1>6 DEF size

\* Replacing a slot changes that slot only.
LEMMA ReplaceOne ==
  ASSUME NEW v \in Vectors(Objects), NEW x \in Objects \union {NULL}, NEW i \in 0..size(v) - 1
  PROVE  LET w == replaceElement(v, i, x)
         IN  /\ w \in Vectors(Objects)
             /\ size(w) = size(v) /\ w.allocated = v.allocated /\ w.prealloc = v.prealloc
             /\ w.elems[i + 1] = x
             /\ \A m \in 1..size(v) : m # i + 1 => w.elems[m] = v.elems[m]
<1> DEFINE n == i + 1
           e == [v.elems EXCEPT ![n] = x]
           w == [v EXCEPT !.elems[n] = x]
<1>1. v.elems \in Seq(Objects \union {NULL}) /\ size(v) = Len(v.elems) /\ size(v) \in Nat
  BY DEF Vectors, size
<1>2. n \in 1..Len(v.elems) /\ InBounds(v, i)
  BY <1>1 DEF InBounds
<1>3. /\ e \in Seq(Objects \union {NULL}) /\ Len(e) = Len(v.elems)
      /\ \A m \in 1..Len(v.elems) : e[m] = IF m = n THEN x ELSE v.elems[m]
  BY <1>1, <1>2, ExceptSeq
<1>4. /\ w \in Vectors(Objects) /\ w.elems = e
      /\ w.allocated = v.allocated /\ w.prealloc = v.prealloc
  BY <1>3 DEF Vectors
<1>5. replaceElement(v, i, x) = w
  BY <1>2 DEF replaceElement
<1> QED BY <1>1, <1>2, <1>3, <1>4, <1>5 DEF size

\* Under the invariant push() writes the slot after iLastAdded, which is free
\* or new, and leaves the other slots as they are.
LEMMA StoredIsWritten ==
  ASSUME QueueTypeOK, IndexInv, SlotInv, Phase = "push.store", NEW x \in Objects
  PROVE  LET w == Stored(x)
         IN  /\ StoredAt = iLastAdded + 1
             /\ w \in Vectors(Objects)
             /\ w.prealloc > 0
             /\ size(w) <= w.allocated
             /\ size(vec) <= size(w) /\ iLastAdded + 1 < size(w)
             /\ w.elems[iLastAdded + 2] = x
             /\ \A n \in 1..size(w) : n # iLastAdded + 2 =>
                  n <= size(vec) /\ w.elems[n] = vec.elems[n]
<1> DEFINE at == iLastAdded + 1
           w == Stored(x)
<1>0. /\ vec \in Vectors(Objects)
      /\ iLastAdded \in Nat \union {-1} /\ iCurrent \in Nat \union {-1}
  BY DEF QueueTypeOK
<1>1. /\ vec \in Vectors(Objects) /\ vec.elems \in Seq(Objects \union {NULL})
      /\ size(vec) = Len(vec.elems) /\ size(vec) \in Nat
      /\ vec.allocated \in Nat /\ vec.removed \in Nat /\ vec.prealloc \in Nat
      /\ iLastAdded \in Int /\ iCurrent \in Int
  BY <1>0 DEF Vectors, size
<1>2. Phase \notin Resetting /\ Phase # "pop.settle"
  BY DEF Resetting
<1>3. -1 <= iCurrent /\ iCurrent <= iLastAdded /\ iLastAdded < size(vec) /\ size(vec) <= vec.allocated
  BY <1>2 DEF IndexInv
<1>4. ~MustWrap /\ ~(iLastAdded < iCurrent)
  BY <1>1, <1>3 DEF MustWrap
<1>5. /\ StoredAt = at
      /\ w = IF at < vec.allocated THEN insertAt(vec, at, x) ELSE addElement(vec, x)
  BY <1>4 DEF Stored, StoredAt
<1>6. CASE at < size(vec)
  <2> DEFINE noted == [vec EXCEPT !.removed = OneFewer(@)]
  <2>1. at + 1 \in 1..size(vec) /\ at \in 0..size(vec) - 1 /\ Backlog = iLastAdded - iCurrent
    BY <1>1, <1>2, <1>3, <1>6 DEF Backlog
  <2>2. vec.elems[at + 1] = NULL
    BY <2>1, <1>1 DEF SlotInv
  <2>3. /\ noted \in Vectors(Objects) /\ noted.elems = vec.elems
        /\ noted.allocated = vec.allocated /\ noted.prealloc = vec.prealloc
    BY <1>1 DEF Vectors, OneFewer
  <2>4. size(noted) = size(vec)
    BY <2>3 DEF size
  <2>5. w = replaceElement(noted, at, x)
    BY <1>1, <1>3, <1>5, <1>6, <2>2, <2>4 DEF insertAt, InBounds, replaceElement
  <2>6. /\ w \in Vectors(Objects) /\ size(w) = size(vec)
        /\ w.allocated = vec.allocated /\ w.prealloc = vec.prealloc
        /\ w.elems[at + 1] = x
        /\ \A m \in 1..size(vec) : m # at + 1 => w.elems[m] = vec.elems[m]
    <3> HIDE DEF noted, w
    <3> QED BY <2>1, <2>3, <2>4, <2>5, ReplaceOne
  <2> QED BY <1>1, <1>3, <1>5, <1>6, <2>6 DEF IndexInv
<1>7. CASE at >= size(vec)
  <2>1. at = size(vec)
    BY <1>1, <1>3, <1>7
  <2>2. w = addElement(vec, x)
    BY <1>1, <1>5, <1>7, <2>1 DEF insertAt, InBounds
  <2>3. vec.prealloc > 0
    BY DEF IndexInv
  <2>4. /\ w \in Vectors(Objects) /\ w.elems = Append(vec.elems, x)
        /\ w.prealloc = vec.prealloc /\ size(w) <= w.allocated
    BY <1>1, <1>3, <2>2, <2>3, AddElementAppends
  <2>5. /\ Len(w.elems) = Len(vec.elems) + 1 /\ w.elems[Len(vec.elems) + 1] = x
        /\ \A m \in 1..Len(vec.elems) : w.elems[m] = vec.elems[m]
    BY <1>1, <2>4, AppendProperties
  <2>6. size(w) = size(vec) + 1
    BY <1>1, <2>5 DEF size
  <2> QED BY <1>1, <1>5, <2>1, <2>3, <2>4, <2>5, <2>6
<1> QED BY <1>1, <1>6, <1>7

(***************************************************************************)
(* The steps that leave the indices, the slots and the histories alone.    *)
(***************************************************************************)

\* While no pop() is resetting, the phase makes no difference to the indices.
Calm(phase) == phase \notin Resetting \union {"pop.settle"}

\* A step that changes neither indices nor slots, nor whether pop() is resetting.
LEMMA QuietStep ==
  ASSUME IndexInv, SlotInv, UNCHANGED <<fifo, history>>,
         Phase' = Phase \/ (Calm(Phase) /\ Calm(Phase'))
  PROVE  IndexInv' /\ SlotInv'
<1>1. Backlog' = Backlog
  BY DEF Backlog, Calm, fifo
<1>2. IndexInv'
  BY DEF IndexInv, Calm, fifo, size, Resetting
<1>3. SlotInv'
  BY <1>1 DEF SlotInv, fifo, history, size
<1> QED BY <1>2, <1>3

\* The phase is the step of the thread that holds aReadLock.
LEMMA PhaseOfReader ==
  ASSUME QueueTypeOK, LockInv, NEW t \in Threads, pc[t] \in Reading
  PROVE  aReadLock = t /\ Phase = pc[t]
BY FifoAssumption DEF QueueTypeOK, LockInv, Phase

(***************************************************************************)
(* The invariant.                                                          *)
(***************************************************************************)

\* The invariant holds for the empty queue,
LEMMA InitFifoInv == Init => FifoInv
<1> SUFFICES ASSUME Init PROVE FifoInv
  OBVIOUS
<1>1. vec = EmptyVector(PreAlloc) /\ iCurrent = -1 /\ iLastAdded = -1
      /\ pushed = <<>> /\ popped = <<>> /\ aReadLock = NULL /\ aWriteLock = NULL
      /\ pc = [t \in Threads |-> "idle"] /\ obj = [t \in Threads |-> NULL]
  BY DEF Init
<1>2. /\ vec \in Vectors(Objects) /\ size(vec) = 0 /\ vec.elems = <<>>
      /\ vec.allocated = 0 /\ vec.prealloc = PreAlloc
  BY <1>1, FifoAssumption DEF EmptyVector, Vectors, size
<1>3. QueueTypeOK
  BY <1>1, <1>2 DEF QueueTypeOK, Steps
<1>4. LockInv
  BY <1>1, FifoAssumption DEF LockInv, Reading, Writing
<1>5. Phase = "free" /\ Backlog = 0
  BY <1>1 DEF Phase, Backlog, Resetting
<1>6. IndexInv
  BY <1>1, <1>2, <1>5, FifoAssumption DEF IndexInv, Resetting
<1>7. SlotInv
  BY <1>1, <1>2, <1>5 DEF SlotInv
<1> QED BY <1>3, <1>4, <1>6, <1>7 DEF FifoInv

\* When pop() finds that the queue is not empty, the slot it looks at is used
\* and holds the oldest object that was not popped.
LEMMA FrontIsOldest ==
  ASSUME QueueTypeOK, IndexInv, SlotInv, Calm(Phase), iLastAdded # -1
  PROVE  /\ Backlog = iLastAdded - iCurrent /\ Backlog > 0
         /\ InBounds(vec, iCurrent + 1) /\ iCurrent + 2 \in 1..size(vec)
         /\ Len(popped) + 1 \in 1..Len(pushed)
         /\ elementAt(vec, iCurrent + 1) = pushed[Len(popped) + 1]
         /\ elementAt(vec, iCurrent + 1) \in Objects
<1>1. /\ vec \in Vectors(Objects) /\ pushed \in Seq(Objects) /\ popped \in Seq(Objects)
      /\ iLastAdded \in Nat \union {-1} /\ iCurrent \in Nat \union {-1}
  BY DEF QueueTypeOK
<1>2. size(vec) \in Nat /\ Len(pushed) \in Nat /\ Len(popped) \in Nat
  BY <1>1 DEF Vectors, size
<1>3. Phase \notin Resetting /\ Phase \notin Resetting \union {"pop.settle"}
  BY DEF Calm
<1>4. -1 <= iCurrent /\ iCurrent < iLastAdded /\ iLastAdded < size(vec)
  BY <1>1, <1>3 DEF IndexInv
<1>5. Backlog = iLastAdded - iCurrent /\ Backlog > 0 /\ iCurrent + 2 \in 1..size(vec)
  BY <1>1, <1>2, <1>3, <1>4 DEF Backlog
<1>6. Len(popped) + 1 \in 1..Len(pushed)
  BY <1>1, <1>2, <1>5 DEF SlotInv
<1>7. vec.elems[iCurrent + 1 + 1] = pushed[Len(popped) + 1]
  <2>1. \A n \in 1..Backlog : vec.elems[iCurrent + 1 + n] = pushed[Len(popped) + n]
    BY DEF SlotInv
  <2>2. 1 \in 1..Backlog
    BY <1>1, <1>5
  <2> QED BY <2>1, <2>2
<1>8. /\ InBounds(vec, iCurrent + 1)
      /\ elementAt(vec, iCurrent + 1) = vec.elems[iCurrent + 1 + 1]
  BY <1>1, <1>2, <1>5 DEF InBounds, elementAt
<1>9. pushed[Len(popped) + 1] \in Objects
  BY <1>1, <1>6, ElementOfSeq
<1> QED BY <1>5, <1>6, <1>7, <1>8, <1>9

\* Types of the queue and the mutexes, whatever the step.
LEMMA StepQueueTypeOK ==
  ASSUME FifoInv, NEW t \in Threads, Call(t) \/ Step(t)
  PROVE  QueueTypeOK'
<1> USE DEF Goto
<1> QueueTypeOK /\ LockInv /\ IndexInv /\ SlotInv
  BY DEF FifoInv
<1>1. CASE \E x \in Fresh : PushCall(t, x)
  BY <1>1 DEF QueueTypeOK, Steps, PushCall, Fresh, Writing, fifo, locks, asking, history
<1>2. CASE PopCall(t) \/ TryPopCall(t)
  BY <1>2 DEF QueueTypeOK, Steps, PopCall, TryPopCall, fifo, locks, asking, history
<1>3. CASE IsEmptyCall(t) \/ IsFullCall(t)
  BY <1>3 DEF QueueTypeOK, Steps, IsEmptyCall, IsFullCall, Ask, fifo, locks, history
<1>4. CASE PushLockWrite(t) \/ PushLockRead(t) \/ PushUnlockRead(t) \/ PushUnlockWrite(t)
  BY <1>4 DEF QueueTypeOK, Steps, Reading, Writing,
              PushLockWrite, PushLockRead, PushUnlockRead, PushUnlockWrite,
              LockRead, LockWrite, UnlockRead, UnlockWrite, fifo, locks, asking, history
<1>5. CASE PushStore(t)
  <2>1. Phase = "push.store" /\ obj[t] \in Objects
    BY <1>5, PhaseOfReader DEF PushStore, LockInv, Reading
  <2>2. vec' \in Vectors(Objects) /\ iLastAdded' = iLastAdded + 1 /\ iLastAdded + 1 \in Nat
    <3>1. iLastAdded \in Nat \union {-1}
      BY DEF QueueTypeOK
    <3> QED BY <1>5, <2>1, <3>1, StoredIsWritten DEF PushStore
  <2>3. pushed' \in Seq(Objects)
    BY <1>5, <2>1 DEF PushStore, QueueTypeOK
  <2> QED BY <1>5, <2>2, <2>3 DEF PushStore, QueueTypeOK, Steps, Reading, Writing, locks
<1>6. CASE PopLock(t) \/ PopNothing(t) \/ PopKeep(t) \/ PopUnlock(t)
  BY <1>6 DEF QueueTypeOK, Steps, Reading, Writing, PopLock, PopNothing, PopKeep, PopUnlock,
              LockRead, UnlockRead, fifo, locks, asking, history
<1>7. CASE PopTake(t)
  <2>1. Phase = "pop.take"
    BY <1>7, PhaseOfReader DEF PopTake, Reading
  <2>2. Calm(Phase) /\ iLastAdded # -1
    BY <1>7, <2>1 DEF PopTake, Calm, Resetting
  <2>3. /\ InBounds(vec, iCurrent + 1) /\ iCurrent + 2 \in 1..size(vec)
        /\ elementAt(vec, iCurrent + 1) \in Objects
    BY <2>2, FrontIsOldest
  <2>4. /\ vec \in Vectors(Objects) /\ iCurrent \in Nat \union {-1}
        /\ popped \in Seq(Objects)
    BY DEF QueueTypeOK
  <2>5. size(vec) \in Nat
    BY <2>4 DEF Vectors, size
  <2>6. vec' \in Vectors(Objects)
    <3>1. vec' = replaceElement(vec, iCurrent + 1, NULL) /\ iCurrent + 1 \in 0..size(vec) - 1
      BY <1>7, <2>3, <2>4, <2>5 DEF PopTake
    <3> QED BY <2>4, <3>1, ReplaceOne
  <2>7. iCurrent' \in Nat \union {-1} /\ popped' \in Seq(Objects)
    BY <1>7, <2>3, <2>4 DEF PopTake
  <2> QED BY <1>7, <2>3, <2>6, <2>7
          DEF PopTake, QueueTypeOK, Steps, Reading, Writing, locks
<1>8. CASE PopResetCurrent(t) \/ PopResetLast(t)
  BY <1>8 DEF QueueTypeOK, Steps, Reading, Writing, PopResetCurrent, PopResetLast,
              locks, asking, history
<1>9. CASE TryPopLock(t) \/ TryPopUnlock(t)
  BY <1>9 DEF QueueTypeOK, Steps, Reading, Writing, TryPopLock, TryPopUnlock,
              LockRead, UnlockRead, fifo, locks, asking, history
<1>10. CASE TryPopLook(t)
  <2>1. Phase = "trypop.look"
    BY <1>10, PhaseOfReader DEF TryPopLook, Reading
  <2>2. Calm(Phase)
    BY <2>1 DEF Calm, Resetting
  <2>3. iLastAdded # -1 => elementAt(vec, iCurrent + 1) \in Objects
    BY <2>2, FrontIsOldest
  <2> QED BY <1>10, <2>3
          DEF TryPopLook, QueueTypeOK, Steps, Reading, Writing, fifo, locks, history
<1>11. CASE AskSteps(t)
  BY <1>11 DEF QueueTypeOK, Steps, AskSteps, ReadIndex, IsEmptyReturn, IsFullReturn, Conclude,
               fifo, locks, history
<1> QED BY <1>1, <1>2, <1>3, <1>4, <1>5, <1>6, <1>7, <1>8, <1>9, <1>10, <1>11
        DEF Call, Step, Push, Pop, TryPop

\* The mutexes are held exactly in the parts of the methods they guard.
LEMMA StepLockInv ==
  ASSUME FifoInv, NEW t \in Threads, Call(t) \/ Step(t)
  PROVE  LockInv'
<1> USE FifoAssumption DEF LockInv, Goto, Reading, Writing
<1> LockInv
  BY DEF FifoInv
<1> pc \in [Threads -> Steps] /\ obj \in [Threads -> Objects \union {NULL}]
  BY DEF FifoInv, QueueTypeOK
<1>1. CASE \E x \in Fresh : PushCall(t, x)
  BY <1>1 DEF PushCall, Fresh, locks
<1>2. CASE PopCall(t) \/ TryPopCall(t)
  BY <1>2 DEF PopCall, TryPopCall, locks
<1>3. CASE IsEmptyCall(t) \/ IsFullCall(t)
  BY <1>3 DEF IsEmptyCall, IsFullCall, Ask, locks
<1>4. CASE PushLockWrite(t) \/ PushLockRead(t)
  BY <1>4 DEF PushLockWrite, PushLockRead, LockRead, LockWrite
<1>5. CASE PushUnlockRead(t) \/ PushUnlockWrite(t)
  BY <1>5 DEF PushUnlockRead, PushUnlockWrite, UnlockRead, UnlockWrite
<1>6. CASE PushStore(t)
  BY <1>6 DEF PushStore, locks
<1>7. CASE PopLock(t) \/ PopUnlock(t)
  BY <1>7 DEF PopLock, PopUnlock, LockRead, UnlockRead
<1>8. CASE PopTake(t) \/ PopNothing(t) \/ PopKeep(t)
  BY <1>8 DEF PopTake, PopNothing, PopKeep, locks
<1>9. CASE PopResetCurrent(t) \/ PopResetLast(t)
  BY <1>9 DEF PopResetCurrent, PopResetLast, locks
<1>10. CASE TryPopLock(t) \/ TryPopUnlock(t)
  BY <1>10 DEF TryPopLock, TryPopUnlock, LockRead, UnlockRead
<1>11. CASE TryPopLook(t)
  BY <1>11 DEF TryPopLook, locks
<1>12. CASE AskSteps(t)
  BY <1>12 DEF AskSteps, ReadIndex, IsEmptyReturn, IsFullReturn, Conclude, locks
<1> QED BY <1>1, <1>2, <1>3, <1>4, <1>5, <1>6, <1>7, <1>8, <1>9, <1>10, <1>11, <1>12
        DEF Call, Step, Push, Pop, TryPop

(***************************************************************************)
(* The phase of the read lock after a step.                                *)
(***************************************************************************)

\* A step of a thread that neither has nor gets aReadLock is not seen in it.
LEMMA PhaseElsewhere ==
  ASSUME FifoInv, NEW t \in Threads, pc[t] \notin Reading, aReadLock' = aReadLock,
         NEW to \in Steps, pc' = [pc EXCEPT ![t] = to] \/ pc' = pc
  PROVE  Phase' = Phase
<1>1. aReadLock # t /\ aReadLock \in Threads \union {NULL} /\ pc \in [Threads -> Steps]
  BY DEF FifoInv, LockInv, QueueTypeOK
<1> QED BY <1>1 DEF Phase

\* After a step of the thread that has aReadLock, the phase is where it went.
LEMMA PhaseHere ==
  ASSUME FifoInv, NEW t \in Threads, aReadLock' = t,
         NEW to \in Steps, pc' = [pc EXCEPT ![t] = to]
  PROVE  Phase' = to
<1>1. pc \in [Threads -> Steps] /\ t # NULL
  BY FifoAssumption DEF FifoInv, QueueTypeOK
<1> QED BY <1>1 DEF Phase

\* The steps that change neither indices nor slots keep what they mean.
LEMMA QuietStepsKeep ==
  ASSUME FifoInv, NEW t \in Threads,
         \/ Call(t) \/ TryPop(t) \/ AskSteps(t)
         \/ PushLockWrite(t) \/ PushLockRead(t) \/ PushUnlockRead(t) \/ PushUnlockWrite(t)
         \/ PopLock(t) \/ PopNothing(t) \/ PopUnlock(t)
  PROVE  IndexInv' /\ SlotInv'
<1> USE DEF Goto
<1>1. QueueTypeOK /\ LockInv /\ IndexInv /\ SlotInv
  BY DEF FifoInv
<1>2. UNCHANGED <<fifo, history>>
  BY DEF Call, PushCall, PopCall, TryPopCall, IsEmptyCall, IsFullCall, Ask,
         TryPop, TryPopLock, TryPopLook, TryPopUnlock,
         AskSteps, ReadIndex, IsEmptyReturn, IsFullReturn, Conclude,
         PushLockWrite, PushLockRead, PushUnlockRead, PushUnlockWrite,
         PopLock, PopNothing, PopUnlock
<1>3. CASE Call(t) \/ AskSteps(t) \/ PushLockWrite(t) \/ PushUnlockWrite(t)
  <2>1. /\ pc[t] \notin Reading /\ aReadLock' = aReadLock
        /\ \E to \in Steps : pc' = [pc EXCEPT ![t] = to] \/ pc' = pc
    BY <1>3 DEF Call, PushCall, PopCall, TryPopCall, IsEmptyCall, IsFullCall, Ask,
                AskSteps, ReadIndex, IsEmptyReturn, IsFullReturn, Conclude,
                PushLockWrite, PushUnlockWrite, LockWrite, UnlockWrite,
                locks, Reading, Writing, Steps
  <2>2. Phase' = Phase
    BY <2>1, PhaseElsewhere
  <2> QED BY <1>1, <1>2, <2>2, QuietStep
<1>4. CASE PushLockRead(t) \/ PopLock(t) \/ TryPopLock(t)
  <2>1. /\ Phase = "free" /\ aReadLock' = t
        /\ \E to \in {"push.store", "pop.take", "trypop.look"} : pc' = [pc EXCEPT ![t] = to]
    BY <1>4 DEF PushLockRead, PopLock, TryPopLock, LockRead, Phase
  <2>2. Phase' \in {"push.store", "pop.take", "trypop.look"}
    BY <2>1, PhaseHere DEF Steps, Reading
  <2>3. Calm(Phase) /\ Calm(Phase')
    BY <2>1, <2>2 DEF Calm, Resetting
  <2> QED BY <1>1, <1>2, <2>3, QuietStep
<1>5. CASE PushUnlockRead(t) \/ PopUnlock(t) \/ TryPopUnlock(t)
  <2>1. /\ pc[t] \in {"push.unlockRead", "pop.unlock", "trypop.unlock"}
        /\ aReadLock' = NULL
    BY <1>5 DEF PushUnlockRead, PopUnlock, TryPopUnlock, UnlockRead
  <2>2. Phase = pc[t] /\ Phase' = "free"
    BY <1>1, <2>1, PhaseOfReader DEF Reading, Phase
  <2>3. Calm(Phase) /\ Calm(Phase')
    BY <2>1, <2>2 DEF Calm, Resetting
  <2> QED BY <1>1, <1>2, <2>3, QuietStep
<1>6. CASE PopNothing(t) \/ TryPopLook(t)
  <2>1. /\ pc[t] \in {"pop.take", "trypop.look"} /\ aReadLock' = aReadLock
        /\ \E to \in {"pop.unlock", "trypop.unlock"} : pc' = [pc EXCEPT ![t] = to]
    BY <1>6 DEF PopNothing, TryPopLook, locks
  <2>2. Phase = pc[t] /\ aReadLock = t
    BY <1>1, <2>1, PhaseOfReader DEF Reading
  <2>3. Phase' \in {"pop.unlock", "trypop.unlock"}
    BY <2>1, <2>2, PhaseHere DEF Steps, Reading
  <2>4. Calm(Phase) /\ Calm(Phase')
    BY <2>1, <2>2, <2>3 DEF Calm, Resetting
  <2> QED BY <1>1, <1>2, <2>4, QuietStep
<1> QED BY <1>3, <1>4, <1>5, <1>6 DEF TryPop

(***************************************************************************)
(* The steps that move the indices.                                        *)
(***************************************************************************)

\* push() makes the window of used slots one longer at its end.
LEMMA PushStoreKeeps ==
  ASSUME FifoInv, NEW t \in Threads, PushStore(t)
  PROVE  IndexInv' /\ SlotInv'
<1>1. QueueTypeOK /\ LockInv /\ IndexInv /\ SlotInv
  BY DEF FifoInv
<1>2. /\ vec \in Vectors(Objects) /\ pushed \in Seq(Objects) /\ popped \in Seq(Objects)
      /\ iLastAdded \in Nat \union {-1} /\ iCurrent \in Nat \union {-1}
  BY <1>1 DEF QueueTypeOK
<1>3. size(vec) \in Nat /\ Len(pushed) \in Nat /\ Len(popped) \in Nat
  BY <1>2 DEF Vectors, size
<1>4. Phase = "push.store" /\ aReadLock = t /\ obj[t] \in Objects
  BY <1>1, PhaseOfReader DEF PushStore, Goto, LockInv, Reading
<1>5. Phase' = "push.unlockRead"
  <2>1. aReadLock' = t /\ pc' = [pc EXCEPT ![t] = "push.unlockRead"]
    BY <1>4 DEF PushStore, Goto, locks
  <2> QED BY <2>1, PhaseHere DEF Steps, Reading
<1>6. /\ iCurrent' = iCurrent /\ popped' = popped /\ pushed' = Append(pushed, obj[t])
      /\ vec' = Stored(obj[t]) /\ iLastAdded' = StoredAt
  BY DEF PushStore
<1>7. /\ iLastAdded' = iLastAdded + 1
      /\ vec' \in Vectors(Objects) /\ vec'.prealloc > 0 /\ size(vec') <= vec'.allocated
      /\ size(vec) <= size(vec') /\ iLastAdded + 1 < size(vec')
      /\ vec'.elems[iLastAdded + 2] = obj[t]
      /\ \A n \in 1..size(vec') : n # iLastAdded + 2 =>
           n <= size(vec) /\ vec'.elems[n] = vec.elems[n]
  BY <1>1, <1>4, <1>6, StoredIsWritten
<1>8. size(vec') \in Nat
  BY <1>7 DEF Vectors, size
<1>9. /\ -1 <= iCurrent /\ iCurrent <= iLastAdded /\ iLastAdded < size(vec)
      /\ Backlog = iLastAdded - iCurrent /\ Backlog' = iLastAdded + 1 - iCurrent
  BY <1>1, <1>2, <1>4, <1>5, <1>6, <1>7 DEF IndexInv, Backlog, Resetting
<1>10. IndexInv'
  BY <1>2, <1>3, <1>5, <1>6, <1>7, <1>8, <1>9 DEF IndexInv, Resetting
<1>11. /\ Len(pushed') = Len(pushed) + 1 /\ pushed'[Len(pushed) + 1] = obj[t]
       /\ \A n \in 1..Len(pushed) : pushed'[n] = pushed[n]
  BY <1>2, <1>4, <1>6, AppendProperties
<1>12. Len(pushed) = Len(popped) + Backlog
  BY <1>1 DEF SlotInv
<1>13. \A n \in 1..Len(popped') : popped'[n] = pushed'[n]
  <2>1. \A n \in 1..Len(popped) : popped[n] = pushed[n]
    BY <1>1 DEF SlotInv
  <2> QED BY <1>2, <1>3, <1>6, <1>9, <1>11, <1>12, <2>1
<1>14. \A n \in 1..Backlog' : vec'.elems[iCurrent' + 1 + n] = pushed'[Len(popped') + n]
  <2> SUFFICES ASSUME NEW n \in 1..Backlog'
               PROVE  vec'.elems[iCurrent + 1 + n] = pushed'[Len(popped) + n]
    BY <1>6
  <2>1. CASE n = Backlog'
    <3>1. iCurrent + 1 + n = iLastAdded + 2 /\ Len(popped) + n = Len(pushed) + 1
      BY <1>2, <1>3, <1>9, <1>12, <2>1
    <3> QED BY <1>7, <1>11, <3>1
  <2>2. CASE n # Backlog'
    <3>1. n \in 1..Backlog
      BY <1>2, <1>9, <2>2
    <3>2. /\ iCurrent + 1 + n \in 1..size(vec') /\ iCurrent + 1 + n # iLastAdded + 2
          /\ Len(popped) + n \in 1..Len(pushed)
      BY <1>2, <1>3, <1>7, <1>8, <1>9, <1>12, <3>1
    <3>3. vec.elems[iCurrent + 1 + n] = pushed[Len(popped) + n]
      BY <1>1, <3>1 DEF SlotInv
    <3> QED BY <1>7, <1>11, <3>2, <3>3
  <2> QED BY <2>1, <2>2
<1>15. \A n \in 1..size(vec') :
         n \notin iCurrent' + 2 .. iCurrent' + 1 + Backlog' => vec'.elems[n] = NULL
  <2> SUFFICES ASSUME NEW n \in 1..size(vec'), n \notin iCurrent + 2 .. iCurrent + 1 + Backlog'
               PROVE  vec'.elems[n] = NULL
    BY <1>6
  <2>1. n # iLastAdded + 2 /\ n \notin iCurrent + 2 .. iCurrent + 1 + Backlog
    BY <1>2, <1>8, <1>9
  <2>2. n \in 1..size(vec) /\ vec'.elems[n] = vec.elems[n]
    BY <1>3, <1>7, <1>8, <2>1
  <2> QED BY <1>1, <2>1, <2>2 DEF SlotInv
<1>16. Len(pushed') = Len(popped') + Backlog'
  BY <1>2, <1>3, <1>6, <1>9, <1>11, <1>12
<1> QED BY <1>10, <1>13, <1>14, <1>15, <1>16 DEF SlotInv

\* pop() makes the window one shorter at its beginning.
LEMMA PopTakeKeeps ==
  ASSUME FifoInv, NEW t \in Threads, PopTake(t)
  PROVE  IndexInv' /\ SlotInv'
<1>1. QueueTypeOK /\ LockInv /\ IndexInv /\ SlotInv
  BY DEF FifoInv
<1>2. /\ vec \in Vectors(Objects) /\ pushed \in Seq(Objects) /\ popped \in Seq(Objects)
      /\ iLastAdded \in Nat \union {-1} /\ iCurrent \in Nat \union {-1}
  BY <1>1 DEF QueueTypeOK
<1>3. size(vec) \in Nat /\ Len(pushed) \in Nat /\ Len(popped) \in Nat
  BY <1>2 DEF Vectors, size
<1>4. Phase = "pop.take" /\ aReadLock = t
  BY <1>1, PhaseOfReader DEF PopTake, Goto, Reading
<1>5. Phase' = "pop.settle"
  <2>1. aReadLock' = t /\ pc' = [pc EXCEPT ![t] = "pop.settle"]
    BY <1>4 DEF PopTake, Goto, locks
  <2> QED BY <2>1, PhaseHere DEF Steps, Reading
<1>6. Calm(Phase) /\ iLastAdded # -1
  BY <1>4 DEF PopTake, Calm, Resetting
<1> DEFINE front == elementAt(vec, iCurrent + 1)
<1>7. /\ Backlog = iLastAdded - iCurrent /\ Backlog > 0
      /\ InBounds(vec, iCurrent + 1) /\ iCurrent + 2 \in 1..size(vec)
      /\ Len(popped) + 1 \in 1..Len(pushed)
      /\ front = pushed[Len(popped) + 1] /\ front \in Objects
  BY <1>1, <1>6, FrontIsOldest
<1>8. -1 <= iCurrent /\ iCurrent < iLastAdded /\ iLastAdded < size(vec)
  BY <1>1, <1>2, <1>7 DEF IndexInv
<1>9. /\ iLastAdded' = iLastAdded /\ pushed' = pushed /\ popped' = Append(popped, front)
      /\ vec' = replaceElement(vec, iCurrent + 1, NULL)
      /\ iCurrent' = IF iCurrent + 1 = size(vec) THEN -1 ELSE iCurrent + 1
  BY DEF PopTake
<1>10. iCurrent' = iCurrent + 1
  BY <1>2, <1>3, <1>8, <1>9
<1>11. iCurrent + 1 \in 0..size(vec) - 1 /\ (iCurrent + 1) + 1 = iCurrent + 2
  BY <1>2, <1>3, <1>7
<1>12. /\ vec' \in Vectors(Objects) /\ size(vec') = size(vec)
       /\ vec'.allocated = vec.allocated /\ vec'.prealloc = vec.prealloc
       /\ vec'.elems[iCurrent + 2] = NULL
       /\ \A n \in 1..size(vec) : n # iCurrent + 2 => vec'.elems[n] = vec.elems[n]
  <2> DEFINE at == iCurrent + 1
             w == replaceElement(vec, at, NULL)
  <2>1. vec' = w
    BY <1>9
  <2>2. at \in 0..size(vec) - 1 /\ at + 1 = iCurrent + 2 /\ NULL \in Objects \union {NULL}
    BY <1>11
  <2> HIDE DEF at
  <2>3. w \in Vectors(Objects)
    BY <1>2, <2>2, ReplaceOne
  <2>4. size(w) = size(vec) /\ w.allocated = vec.allocated /\ w.prealloc = vec.prealloc
    BY <1>2, <2>2, ReplaceOne
  <2>5. w.elems[at + 1] = NULL
    BY <1>2, <2>2, ReplaceOne
  <2>6. \A n \in 1..size(vec) : n # at + 1 => w.elems[n] = vec.elems[n]
    BY <1>2, <2>2, ReplaceOne
  <2> QED BY <2>1, <2>2, <2>3, <2>4, <2>5, <2>6
<1>13. Backlog' = iLastAdded - (iCurrent + 1)
  BY <1>5, <1>9, <1>10 DEF Backlog, Resetting
<1>14. IndexInv'
  BY <1>1, <1>2, <1>3, <1>5, <1>8, <1>9, <1>10, <1>12 DEF IndexInv, Resetting
<1>15. /\ Len(popped') = Len(popped) + 1 /\ popped'[Len(popped) + 1] = front
       /\ \A n \in 1..Len(popped) : popped'[n] = popped[n]
  BY <1>2, <1>7, <1>9, AppendProperties
<1>16. Len(pushed') = Len(popped') + Backlog'
  <2>1. Len(pushed) = Len(popped) + Backlog
    BY <1>1 DEF SlotInv
  <2>2. Len(pushed') = Len(pushed)
    BY <1>9
  <2>3. Len(popped') + Backlog' = Len(popped) + Backlog
    <3>1. iLastAdded \in Int /\ iCurrent \in Int /\ Len(popped) \in Int
      BY <1>2, <1>3
    <3>2. Len(popped') = Len(popped) + 1
      BY <1>15
    <3>3. Backlog = iLastAdded - iCurrent /\ Backlog' = iLastAdded - (iCurrent + 1)
      BY <1>7, <1>13
    <3> QED BY <3>1, <3>2, <3>3
  <2> QED BY <2>1, <2>2, <2>3
<1>17. \A n \in 1..Len(popped') : popped'[n] = pushed'[n]
  <2>1. \A n \in 1..Len(popped) : popped[n] = pushed[n]
    BY <1>1 DEF SlotInv
  <2> QED BY <1>3, <1>7, <1>9, <1>15, <2>1
<1>18. \A n \in 1..Backlog' : vec'.elems[iCurrent' + 1 + n] = pushed'[Len(popped') + n]
  <2> SUFFICES ASSUME NEW n \in 1..Backlog'
               PROVE  vec'.elems[iCurrent + 2 + n] = pushed[Len(popped) + 1 + n]
    BY <1>2, <1>9, <1>10, <1>15
  <2>1. n + 1 \in 1..Backlog
    BY <1>2, <1>7, <1>13
  <2>2. vec.elems[iCurrent + 1 + (n + 1)] = pushed[Len(popped) + (n + 1)]
    BY <1>1, <2>1 DEF SlotInv
  <2>3. /\ iCurrent + 1 + (n + 1) = iCurrent + 2 + n
        /\ Len(popped) + (n + 1) = Len(popped) + 1 + n
        /\ iCurrent + 2 + n \in 1..size(vec) /\ iCurrent + 2 + n # iCurrent + 2
    BY <1>2, <1>3, <1>8, <1>13
  <2> QED BY <1>12, <2>2, <2>3
<1>19. \A n \in 1..size(vec') :
         n \notin iCurrent' + 2 .. iCurrent' + 1 + Backlog' => vec'.elems[n] = NULL
  <2> SUFFICES ASSUME NEW n \in 1..size(vec), n # iCurrent + 2,
                      n \notin iCurrent + 3 .. iCurrent + 2 + Backlog'
               PROVE  vec.elems[n] = NULL
    <3>1. iCurrent' + 2 = iCurrent + 3 /\ iCurrent' + 1 + Backlog' = iCurrent + 2 + Backlog'
      BY <1>2, <1>10, <1>13
    <3> QED BY <1>12, <3>1
  <2>1. n \notin iCurrent + 2 .. iCurrent + 1 + Backlog
    BY <1>2, <1>3, <1>7, <1>13
  <2> QED BY <1>1, <2>1 DEF SlotInv
<1> QED BY <1>14, <1>16, <1>17, <1>18, <1>19 DEF SlotInv

\* When the last object is popped the indices are reset, one after the other;
\* no slot is in use before, between and after.
LEMMA PopSettlesKeep ==
  ASSUME FifoInv, NEW t \in Threads, PopResetCurrent(t) \/ PopResetLast(t) \/ PopKeep(t)
  PROVE  IndexInv' /\ SlotInv'
<1> USE DEF Goto
<1>1. QueueTypeOK /\ LockInv /\ IndexInv /\ SlotInv
  BY DEF FifoInv
<1>2. /\ vec \in Vectors(Objects)
      /\ iLastAdded \in Nat \union {-1} /\ iCurrent \in Nat \union {-1}
  BY <1>1 DEF QueueTypeOK
<1>3. size(vec) \in Nat
  BY <1>2 DEF Vectors, size
<1>4. /\ vec' = vec /\ UNCHANGED history /\ aReadLock' = aReadLock
      /\ pc[t] \in {"pop.settle", "pop.resetLast", "pop.resetCurrent"}
  BY DEF PopResetCurrent, PopResetLast, PopKeep, fifo, locks
<1>5. Phase = pc[t] /\ aReadLock = t
  BY <1>1, <1>4, PhaseOfReader DEF Reading
<1>6. ASSUME Backlog = 0, Backlog' = 0
      PROVE  SlotInv'
  <2>1. iCurrent' \in Nat \union {-1}
    BY <1>2 DEF PopResetCurrent, PopResetLast, PopKeep, fifo
  <2>2. \A n \in 1..size(vec) : vec.elems[n] = NULL
    <3> SUFFICES ASSUME NEW n \in 1..size(vec) PROVE vec.elems[n] = NULL
      OBVIOUS
    <3>1. n \notin iCurrent + 2 .. iCurrent + 1 + Backlog
      BY <1>2, <1>6
    <3> QED BY <1>1, <3>1 DEF SlotInv
  <2>3. Len(pushed') = Len(popped') + Backlog' /\ \A n \in 1..Len(popped') : popped'[n] = pushed'[n]
    BY <1>1, <1>4, <1>6 DEF SlotInv, history
  <2>4. 1..Backlog' = {}
    BY <1>6
  <2>5. \A n \in 1..size(vec') : vec'.elems[n] = NULL
    BY <1>4, <2>2
  <2> QED BY <2>3, <2>4, <2>5 DEF SlotInv
<1>7. CASE PopResetCurrent(t) /\ pc[t] = "pop.settle"
  <2>1. /\ iCurrent = iLastAdded /\ iCurrent' = -1 /\ iLastAdded' = iLastAdded
        /\ pc' = [pc EXCEPT ![t] = "pop.resetLast"]
    BY <1>7 DEF PopResetCurrent
  <2>2. Phase' = "pop.resetLast"
    BY <1>4, <1>5, <2>1, PhaseHere DEF Steps, Reading
  <2>3. Backlog = 0 /\ Backlog' = 0
    BY <1>2, <1>5, <1>7, <2>1, <2>2 DEF Backlog, Resetting
  <2>4. IndexInv'
    BY <1>1, <1>2, <1>3, <1>4, <2>1, <2>2 DEF IndexInv, Resetting
  <2> QED BY <1>6, <2>3, <2>4
<1>8. CASE PopResetLast(t) /\ pc[t] = "pop.settle"
  <2>1. /\ iCurrent = iLastAdded /\ iLastAdded' = -1 /\ iCurrent' = iCurrent
        /\ pc' = [pc EXCEPT ![t] = "pop.resetCurrent"]
    BY <1>8 DEF PopResetLast
  <2>2. Phase' = "pop.resetCurrent"
    BY <1>4, <1>5, <2>1, PhaseHere DEF Steps, Reading
  <2>3. Backlog = 0 /\ Backlog' = 0
    BY <1>2, <1>5, <1>8, <2>1, <2>2 DEF Backlog, Resetting
  <2>4. IndexInv'
    BY <1>1, <1>2, <1>3, <1>4, <2>1, <2>2 DEF IndexInv, Resetting
  <2> QED BY <1>6, <2>3, <2>4
<1>9. CASE \/ PopResetCurrent(t) /\ pc[t] = "pop.resetCurrent"
           \/ PopResetLast(t) /\ pc[t] = "pop.resetLast"
  <2>1. iCurrent' = -1 /\ iLastAdded' = -1 /\ pc' = [pc EXCEPT ![t] = "pop.unlock"]
    BY <1>1, <1>5, <1>9 DEF PopResetCurrent, PopResetLast, IndexInv
  <2>2. Phase' = "pop.unlock"
    BY <1>4, <1>5, <2>1, PhaseHere DEF Steps, Reading
  <2>3. Backlog = 0 /\ Backlog' = 0
    BY <1>5, <1>9, <2>1, <2>2 DEF Backlog, Resetting
  <2>4. IndexInv'
    BY <1>1, <1>3, <1>4, <2>1, <2>2 DEF IndexInv, Resetting
  <2> QED BY <1>6, <2>3, <2>4
<1>10. CASE PopKeep(t)
  <2>1. /\ iCurrent # iLastAdded /\ iCurrent' = iCurrent /\ iLastAdded' = iLastAdded
        /\ pc[t] = "pop.settle" /\ pc' = [pc EXCEPT ![t] = "pop.unlock"]
    BY <1>10 DEF PopKeep, fifo
  <2>2. Phase' = "pop.unlock"
    BY <1>4, <1>5, <2>1, PhaseHere DEF Steps, Reading
  <2>3. Backlog' = Backlog
    BY <1>5, <2>1, <2>2 DEF Backlog, Resetting
  <2>4. IndexInv'
    BY <1>1, <1>2, <1>3, <1>4, <1>5, <2>1, <2>2 DEF IndexInv, Resetting
  <2>5. SlotInv'
    BY <1>1, <1>4, <2>1, <2>3 DEF SlotInv, history
  <2> QED BY <2>4, <2>5
<1> QED BY <1>7, <1>8, <1>9, <1>10 DEF PopResetCurrent, PopResetLast

(***************************************************************************)
(* The theorems.                                                           *)
(***************************************************************************)

\* and is kept by every step.
LEMMA StepFifoInv == FifoInv /\ [Next]_vars => FifoInv'
<1> SUFFICES ASSUME FifoInv, [Next]_vars PROVE FifoInv'
  OBVIOUS
<1>1. CASE Next
  <2>1. PICK t \in Threads : Call(t) \/ Step(t)
    BY <1>1 DEF Next
  <2>2. QueueTypeOK' /\ LockInv'
    BY <2>1, StepQueueTypeOK, StepLockInv
  <2>3. IndexInv' /\ SlotInv'
    <3>1. CASE PushStore(t)
      BY <3>1, PushStoreKeeps
    <3>2. CASE PopTake(t)
      BY <3>2, PopTakeKeeps
    <3>3. CASE PopResetCurrent(t) \/ PopResetLast(t) \/ PopKeep(t)
      BY <3>3, PopSettlesKeep
    <3> QED BY <2>1, <3>1, <3>2, <3>3, QuietStepsKeep DEF Step, Push, Pop
  <2> QED BY <2>2, <2>3 DEF FifoInv
<1>2. CASE UNCHANGED vars
  <2> USE <1>2 DEF vars, fifo, locks, history
  <2>1. QueueTypeOK'
    BY DEF FifoInv, QueueTypeOK
  <2>2. LockInv'
    BY DEF FifoInv, LockInv
  <2>3. Phase' = Phase
    BY DEF Phase
  <2>4. IndexInv' /\ SlotInv'
    BY <2>3, QuietStep DEF FifoInv
  <2> QED BY <2>1, <2>2, <2>4 DEF FifoInv
<1> QED BY <1>1, <1>2

\* The inductive invariant holds, however many threads call what they want:
\* the mutexes protect the methods, the indices stay ordered and inside the
\* vector, and the slots between them hold what was pushed and not popped.
THEOREM FifoInvHolds == Spec => []FifoInv
BY InitFifoInv, StepFifoInv, PTL DEF Spec

\* Every variable keeps its type, those of isEmpty() and isFull() included.
THEOREM TypeCorrect == Spec => []TypeOK
<1>1. Init => AskTypeOK
  BY DEF Init, AskTypeOK, NothingSeen, Unknown
<1>2. FifoInv /\ AskTypeOK /\ [Next]_vars => AskTypeOK'
  <2> SUFFICES ASSUME FifoInv, AskTypeOK, [Next]_vars PROVE AskTypeOK'
    OBVIOUS
  <2>1. CASE UNCHANGED asking
    BY <2>1 DEF AskTypeOK, asking
  <2>2. ASSUME NEW t \in Threads, IsEmptyCall(t) \/ IsFullCall(t) PROVE AskTypeOK'
    <3>1. Len(pushed) \in Nat /\ Settled \in Int
      <4>1. pushed \in Seq(Objects) /\ popped \in Seq(Objects)
        BY DEF FifoInv, QueueTypeOK
      <4> QED BY <4>1 DEF Settled
    <3>2. [pushed |-> Len(pushed), popped |-> Settled] \in [pushed: Nat, popped: Int]
      BY <3>1
    <3>3. since' \in [Threads -> [pushed: Nat, popped: Int]]
      <4> DEFINE now == [pushed |-> Len(pushed), popped |-> Settled]
      <4>1. since' = [since EXCEPT ![t] = now]
        BY <2>2 DEF IsEmptyCall, IsFullCall, Ask
      <4> HIDE DEF now
      <4> QED BY <3>2, <4>1 DEF AskTypeOK, now
    <3>4. /\ unread' = [unread EXCEPT ![t] = Indices]
          /\ answer' = [answer EXCEPT ![t] = "none"]
          /\ seen' = seen
      BY <2>2 DEF IsEmptyCall, IsFullCall, Ask
    <3>5. unread' \in [Threads -> SUBSET Indices]
      <4>1. Indices \in SUBSET Indices
        OBVIOUS
      <4> QED BY <3>4, <4>1 DEF AskTypeOK
    <3>6. answer' \in [Threads -> {"none", "empty", "not empty", "full", "not full"}]
      BY <3>4 DEF AskTypeOK
    <3> QED BY <3>3, <3>4, <3>5, <3>6 DEF AskTypeOK
  <2>3. ASSUME NEW t \in Threads, NEW index \in Indices, ReadIndex(t, index) PROVE AskTypeOK'
    <3> DEFINE value == IF index = "iCurrent" THEN iCurrent ELSE iLastAdded
    <3>1. value \in Nat \union {-1}
      BY DEF FifoInv, QueueTypeOK
    <3>2. [seen[t] EXCEPT ![index] = value] \in [Indices -> Nat \union {-1}]
      BY <3>1 DEF AskTypeOK
    <3>3. seen' \in [Threads -> [Indices -> Nat \union {-1}]]
      <4>1. seen' = [seen EXCEPT ![t] = [seen[t] EXCEPT ![index] = value]]
        BY <2>3 DEF ReadIndex
      <4> QED BY <3>2, <4>1 DEF AskTypeOK
    <3>4. unread' \in [Threads -> SUBSET Indices] /\ UNCHANGED <<answer, since>>
      BY <2>3 DEF ReadIndex, AskTypeOK
    <3> QED BY <3>3, <3>4 DEF AskTypeOK
  <2>4. ASSUME NEW t \in Threads, IsEmptyReturn(t) \/ IsFullReturn(t) PROVE AskTypeOK'
    <3>1. /\ NothingSeen \in [Indices -> Nat \union {-1}]
          /\ Unknown \in [pushed: Nat, popped: Int]
      BY DEF NothingSeen, Unknown
    <3>2. /\ seen' = [seen EXCEPT ![t] = NothingSeen] /\ since' = [since EXCEPT ![t] = Unknown]
          /\ unread' = unread
          /\ \E conclusion \in {"empty", "not empty", "full", "not full"} :
               answer' = [answer EXCEPT ![t] = conclusion]
      BY <2>4 DEF IsEmptyReturn, IsFullReturn, Conclude
    <3> QED BY <3>1, <3>2 DEF AskTypeOK
  <2> QED
    BY <2>1, <2>2, <2>3, <2>4
    DEF Next, Call, Step, Push, Pop, TryPop, AskSteps, vars, PushCall, PopCall, TryPopCall,
        PushLockWrite, PushLockRead, PushStore, PushUnlockRead, PushUnlockWrite,
        PopLock, PopTake, PopNothing, PopResetCurrent, PopResetLast, PopKeep, PopUnlock,
        TryPopLock, TryPopLook, TryPopUnlock
<1>3. FifoInv /\ AskTypeOK => TypeOK
  BY DEF FifoInv, TypeOK
<1> QED BY <1>1, <1>2, <1>3, FifoInvHolds, PTL DEF Spec

\* Between the indices, in every phase of a pop(), lies what was pushed and not popped.
RestInv ==
  /\ Contents \in Seq(Objects) /\ Len(Contents) = Backlog /\ Backlog \in Nat
  /\ Len(pushed) = Len(popped) + Len(Contents) /\ Len(pushed) \in Nat /\ Len(popped) \in Nat
  /\ \A n \in 1..Len(Contents) : Contents[n] = pushed[Len(popped) + n]

\* What the slots hold is what was pushed and not popped.
LEMMA ContentsAreTheRest == FifoInv => RestInv
<1> SUFFICES ASSUME FifoInv PROVE RestInv
  OBVIOUS
<1>1. /\ pushed \in Seq(Objects) /\ popped \in Seq(Objects)
      /\ iLastAdded \in Nat \union {-1} /\ iCurrent \in Nat \union {-1}
      /\ vec \in Vectors(Objects)
  BY DEF FifoInv, QueueTypeOK
<1>2. Len(pushed) \in Nat /\ Len(popped) \in Nat /\ size(vec) \in Nat
  BY <1>1 DEF Vectors, size
<1>3. Len(pushed) = Len(popped) + Backlog
  BY DEF FifoInv, SlotInv
<1>4. Backlog \in Nat /\ \A n \in 1..Backlog : iCurrent + n < size(vec)
  <2>1. CASE Phase \in Resetting
    BY <2>1 DEF Backlog
  <2>2. CASE Phase \notin Resetting
    BY <1>1, <1>2, <2>2 DEF FifoInv, IndexInv, Backlog
  <2> QED BY <2>1, <2>2
<1>5. \A n \in 1..Backlog : Contents[n] = pushed[Len(popped) + n]
  <2> SUFFICES ASSUME NEW n \in 1..Backlog
               PROVE  elementAt(vec, iCurrent + n) = pushed[Len(popped) + n]
    BY DEF Contents
  <2>1. elementAt(vec, iCurrent + n) = vec.elems[iCurrent + n + 1]
    BY <1>4 DEF elementAt, InBounds
  <2>2. iCurrent + n + 1 = iCurrent + 1 + n
    BY <1>1, <1>4
  <2> QED BY <2>1, <2>2 DEF FifoInv, SlotInv
<1>6. \A n \in 1..Backlog : Contents[n] \in Objects
  <2> SUFFICES ASSUME NEW n \in 1..Backlog PROVE pushed[Len(popped) + n] \in Objects
    BY <1>5
  <2>1. Len(popped) + n \in 1..Len(pushed)
    BY <1>2, <1>3, <1>4
  <2> QED BY <1>1, <2>1, ElementOfSeq
<1>7. Contents \in Seq(Objects) /\ Len(Contents) = Backlog
  <2>1. Contents \in [1..Backlog -> Objects]
    BY <1>6 DEF Contents
  <2> QED BY <1>4, <2>1
<1> QED BY <1>2, <1>3, <1>4, <1>5, <1>7 DEF RestInv

\* FifoVector.h:10-12: first in, first out, nothing lost and nothing twice.
THEOREM FirstInFirstOut == Spec => []FifoOrder
<1>1. FifoInv => FifoOrder
  <2> SUFFICES ASSUME FifoInv PROVE pushed = popped \o Contents
    BY DEF FifoOrder
  <2>1. /\ pushed \in Seq(Objects) /\ popped \in Seq(Objects)
        /\ \A n \in 1..Len(popped) : popped[n] = pushed[n]
    BY DEF FifoInv, QueueTypeOK, SlotInv
  <2>2. Len(pushed) \in Nat /\ Len(popped) \in Nat
    BY ContentsAreTheRest DEF RestInv
  <2>3. Len(pushed) = Len(popped) + Backlog
    BY ContentsAreTheRest DEF RestInv
  <2>4. Backlog \in Nat
    BY ContentsAreTheRest DEF RestInv
  <2>5. \A n \in 1..Backlog : Contents[n] = pushed[Len(popped) + n]
    BY ContentsAreTheRest DEF RestInv
  <2>7. Contents \in Seq(Objects) /\ Len(Contents) = Backlog
    BY ContentsAreTheRest DEF RestInv
  <2>8. /\ popped \o Contents \in Seq(Objects)
        /\ Len(popped \o Contents) = Len(popped) + Len(Contents)
        /\ \A n \in 1..Len(popped) + Len(Contents) :
             (popped \o Contents)[n] =
               IF n <= Len(popped) THEN popped[n] ELSE Contents[n - Len(popped)]
    BY <2>1, <2>7, ConcatProperties
  <2>9. \A n \in 1..Len(pushed) : pushed[n] = (popped \o Contents)[n]
    <3> SUFFICES ASSUME NEW n \in 1..Len(pushed)
                 PROVE  pushed[n] = (popped \o Contents)[n]
      OBVIOUS
    <3>1. CASE n <= Len(popped)
      <4>1. n \in 1..Len(popped) /\ n \in 1..Len(popped) + Len(Contents)
        BY <2>2, <2>3, <2>4, <2>7, <3>1
      <4>2. popped[n] = pushed[n]
        BY <2>1, <4>1
      <4> QED BY <2>8, <3>1, <4>1, <4>2
    <3>2. CASE ~(n <= Len(popped))
      <4>1. /\ n - Len(popped) \in 1..Backlog /\ Len(popped) + (n - Len(popped)) = n
            /\ n \in 1..Len(popped) + Len(Contents) /\ ~(n <= Len(popped))
        BY <2>2, <2>3, <2>4, <2>7, <3>2
      <4>2. Contents[n - Len(popped)] = pushed[n]
        BY <2>5, <4>1
      <4>3. (popped \o Contents)[n] = Contents[n - Len(popped)]
        BY <2>8, <4>1
      <4> QED BY <4>2, <4>3
    <3> QED BY <3>1, <3>2
  <2> QED BY <2>1, <2>3, <2>7, <2>8, <2>9, SeqEqual
<1> QED BY <1>1, FifoInvHolds, PTL

\* push() never takes the branches for a ring that wraps or is full, whatever
\* the preallocation: the vector grows instead.
THEOREM PushNeverWraps == Spec => []NeverWrapsNorWaits
<1>1. FifoInv => NeverWrapsNorWaits
  <2> SUFFICES ASSUME FifoInv, NEW t \in Threads, pc[t] \in {"push.lockRead", "push.store"},
                      aReadLock \in {NULL, t}
               PROVE  iLastAdded >= iCurrent /\ ~MustWrap
    BY DEF NeverWrapsNorWaits
  <2>1. Phase \in {"free", "push.lockRead", "push.store"}
    BY FifoAssumption DEF Phase
  <2>2. /\ iLastAdded \in Nat \union {-1} /\ iCurrent \in Nat \union {-1}
        /\ vec \in Vectors(Objects)
    BY DEF FifoInv, QueueTypeOK
  <2>3. size(vec) \in Nat /\ vec.allocated \in Nat
    BY <2>2 DEF Vectors, size
  <2> QED BY <2>1, <2>2, <2>3 DEF FifoInv, IndexInv, Resetting, MustWrap
<1> QED BY <1>1, FifoInvHolds, PTL

\* FifoVector.h:39, 41: each call amounts to one operation on an abstract queue, which
\* takes effect when push() stores, pop() takes and trypop() looks, and in between others
\* see nothing of it.
THEOREM ImplementsAQueue == Spec => ImplementsQueue
<1> DEFINE Shown == {"pop.settle", "pop.resetLast", "pop.resetCurrent", "pop.unlock",
                     "trypop.unlock", "idle", "isEmpty", "isFull"}
<1>0. FifoInv' => RestInv'
  BY ContentsAreTheRest, PTL
<1>1. Init => Queue!Init
  <2> SUFFICES ASSUME Init PROVE Contents = <<>> /\ Results = [t \in Threads |-> NULL]
    BY DEF Queue!Init
  <2>1. FifoInv /\ pushed = <<>> /\ popped = <<>>
    BY InitFifoInv DEF Init
  <2>2. Contents \in Seq(Objects) /\ Len(Contents) = 0
    BY <2>1, ContentsAreTheRest DEF RestInv
  <2>3. Contents = <<>>
    BY <2>2
  <2>4. Results = [t \in Threads |-> NULL]
    BY DEF Init, Results
  <2> QED BY <2>3, <2>4
<1>2. ASSUME FifoInv, FifoInv', UNCHANGED history
      PROVE  Contents' = Contents
  <2>1. /\ Contents \in Seq(Objects) /\ Contents' \in Seq(Objects)
        /\ Len(Contents) = Len(pushed) - Len(popped) /\ Len(Contents') = Len(pushed') - Len(popped')
    BY <1>0, <1>2, ContentsAreTheRest DEF RestInv
  <2>2. /\ \A n \in 1..Len(Contents) : Contents[n] = pushed[Len(popped) + n]
        /\ \A n \in 1..Len(Contents') : Contents'[n] = pushed'[Len(popped') + n]
    BY <1>0, <1>2, ContentsAreTheRest DEF RestInv
  <2>3. pushed' = pushed /\ popped' = popped
    BY <1>2 DEF history
  <2> QED BY <2>1, <2>2, <2>3, SeqEqual
<1>3. ASSUME FifoInv, FifoInv', NEW t \in Threads, Call(t) \/ Step(t)
      PROVE  [Queue!Next]_<<Contents, Results>>
  <2> USE <1>3
  <2>1. /\ pc \in [Threads -> Steps] /\ obj \in [Threads -> Objects \union {NULL}]
        /\ pushed \in Seq(Objects) /\ popped \in Seq(Objects)
    BY DEF FifoInv, QueueTypeOK
  <2>2. RestInv /\ RestInv'
    BY <1>0, ContentsAreTheRest
  <2>3. /\ Contents \in Seq(Objects) /\ Contents' \in Seq(Objects)
        /\ Len(Contents) \in Nat /\ Len(pushed) \in Nat /\ Len(popped) \in Nat
        /\ Len(pushed) = Len(popped) + Len(Contents) /\ Len(pushed') = Len(popped') + Len(Contents')
    BY <2>2 DEF RestInv
  <2>4. Len(Contents') \in Nat
    BY <2>3
  <2>5. /\ \A n \in 1..Len(Contents) : Contents[n] = pushed[Len(popped) + n]
        /\ \A n \in 1..Len(Contents') : Contents'[n] = pushed'[Len(popped') + n]
    BY <2>2 DEF RestInv
  <2>6. CASE PushStore(t)
    <3>1. /\ obj[t] \in Objects /\ pushed' = Append(pushed, obj[t]) /\ popped' = popped
          /\ pc[t] = "push.store" /\ obj' = obj /\ pc' = [pc EXCEPT ![t] = "push.unlockRead"]
      BY <2>6 DEF PushStore, Goto, FifoInv, LockInv
    <3>2. Results' = Results
      BY <2>1, <3>1 DEF Results
    <3>3. Len(pushed') = Len(pushed) + 1
      BY <2>1, <3>1
    <3>4. Len(Contents') = Len(Contents) + 1
      BY <2>3, <2>4, <3>1, <3>3
    <3>5. \A n \in 1..Len(Contents) : pushed'[Len(popped) + n] = pushed[Len(popped) + n]
      BY <2>1, <2>3, <3>1
    <3>6. /\ Append(Contents, obj[t]) \in Seq(Objects)
          /\ Len(Append(Contents, obj[t])) = Len(Contents) + 1
      BY <2>3, <3>1, AppendProperties
    <3>7. \A n \in 1..Len(Contents') : Contents'[n] = Append(Contents, obj[t])[n]
      <4> SUFFICES ASSUME NEW n \in 1..Len(Contents')
                   PROVE  Contents'[n] = Append(Contents, obj[t])[n]
        OBVIOUS
      <4>1. Contents'[n] = pushed'[Len(popped) + n]
        BY <2>5, <3>1
      <4>2. CASE n = Len(Contents) + 1
        <5>1. Len(popped) + n = Len(pushed) + 1
          BY <2>3, <4>2
        <5>2. pushed'[Len(pushed) + 1] = obj[t]
          BY <2>1, <3>1
        <5>3. Append(Contents, obj[t])[n] = obj[t]
          BY <2>3, <3>1, <4>2
        <5> QED BY <4>1, <5>1, <5>2, <5>3
      <4>3. CASE n \in 1..Len(Contents)
        <5>1. Append(Contents, obj[t])[n] = Contents[n]
          BY <2>3, <3>1, <4>3
        <5> QED BY <2>5, <3>5, <4>1, <4>3, <5>1
      <4>4. n = Len(Contents) + 1 \/ n \in 1..Len(Contents)
        BY <2>3, <3>4
      <4> QED BY <4>2, <4>3, <4>4
    <3>8. Contents' = Append(Contents, obj[t])
      BY <2>3, <3>4, <3>6, <3>7, SeqEqual
    <3> QED BY <3>1, <3>2, <3>8 DEF Queue!Next, Queue!Put
  <2>7. CASE PopTake(t)
    <3> DEFINE x == elementAt(vec, iCurrent + 1)
    <3>1. /\ iLastAdded # -1 /\ popped' = Append(popped, x) /\ pushed' = pushed
          /\ pc[t] = "pop.take" /\ obj' = [obj EXCEPT ![t] = x]
          /\ pc' = [pc EXCEPT ![t] = "pop.settle"]
      BY <2>7 DEF PopTake, Goto
    <3>2. Phase = "pop.take"
      BY <3>1, PhaseOfReader DEF FifoInv, Reading
    <3>3. x = pushed[Len(popped) + 1] /\ x \in Objects /\ Len(popped) + 1 \in 1..Len(pushed)
      BY <3>1, <3>2, FrontIsOldest DEF FifoInv, Calm, Resetting
    <3> HIDE DEF x
    <3>4. Len(popped') = Len(popped) + 1
      BY <2>1, <3>1, <3>3
    <3>5. Len(Contents') = Len(Contents) - 1 /\ Len(Contents) > 0
      BY <2>3, <2>4, <3>1, <3>3, <3>4
    <3>6. Contents[1] = x
      BY <2>3, <2>5, <3>3, <3>5
    <3>7. /\ Contents # <<>> /\ Head(Contents) = x /\ Tail(Contents) \in Seq(Objects)
          /\ Len(Tail(Contents)) = Len(Contents) - 1
          /\ \A n \in 1..Len(Contents) - 1 : Tail(Contents)[n] = Contents[n + 1]
      BY <2>3, <3>5, <3>6
    <3>8. \A n \in 1..Len(Contents') : Contents'[n] = Tail(Contents)[n]
      <4> SUFFICES ASSUME NEW n \in 1..Len(Contents')
                   PROVE  Contents'[n] = Tail(Contents)[n]
        OBVIOUS
      <4>1. n \in 1..Len(Contents) - 1 /\ n + 1 \in 1..Len(Contents)
        BY <2>3, <3>5
      <4>2. Len(popped') + n = Len(popped) + (n + 1)
        BY <2>3, <3>4
      <4>3. Contents'[n] = pushed[Len(popped) + (n + 1)]
        BY <2>5, <3>1, <4>2
      <4> QED BY <2>5, <3>7, <4>1, <4>3
    <3>9. Contents' = Tail(Contents)
      BY <2>3, <3>5, <3>7, <3>8, SeqEqual
    <3>10. Results' = [Results EXCEPT ![t] = x]
      BY <2>1, <3>1 DEF Results
    <3> QED BY <3>7, <3>9, <3>10 DEF Queue!Next, Queue!Take, Queue!Oldest
  <2>8. CASE TryPopLook(t)
    <3>1. /\ pc[t] = "trypop.look" /\ pc' = [pc EXCEPT ![t] = "trypop.unlock"]
          /\ obj' = [obj EXCEPT ![t] = IF iLastAdded # -1 THEN elementAt(vec, iCurrent + 1) ELSE NULL]
      BY <2>8 DEF TryPopLook, Goto
    <3>2. Phase = "trypop.look"
      BY <3>1, PhaseOfReader DEF FifoInv, Reading
    <3>3. obj' = [obj EXCEPT ![t] = Queue!Oldest]
      <4>1. CASE iLastAdded # -1
        <5>1. /\ elementAt(vec, iCurrent + 1) = pushed[Len(popped) + 1]
              /\ Backlog > 0
          BY <3>2, <4>1, FrontIsOldest DEF FifoInv, Calm, Resetting
        <5>2. Contents # <<>> /\ Head(Contents) = elementAt(vec, iCurrent + 1)
          BY <5>1, ContentsAreTheRest DEF RestInv
        <5> QED BY <3>1, <4>1, <5>2 DEF Queue!Oldest
      <4>2. CASE iLastAdded = -1
        <5>1. Backlog = -1 - iCurrent /\ iCurrent >= -1 /\ iCurrent \in Int
          BY <3>2, <4>2 DEF FifoInv, IndexInv, QueueTypeOK, Backlog, Resetting
        <5>2. Contents = <<>>
          BY <5>1, ContentsAreTheRest DEF RestInv
        <5> QED BY <3>1, <4>2, <5>2 DEF Queue!Oldest
      <4> QED BY <4>1, <4>2
    <3>4. Results' = [Results EXCEPT ![t] = Queue!Oldest]
      BY <2>1, <3>1, <3>3 DEF Results
    <3>5. Contents' = Contents
      BY <1>2, <2>8 DEF TryPopLook
    <3> QED BY <3>4, <3>5 DEF Queue!Next, Queue!Look
  <2>9. CASE Call(t)
    <3>1. UNCHANGED history
      BY <2>9 DEF Call, PushCall, PopCall, TryPopCall, IsEmptyCall, IsFullCall, Ask
    <3>2. Results' = [Results EXCEPT ![t] = NULL] \/ Results' = Results
      BY <2>1, <2>9 DEF Call, PushCall, PopCall, TryPopCall, IsEmptyCall, IsFullCall, Ask, Goto, Results
    <3> QED BY <1>2, <3>1, <3>2 DEF Queue!Next, Queue!Forget
  <2>10. CASE PopNothing(t) \/ PushUnlockWrite(t)
    <3>1. UNCHANGED history /\ Results' = Results
      BY <2>1, <2>10 DEF PopNothing, PushUnlockWrite, Goto, Results
    <3> QED BY <1>2, <3>1
  <2>11. CASE \/ PushLockWrite(t) \/ PushLockRead(t) \/ PushUnlockRead(t)
             \/ PopLock(t) \/ PopResetCurrent(t) \/ PopResetLast(t) \/ PopKeep(t) \/ PopUnlock(t)
             \/ TryPopLock(t) \/ TryPopUnlock(t) \/ AskSteps(t)
    <3>1. /\ UNCHANGED <<history, obj>>
          /\ \A u \in Threads : pc'[u] \in Shown <=> pc[u] \in Shown
      BY <2>1, <2>11
         DEF PushLockWrite, PushLockRead, PushUnlockRead, PopLock, PopResetCurrent, PopResetLast, PopKeep,
             PopUnlock, TryPopLock, TryPopUnlock, AskSteps, ReadIndex, IsEmptyReturn, IsFullReturn,
             Conclude, Goto, history
    <3>2. Results' = Results
      BY <3>1 DEF Results
    <3> QED BY <1>2, <3>1, <3>2
  <2> QED BY <2>6, <2>7, <2>8, <2>9, <2>10, <2>11 DEF Step, Push, Pop, TryPop
<1>4. FifoInv /\ FifoInv' /\ [Next]_vars => [Queue!Next]_<<Contents, Results>>
  <2>1. UNCHANGED vars => UNCHANGED <<Contents, Results>>
    BY DEF vars, fifo, locks, Contents, Results, Backlog, Phase, elementAt, InBounds, size
  <2> QED BY <1>3, <2>1 DEF Next
<1> QED BY <1>1, <1>4, FifoInvHolds, PTL DEF Spec, ImplementsQueue, Queue!Spec

(***************************************************************************)
(* What isEmpty() says, although it reads two indices without the mutex: a *)
(* single index that is set tells that something was in the queue, and     *)
(* iLastAdded alone, once reset, that everything is out.                   *)
(***************************************************************************)
Settling == {"pop.settle", "pop.resetLast", "pop.resetCurrent"}

AskInv ==
  \A t \in Threads : pc[t] = "isEmpty" =>
    /\ since[t].pushed <= Len(pushed) /\ since[t].popped <= Settled
    /\ "iLastAdded" \notin unread[t] =>
         IF seen[t].iLastAdded = -1 THEN Len(popped) >= since[t].pushed
                                    ELSE Len(pushed) > since[t].popped
    /\ "iCurrent" \notin unread[t] /\ seen[t].iCurrent # -1 => Len(pushed) > since[t].popped

\* What the indices tell of the queue at any moment.
Told ==
  /\ Phase \in Settling <=> \E t \in Threads : pc[t] \in Settling
  /\ Len(popped) \in Nat /\ Len(pushed) \in Nat /\ Len(popped) <= Len(pushed)
  /\ Settled = IF Phase \in Settling THEN Len(popped) - 1 ELSE Len(popped)
  /\ iLastAdded = -1 => Len(popped) = Len(pushed)
  /\ iLastAdded # -1 \/ iCurrent # -1 => Len(pushed) > Settled

\* FifoVector.cpp:26-28: empty means that all that was in the queue when the call began is
\* out, not empty that something was in it that no finished pop() took.
THEOREM EmptyAnswerHolds == Spec => EmptyAnswerIsTrue
<1>1. FifoInv => Told
  <2> SUFFICES ASSUME FifoInv PROVE Told
    OBVIOUS
  <2> USE DEF FifoInv, Told
  <2>1. /\ Len(popped) \in Nat /\ Len(pushed) \in Nat
        /\ iLastAdded \in Nat \union {-1} /\ iCurrent \in Nat \union {-1}
    BY DEF QueueTypeOK
  <2>2. Phase \in Settling <=> \E t \in Threads : pc[t] \in Settling
    <3>1. aReadLock \in Threads \union {NULL} /\ NULL \notin Threads
      BY FifoAssumption DEF QueueTypeOK
    <3>2. \A t \in Threads : pc[t] \in Settling => aReadLock = t
      BY DEF LockInv, Reading, Settling
    <3> QED BY <3>1, <3>2 DEF Phase, Settling
  <2>3. Settled = IF Phase \in Settling THEN Len(popped) - 1 ELSE Len(popped)
    BY DEF Settled, Settling
  <2>4. Len(pushed) = Len(popped) + Backlog
    BY DEF SlotInv
  <2>5. CASE Phase \in Settling
    <3>1. Backlog >= 0 /\ Backlog \in Int
      BY <2>1, <2>5 DEF Settling, Resetting, IndexInv, Backlog
    <3>2. iLastAdded = -1 => Backlog = 0
      BY <2>1, <2>5 DEF Settling, Resetting, IndexInv, Backlog
    <3> QED BY <2>1, <2>2, <2>3, <2>4, <2>5, <3>1, <3>2
  <2>6. CASE Phase \notin Settling
    <3>1. Backlog = iLastAdded - iCurrent /\ iCurrent <= iLastAdded
      BY <2>6 DEF Settling, Resetting, IndexInv, Backlog
    <3>2. iCurrent = iLastAdded => iLastAdded = -1
      BY <2>6 DEF Settling, Resetting, IndexInv
    <3> QED BY <2>1, <2>2, <2>3, <2>4, <2>6, <3>1, <3>2
  <2> QED BY <2>5, <2>6
<1>2. FifoInv' => Told'
  BY <1>1, PTL
<1>3. Init => AskInv
  BY DEF Init, AskInv
<1>4. ASSUME FifoInv, FifoInv', AskTypeOK, AskInv, NEW u \in Threads, Call(u) \/ Step(u)
      PROVE  AskInv'
  <2>1. Told /\ Told'
    BY <1>1, <1>2, <1>4
  <2>2. /\ Len(popped) \in Nat /\ Len(pushed) \in Nat /\ Settled \in Int
        /\ Len(popped') \in Nat /\ Len(pushed') \in Nat /\ Settled' \in Int
    BY <2>1 DEF Told
  <2>3. /\ pc \in [Threads -> Steps] /\ pushed \in Seq(Objects) /\ popped \in Seq(Objects)
        /\ unread \in [Threads -> SUBSET Indices] /\ seen \in [Threads -> [Indices -> Nat \union {-1}]]
        /\ since \in [Threads -> [pushed: Nat, popped: Int]]
        /\ obj \in [Threads -> Objects \union {NULL}]
    BY <1>4 DEF FifoInv, QueueTypeOK, AskTypeOK
  <2>4. Len(pushed) <= Len(pushed') /\ Len(popped) <= Len(popped') /\ Settled <= Settled'
    <3>1. CASE PopTake(u)
      <4>1. /\ pc[u] = "pop.take" /\ pc' = [pc EXCEPT ![u] = "pop.settle"] /\ pushed' = pushed
            /\ popped' = Append(popped, elementAt(vec, iCurrent + 1)) /\ iLastAdded # -1
        BY <3>1 DEF PopTake, Goto
      <4>2. Phase = "pop.take"
        BY <1>4, <4>1, PhaseOfReader DEF FifoInv, Reading
      <4>3. elementAt(vec, iCurrent + 1) \in Objects
        BY <1>4, <4>1, <4>2, FrontIsOldest DEF FifoInv, Calm, Resetting
      <4>4. Len(popped') = Len(popped) + 1
        BY <2>3, <4>1, <4>3
      <4>5. Settled = Len(popped)
        BY <2>1, <4>2 DEF Told, Settling
      <4>6. pc'[u] \in Settling
        BY <2>3, <4>1 DEF Settling
      <4>7. Settled' = Len(popped') - 1
        BY <2>1, <4>6 DEF Told
      <4> QED BY <2>2, <4>1, <4>4, <4>5, <4>7
    <3>2. CASE PushStore(u)
      <4>1. /\ pc[u] = "push.store" /\ pc' = [pc EXCEPT ![u] = "push.unlockRead"]
            /\ popped' = popped /\ pushed' = Append(pushed, obj[u])
        BY <2>3, <3>2 DEF PushStore, Goto
      <4>2. Len(pushed') = Len(pushed) + 1
        BY <2>3, <4>1, LenProperties, AppendProperties
      <4>3. \A t \in Threads : pc'[t] \in Settling => pc[t] \in Settling
        BY <2>3, <4>1 DEF Settling
      <4>4. Settled <= Settled'
        BY <2>1, <2>2, <4>1, <4>3 DEF Told
      <4> QED BY <2>2, <4>1, <4>2, <4>4
    <3>3. CASE ~PopTake(u) /\ ~PushStore(u)
      <4>1. popped' = popped /\ pushed' = pushed
        BY <1>4, <3>3
           DEF Call, Step, Push, Pop, TryPop, AskSteps, PushCall, PopCall, TryPopCall,
               IsEmptyCall, IsFullCall, Ask, PushLockWrite, PushLockRead, PushUnlockRead, PushUnlockWrite,
               PopLock, PopNothing, PopResetCurrent, PopResetLast, PopKeep, PopUnlock, TryPopLock, TryPopLook,
               TryPopUnlock, ReadIndex, IsEmptyReturn, IsFullReturn, Conclude, history
      <4>3. \A t \in Threads : pc'[t] \in Settling => pc[t] \in Settling
        <5>1. CASE Call(u)
          BY <2>3, <5>1 DEF Call, PushCall, PopCall, TryPopCall, IsEmptyCall, IsFullCall, Ask, Goto, Settling
        <5>2. CASE Push(u)
          BY <2>3, <3>3, <5>2 DEF Push, PushLockWrite, PushLockRead, PushUnlockRead, PushUnlockWrite,
             Goto, Settling
        <5>3. CASE Pop(u)
          BY <2>3, <3>3, <5>3 DEF Pop, PopLock, PopNothing, PopResetCurrent, PopResetLast, PopKeep,
             PopUnlock, Goto, Settling
        <5>4. CASE TryPop(u)
          BY <2>3, <5>4 DEF TryPop, TryPopLock, TryPopLook, TryPopUnlock, Goto, Settling
        <5>5. CASE AskSteps(u)
          BY <2>3, <5>5 DEF AskSteps, ReadIndex, IsEmptyReturn, IsFullReturn, Conclude, Goto, Settling
        <5> QED BY <1>4, <5>1, <5>2, <5>3, <5>4, <5>5 DEF Step
      <4>2. Settled <= Settled'
        BY <2>1, <2>2, <4>1, <4>3 DEF Told
      <4> QED BY <2>2, <4>1, <4>2
    <3> QED BY <3>1, <3>2, <3>3
  <2>5. SUFFICES ASSUME NEW t \in Threads, pc'[t] = "isEmpty"
                 PROVE  /\ since'[t].pushed <= Len(pushed') /\ since'[t].popped <= Settled'
                        /\ "iLastAdded" \notin unread'[t] =>
                             IF seen'[t].iLastAdded = -1 THEN Len(popped') >= since'[t].pushed
                                                         ELSE Len(pushed') > since'[t].popped
                        /\ "iCurrent" \notin unread'[t] /\ seen'[t].iCurrent # -1 =>
                             Len(pushed') > since'[t].popped
    BY DEF AskInv
  <2>6. CASE IsEmptyCall(u) /\ t = u
    <3>1. /\ unread'[t] = Indices /\ since'[t] = [pushed |-> Len(pushed), popped |-> Settled]
      BY <2>3, <2>6 DEF IsEmptyCall, Ask
    <3> QED BY <2>2, <2>4, <3>1 DEF Indices
  <2>7. CASE pc[t] = "isEmpty" /\ UNCHANGED <<unread[t], seen[t], since[t]>>
    <3>1. /\ since[t].pushed \in Nat /\ since[t].popped \in Int
      BY <2>3
    <3>2. /\ since[t].pushed <= Len(pushed) /\ since[t].popped <= Settled
          /\ "iLastAdded" \notin unread[t] =>
               IF seen[t].iLastAdded = -1 THEN Len(popped) >= since[t].pushed
                                          ELSE Len(pushed) > since[t].popped
          /\ "iCurrent" \notin unread[t] /\ seen[t].iCurrent # -1 => Len(pushed) > since[t].popped
      BY <1>4, <2>7 DEF AskInv
    <3>3. since'[t] = since[t] /\ seen'[t] = seen[t] /\ unread'[t] = unread[t]
      BY <2>7
    <3>4. /\ since[t].pushed <= Len(pushed') /\ since[t].popped <= Settled'
          /\ Len(popped) >= since[t].pushed => Len(popped') >= since[t].pushed
          /\ Len(pushed) > since[t].popped => Len(pushed') > since[t].popped
      BY <2>2, <2>4, <3>1, <3>2
    <3> QED BY <3>2, <3>3, <3>4
  <2>8. CASE t = u /\ \E index \in Indices : ReadIndex(u, index)
    <3>1. PICK index \in Indices : ReadIndex(u, index)
      BY <2>8
    <3>2. /\ pc[t] = "isEmpty" /\ UNCHANGED <<since, popped, pushed>>
          /\ unread'[t] = unread[t] \ {index}
          /\ seen'[t] = [seen[t] EXCEPT ![index] = IF index = "iCurrent" THEN iCurrent ELSE iLastAdded]
      BY <2>3, <2>5, <2>8, <3>1 DEF ReadIndex, history
    <3>3. /\ since[t].pushed \in Nat /\ since[t].popped \in Int
          /\ since[t].pushed <= Len(pushed) /\ since[t].popped <= Settled
      BY <1>4, <2>3, <3>2 DEF AskInv
    <3>4. since'[t].pushed <= Len(pushed') /\ since'[t].popped <= Settled'
      BY <2>2, <2>4, <3>2, <3>3
    <3>5. CASE index = "iLastAdded"
      <4>1. seen'[t].iLastAdded = iLastAdded /\ seen'[t].iCurrent = seen[t].iCurrent
        BY <2>3, <3>2, <3>5 DEF Indices
      <4>2. IF seen'[t].iLastAdded = -1 THEN Len(popped') >= since'[t].pushed
                                        ELSE Len(pushed') > since'[t].popped
        BY <2>1, <2>2, <3>2, <3>3, <4>1 DEF Told
      <4>3. "iCurrent" \notin unread'[t] => "iCurrent" \notin unread[t]
        BY <3>2, <3>5
      <4> QED BY <1>4, <3>2, <3>4, <4>1, <4>2, <4>3 DEF AskInv
    <3>6. CASE index = "iCurrent"
      <4>1. seen'[t].iCurrent = iCurrent /\ seen'[t].iLastAdded = seen[t].iLastAdded
        BY <2>3, <3>2, <3>6 DEF Indices
      <4>2. seen'[t].iCurrent # -1 => Len(pushed') > since'[t].popped
        BY <2>1, <2>2, <3>2, <3>3, <4>1 DEF Told
      <4>3. "iLastAdded" \notin unread'[t] => "iLastAdded" \notin unread[t]
        BY <3>2, <3>6
      <4> QED BY <1>4, <3>2, <3>4, <4>1, <4>2, <4>3 DEF AskInv
    <3> QED BY <3>5, <3>6 DEF Indices
  <2>9. CASE t # u
    <3>1. pc'[t] = pc[t] /\ UNCHANGED <<unread[t], seen[t], since[t]>>
      <4>1. CASE Call(u)
        BY <2>3, <2>9, <4>1 DEF Call, PushCall, PopCall, TryPopCall, IsEmptyCall, IsFullCall, Ask, Goto,
           asking
      <4>2. CASE Push(u)
        BY <2>3, <2>9, <4>2 DEF Push, PushLockWrite, PushLockRead, PushStore, PushUnlockRead,
           PushUnlockWrite, Goto, asking
      <4>3. CASE Pop(u)
        BY <2>3, <2>9, <4>3 DEF Pop, PopLock, PopTake, PopNothing, PopResetCurrent, PopResetLast,
           PopKeep, PopUnlock, Goto, asking
      <4>4. CASE TryPop(u)
        BY <2>3, <2>9, <4>4 DEF TryPop, TryPopLock, TryPopLook, TryPopUnlock, Goto, asking
      <4>5. CASE AskSteps(u)
        BY <2>3, <2>9, <4>5 DEF AskSteps, ReadIndex, IsEmptyReturn, IsFullReturn, Conclude, Goto
      <4> QED BY <1>4, <4>1, <4>2, <4>3, <4>4, <4>5 DEF Step
    <3> QED BY <2>5, <2>7, <3>1
  <2>10. CASE t = u
    <3>1. CASE Call(u)
      <4>1. IsEmptyCall(u)
        BY <2>3, <2>5, <2>10, <3>1 DEF Call, PushCall, PopCall, TryPopCall, IsFullCall, Ask, Goto
      <4> QED BY <2>6, <2>10, <4>1
    <3>2. CASE Push(u)
      BY <2>3, <2>5, <2>10, <3>2 DEF Push, PushLockWrite, PushLockRead, PushStore, PushUnlockRead,
         PushUnlockWrite, Goto
    <3>3. CASE Pop(u)
      BY <2>3, <2>5, <2>10, <3>3 DEF Pop, PopLock, PopTake, PopNothing, PopResetCurrent, PopResetLast,
         PopKeep, PopUnlock, Goto
    <3>4. CASE TryPop(u)
      BY <2>3, <2>5, <2>10, <3>4 DEF TryPop, TryPopLock, TryPopLook, TryPopUnlock, Goto
    <3>5. CASE AskSteps(u)
      <4>1. \E index \in Indices : ReadIndex(u, index)
        BY <2>3, <2>5, <2>10, <3>5 DEF AskSteps, IsEmptyReturn, IsFullReturn, Conclude, Goto
      <4> QED BY <2>8, <2>10, <4>1
    <3> QED BY <1>4, <3>1, <3>2, <3>3, <3>4, <3>5 DEF Step
  <2> QED BY <2>9, <2>10
<1>5. AskInv /\ UNCHANGED vars => AskInv'
  BY DEF AskInv, vars, fifo, locks, asking, history, Settled, Phase
<1>6. FifoInv /\ AskTypeOK /\ AskInv /\ [Next]_vars =>
        [\A t \in Threads : IsEmptyReturn(t) =>
           IF answer'[t] = "empty" THEN Len(popped) >= since[t].pushed
                                   ELSE Len(pushed) > since[t].popped]_vars
  <2> SUFFICES ASSUME FifoInv, AskTypeOK, AskInv, NEW t \in Threads, IsEmptyReturn(t)
               PROVE  IF answer'[t] = "empty" THEN Len(popped) >= since[t].pushed
                                              ELSE Len(pushed) > since[t].popped
    OBVIOUS
  <2>1. pc[t] = "isEmpty" /\ unread[t] = {}
    BY DEF IsEmptyReturn, Conclude, Goto
  <2>2. answer'[t] = "empty" <=> seen[t].iCurrent = -1 /\ seen[t].iLastAdded = -1
    BY DEF IsEmptyReturn, Conclude, AskTypeOK
  <2> QED BY <2>1, <2>2 DEF AskInv
<1>7. FifoInv /\ AskTypeOK /\ AskInv /\ FifoInv' /\ [Next]_vars => AskInv'
  BY <1>4, <1>5 DEF Next
<1>8. TypeOK => AskTypeOK
  BY DEF TypeOK
<1> QED BY <1>3, <1>6, <1>7, <1>8, FifoInvHolds, TypeCorrect, PTL DEF Spec, EmptyAnswerIsTrue

-----------------------------------------------------------------------------
(* The message loop                                                         *)

\* The steps of pop() before and after it took the object, and those of trypop().
BeforeTaking == {"pop.lock", "pop.take"}
AfterTaking  == {"pop.settle", "pop.resetLast", "pop.resetCurrent", "pop.unlock"}
Peeking      == {"trypop.lock", "trypop.look", "trypop.unlock"}
Taking       == BeforeTaking \union AfterTaking \union Peeking

LoopTypeInv ==
  /\ adding \in [Threads -> {"no", "tested", "pushed"}]
  /\ running \in {"test", "iteration", "tested", "peeked", "execute", "popped", "left"}
  /\ executed \in Seq(Objects) /\ deleted \in Seq(Objects)

\* Only the main thread takes from the queue, where CBAppRun() has it do so, and it
\* adds an event only in a handler or an event it executes.
MainInv ==
  /\ \A t \in Threads \ {Main} : pc[t] \notin Taking
  /\ running = "peeked" => pc[Main] \in Peeking \union {"idle"}
  /\ running = "popped" => pc[Main] \in BeforeTaking \union AfterTaking \union {"idle"}
  /\ running \notin {"peeked", "popped"} => pc[Main] \notin Taking
  /\ adding[Main] # "no" => running \in {"iteration", "execute"}

\* What was executed and what was deleted are the beginning of what was pushed.
PrefixInv ==
  /\ Len(executed) <= Len(pushed) /\ \A n \in 1..Len(executed) : executed[n] = pushed[n]
  /\ Len(deleted) <= Len(executed) /\ \A n \in 1..Len(deleted) : deleted[n] = pushed[n]

\* How far the main thread is with executing, popping and deleting, and that the
\* event in its hands is the next one.
NextIs(n) == n \in 1..Len(pushed) /\ obj[Main] = pushed[n]

ProgressInv ==
  /\ Len(executed) = Len(deleted) + (IF running \in {"execute", "popped"} THEN 1 ELSE 0)
  /\ IF running = "popped" /\ pc[Main] \notin BeforeTaking
     THEN Len(popped) = Len(deleted) + 1 /\ NextIs(Len(popped))
     ELSE Len(popped) = Len(deleted)
  /\ running = "peeked" /\ pc[Main] \notin {"trypop.lock", "trypop.look"} =>
       obj[Main] = NULL \/ NextIs(Len(popped) + 1)

LoopInv == LoopTypeInv /\ MainInv /\ PrefixInv /\ ProgressInv

-----------------------------------------------------------------------------
(* The queue is used through its methods                                    *)

\* Every step of the loop is one of the queue, or none of its concern.
LEMMA QueueSteps == LoopNext => [Next]_vars
<1> SUFFICES ASSUME LoopNext PROVE [Next]_vars
  OBVIOUS
<1>1. ASSUME NEW t \in Threads, TestFull(t) \/ AddEvent(t)
      PROVE  [Next]_vars
  BY <1>1 DEF TestFull, AddEvent, TestFullAgain, PushEvent, NoEventLeft, Added, Next, Call
<1>2. ASSUME NEW t \in Threads, Step(t)
      PROVE  [Next]_vars
  BY <1>2 DEF Next
<1>3. CASE Run
  BY <1>3, MainAssumption
     DEF Run, Iterate, TestEmpty, Leave, NothingToDo, PeekEvent, ExecuteEvent, PopEvent, DeleteEvent, Next, Call
<1>4. CASE Close
  BY <1>4 DEF Close
<1> QED BY <1>1, <1>2, <1>3, <1>4 DEF LoopNext

\* CBApp.cpp: whatever the threads of an application do with its queue is a behaviour
\* of FifoVector, so that its theorems hold of mainMessageQueue.
THEOREM LoopUsesTheQueue == LoopSpec => Spec /\ []FifoInv
<1>1. LoopInit => Init
  BY DEF LoopInit
<1>2. [LoopNext]_allVars => [Next]_vars
  BY QueueSteps DEF allVars
<1> QED BY <1>1, <1>2, FifoInvHolds, PTL DEF LoopSpec, LoopSafety, Spec

\* What a step of a method changes that matters to others.
LEMMA StepEffects ==
  ASSUME FifoInv, NEW t \in Threads, Step(t)
  PROVE  /\ Len(pushed) <= Len(pushed') /\ \A n \in 1..Len(pushed) : pushed'[n] = pushed[n]
         /\ \A u \in Threads \ {t} : pc'[u] = pc[u] /\ obj'[u] = obj[u]
         /\ pc[t] \notin Taking => pc'[t] \notin Taking
         /\ pc[t] # "pop.take" => popped' = popped
<1>1. /\ pushed \in Seq(Objects) /\ pc \in [Threads -> Steps]
      /\ obj \in [Threads -> Objects \union {NULL}] /\ Len(pushed) \in Nat
      /\ pc[t] = "push.store" => obj[t] \in Objects
  BY DEF FifoInv, QueueTypeOK, LockInv
<1> USE DEF Step, Push, Pop, TryPop, AskSteps, Goto
<1>2. /\ \A u \in Threads \ {t} : pc'[u] = pc[u] /\ obj'[u] = obj[u]
      /\ pc[t] \notin Taking => pc'[t] \notin Taking
      /\ pc[t] # "pop.take" => popped' = popped
  BY <1>1 DEF PushLockWrite, PushLockRead, PushStore, PushUnlockRead, PushUnlockWrite, PopLock, PopTake,
     PopNothing, PopResetCurrent, PopResetLast, PopKeep, PopUnlock, TryPopLock, TryPopLook, TryPopUnlock,
     ReadIndex, IsEmptyReturn, IsFullReturn, Conclude, history,
     Taking, BeforeTaking, AfterTaking, Peeking
<1>3. Len(pushed) <= Len(pushed') /\ \A n \in 1..Len(pushed) : pushed'[n] = pushed[n]
  <2>1. CASE PushStore(t)
    <3>1. obj[t] \in Objects /\ pushed' = Append(pushed, obj[t])
      BY <1>1, <2>1 DEF PushStore
    <3> QED BY <1>1, <3>1
  <2>2. CASE pushed' = pushed
    BY <1>1, <2>2
  <2> QED
    BY <2>1, <2>2 DEF PushLockWrite, PushLockRead, PushUnlockRead, PushUnlockWrite, PopLock, PopTake,
       PopNothing, PopResetCurrent, PopResetLast, PopKeep, PopUnlock, TryPopLock, TryPopLook, TryPopUnlock,
       ReadIndex, IsEmptyReturn, IsFullReturn, Conclude, history
<1> QED BY <1>2, <1>3

-----------------------------------------------------------------------------
(* The invariant holds                                                      *)

\* The invariant holds before the first event.
LEMMA LoopInvInit == LoopInit => LoopInv
<1> SUFFICES ASSUME LoopInit PROVE LoopInv
  OBVIOUS
<1> USE MainAssumption DEF LoopInit, Init
<1>1. LoopTypeInv
  BY DEF LoopTypeInv
<1>2. MainInv
  BY DEF MainInv, Taking, BeforeTaking, AfterTaking, Peeking
<1>3. PrefixInv /\ ProgressInv
  BY DEF PrefixInv, ProgressInv
<1> QED BY <1>1, <1>2, <1>3 DEF LoopInv

\* CBAppAddEvent(), outside the methods of the queue.
LEMMA AddingKeeps ==
  ASSUME FifoInv, LoopInv, NEW t \in Threads, TestFull(t) \/ AddEvent(t)
  PROVE  LoopInv'
<1>1. /\ pc \in [Threads -> Steps] /\ obj \in [Threads -> Objects \union {NULL}]
      /\ adding \in [Threads -> {"no", "tested", "pushed"}]
  BY DEF FifoInv, QueueTypeOK, LoopInv, LoopTypeInv
<1>2. /\ UNCHANGED <<running, executed, deleted, pushed, popped>>
      /\ adding' \in [Threads -> {"no", "tested", "pushed"}]
      /\ \A u \in Threads \ {t} : pc'[u] = pc[u] /\ obj'[u] = obj[u] /\ adding'[u] = adding[u]
      /\ pc'[t] \notin Taking
      /\ t = Main => running \in {"iteration", "execute"}
  BY <1>1 DEF TestFull, AddEvent, TestFullAgain, PushEvent, NoEventLeft, Added, AddGoto, MayAdd, Back,
     IsFullCall, Ask, PushCall, Goto, vars, history, Taking, BeforeTaking, AfterTaking, Peeking,
     LoopInv, MainInv
<1>3. LoopTypeInv' /\ PrefixInv'
  BY <1>2 DEF LoopInv, LoopTypeInv, PrefixInv
<1>4. MainInv'
  BY <1>2, MainAssumption DEF LoopInv, MainInv
<1>5. ProgressInv'
  BY <1>2, MainAssumption DEF LoopInv, ProgressInv, NextIs
<1> QED BY <1>3, <1>4, <1>5 DEF LoopInv

\* The methods of the queue, in any thread.
LEMMA MethodsKeep ==
  ASSUME FifoInv, LoopInv, NEW t \in Threads, Step(t), UNCHANGED loopVars
  PROVE  LoopInv'
<1>1. UNCHANGED <<adding, running, executed, deleted>>
  BY DEF loopVars
<1>2. /\ Len(pushed) \in Nat /\ Len(popped) \in Nat /\ Len(executed) \in Nat /\ Len(deleted) \in Nat
      /\ pc \in [Threads -> Steps] /\ obj \in [Threads -> Objects \union {NULL}]
      /\ popped \in Seq(Objects) /\ pushed \in Seq(Objects)
  BY DEF FifoInv, QueueTypeOK, LoopInv, LoopTypeInv
<1>3. Len(pushed') \in Nat /\ Len(pushed) <= Len(pushed') /\ \A n \in 1..Len(pushed) : pushed'[n] = pushed[n]
  <2>1. FifoInv'
    BY StepFifoInv DEF Next
  <2>2. pushed' \in Seq(Objects)
    BY <2>1 DEF FifoInv, QueueTypeOK
  <2>3. Len(pushed') \in Nat
    BY <2>2
  <2> QED BY <2>3, StepEffects
<1>4. LoopTypeInv' /\ PrefixInv'
  <2>1. LoopTypeInv'
    BY <1>1 DEF LoopInv, LoopTypeInv
  <2>2. /\ Len(executed) <= Len(pushed) /\ Len(deleted) <= Len(executed)
        /\ \A n \in 1..Len(executed) : executed[n] = pushed[n]
        /\ \A n \in 1..Len(deleted) : deleted[n] = pushed[n]
    BY DEF LoopInv, PrefixInv
  <2>3. 1..Len(executed) \subseteq 1..Len(pushed) /\ 1..Len(deleted) \subseteq 1..Len(pushed)
    BY <1>2, <2>2
  <2>4. /\ \A n \in 1..Len(executed) : executed[n] = pushed'[n]
        /\ \A n \in 1..Len(deleted) : deleted[n] = pushed'[n]
    BY <1>3, <2>2, <2>3, Zenon
  <2>5. Len(executed) <= Len(pushed')
    BY <1>2, <1>3, <2>2
  <2>6. PrefixInv'
    BY <1>1, <2>2, <2>4, <2>5 DEF PrefixInv
  <2> QED BY <2>1, <2>6
<1>5. CASE t # Main
  <2>1. pc[t] \notin Taking /\ pc[t] # "pop.take"
    BY <1>5 DEF LoopInv, MainInv, Taking, BeforeTaking
  <2>2. pc'[Main] = pc[Main] /\ obj'[Main] = obj[Main] /\ popped' = popped /\ pc'[t] \notin Taking
    BY <1>5, <2>1, StepEffects, MainAssumption
  <2>3. MainInv'
    BY <1>1, <1>5, <2>2, StepEffects DEF LoopInv, MainInv
  <2>4. ProgressInv'
    BY <1>1, <1>2, <1>3, <2>2 DEF LoopInv, ProgressInv, NextIs
  <2> QED BY <1>4, <2>3, <2>4 DEF LoopInv
<1>6. CASE t = Main /\ pc[Main] \notin Taking
  <2>1. pc'[Main] \notin Taking /\ popped' = popped /\ running \notin {"peeked", "popped"}
    <3>1. pc[t] # "pop.take" /\ pc'[Main] \notin Taking
      BY <1>6, StepEffects DEF Taking, BeforeTaking
    <3>2. pc[Main] # "idle"
      BY <1>6 DEF Step, Push, Pop, TryPop, AskSteps, Goto, PushLockWrite, PushLockRead, PushStore,
         PushUnlockRead, PushUnlockWrite, PopLock, PopTake, PopNothing, PopResetCurrent, PopResetLast,
         PopKeep, PopUnlock, TryPopLock, TryPopLook, TryPopUnlock, ReadIndex, IsEmptyReturn,
         IsFullReturn, Conclude
    <3> QED BY <1>6, <3>1, <3>2, StepEffects DEF LoopInv, MainInv, Taking
  <2>2. MainInv'
    BY <1>1, <1>6, <2>1, StepEffects DEF LoopInv, MainInv
  <2>3. ProgressInv'
    BY <1>1, <1>6, <2>1 DEF LoopInv, ProgressInv
  <2> QED BY <1>4, <2>2, <2>3 DEF LoopInv
<1>7. CASE t = Main /\ pc[Main] \in Peeking
  <2>1. /\ running = "peeked" /\ pc[Main] # "pop.take" /\ popped' = popped
        /\ pc'[Main] \in Peeking \union {"idle"}
        /\ TryPop(Main)
    <3>1. running = "peeked" /\ pc[Main] # "pop.take"
      BY <1>7 DEF LoopInv, MainInv, Taking, Peeking, BeforeTaking, AfterTaking
    <3>2. TryPop(Main)
      BY <1>7 DEF Peeking, Step, Push, Pop, AskSteps, Goto, PushLockWrite, PushLockRead, PushStore,
         PushUnlockRead, PushUnlockWrite, PopLock, PopTake, PopNothing, PopResetCurrent, PopResetLast,
         PopKeep, PopUnlock, ReadIndex, IsEmptyReturn, IsFullReturn, Conclude
    <3>3. pc'[Main] \in Peeking \union {"idle"}
      BY <1>2, <3>2, MainAssumption DEF TryPop, TryPopLock, TryPopLook, TryPopUnlock, Goto, Peeking
    <3> QED BY <1>7, <3>1, <3>2, <3>3, StepEffects
  <2>2. MainInv'
    BY <1>1, <1>7, <2>1, StepEffects DEF LoopInv, MainInv
  <2>3. CASE TryPopLook(Main)
    <3>1. obj'[Main] = NULL \/ (iLastAdded # -1 /\ obj'[Main] = elementAt(vec, iCurrent + 1))
      BY <1>2, <2>3, MainAssumption DEF TryPopLook
    <3>2. Calm(Phase)
      <4>1. pc[Main] = "trypop.look"
        BY <2>3 DEF TryPopLook, Goto
      <4>2. Phase = "trypop.look"
        BY <4>1, MainAssumption, PhaseOfReader DEF FifoInv, Reading
      <4> QED BY <4>2 DEF Calm, Resetting
    <3>3. iLastAdded # -1 => /\ Len(popped) + 1 \in 1..Len(pushed)
                             /\ elementAt(vec, iCurrent + 1) = pushed[Len(popped) + 1]
      BY <3>2, FrontIsOldest DEF FifoInv
    <3>4. pushed' = pushed
      BY <2>3 DEF TryPopLook, history
    <3>5. ProgressInv'
      BY <1>1, <2>1, <3>1, <3>3, <3>4 DEF LoopInv, ProgressInv, NextIs
    <3> QED BY <1>4, <2>2, <3>5 DEF LoopInv
  <2>4. CASE TryPopLock(Main) \/ TryPopUnlock(Main)
    <3>1. obj' = obj /\ pushed' = pushed
      BY <2>4 DEF TryPopLock, TryPopUnlock, history
    <3>2. pc[Main] \in {"trypop.lock", "trypop.look"} => pc'[Main] = "trypop.look"
      BY <1>2, <2>4, MainAssumption DEF TryPopLock, TryPopUnlock, Goto
    <3>3. ProgressInv'
      BY <1>1, <2>1, <3>1, <3>2 DEF LoopInv, ProgressInv, NextIs
    <3> QED BY <1>4, <2>2, <3>3 DEF LoopInv
  <2> QED BY <2>1, <2>3, <2>4 DEF TryPop
<1>8. CASE t = Main /\ pc[Main] \in BeforeTaking \union AfterTaking
  <2>1. running = "popped" /\ Pop(Main) /\ Len(executed) = Len(deleted) + 1
    <3>1. running = "popped"
      BY <1>8 DEF LoopInv, MainInv, Taking, Peeking, BeforeTaking, AfterTaking
    <3>2. Pop(Main)
      BY <1>8 DEF BeforeTaking, AfterTaking, Step, Push, TryPop, AskSteps, Goto, PushLockWrite,
         PushLockRead, PushStore, PushUnlockRead, PushUnlockWrite, TryPopLock, TryPopLook, TryPopUnlock,
         ReadIndex, IsEmptyReturn, IsFullReturn, Conclude
    <3> QED BY <3>1, <3>2 DEF LoopInv, ProgressInv
  <2>2. pc'[Main] \in BeforeTaking \union AfterTaking \union {"idle"}
    BY <1>2, <2>1, MainAssumption
       DEF Pop, PopLock, PopTake, PopNothing, PopResetCurrent, PopResetLast, PopKeep, PopUnlock, Goto,
           BeforeTaking, AfterTaking
  <2>3. MainInv'
    BY <1>1, <1>8, <2>1, <2>2, StepEffects DEF LoopInv, MainInv
  <2>4. CASE PopTake(Main)
    <3>1. /\ iLastAdded # -1 /\ obj'[Main] = elementAt(vec, iCurrent + 1)
          /\ popped' = Append(popped, elementAt(vec, iCurrent + 1)) /\ pushed' = pushed
          /\ pc'[Main] = "pop.settle" /\ pc[Main] = "pop.take"
      BY <1>2, <2>4, MainAssumption DEF PopTake, Goto
    <3>2. Calm(Phase)
      <4>1. Phase = "pop.take"
        BY <3>1, MainAssumption, PhaseOfReader DEF FifoInv, Reading
      <4> QED BY <4>1 DEF Calm, Resetting
    <3>3. /\ Len(popped) + 1 \in 1..Len(pushed)
          /\ elementAt(vec, iCurrent + 1) = pushed[Len(popped) + 1]
      BY <3>1, <3>2, FrontIsOldest DEF FifoInv
    <3>4. Len(popped') = Len(popped) + 1
      BY <1>2, <3>1, <3>3
    <3>5. ProgressInv'
      BY <1>1, <1>2, <2>1, <3>1, <3>3, <3>4 DEF LoopInv, ProgressInv, NextIs, BeforeTaking
    <3> QED BY <1>4, <2>3, <3>5 DEF LoopInv
  <2>5. CASE PopNothing(Main)
    <3>1. pc[Main] = "pop.take" /\ iLastAdded = -1
      BY <2>5 DEF PopNothing, Goto
    <3>2. Phase = "pop.take"
      BY <3>1, MainAssumption, PhaseOfReader DEF FifoInv, Reading
    <3>3. Len(pushed) = Len(popped) + (iLastAdded - iCurrent) /\ iCurrent >= -1
      BY <3>2 DEF FifoInv, SlotInv, IndexInv, Backlog, Resetting
    <3>4. Len(popped) < Len(pushed)
      BY <1>2, <2>1, <3>1 DEF LoopInv, ProgressInv, PrefixInv, BeforeTaking
    <3> QED BY <1>2, <3>1, <3>3, <3>4 DEF FifoInv, QueueTypeOK
  <2>6. CASE PopLock(Main)
    <3>1. pc[Main] \in BeforeTaking /\ pc'[Main] \in BeforeTaking /\ popped' = popped
      BY <1>2, <2>6, MainAssumption DEF PopLock, Goto, BeforeTaking, history
    <3>2. ProgressInv'
      BY <1>1, <2>1, <3>1 DEF LoopInv, ProgressInv
    <3> QED BY <1>4, <2>3, <3>2 DEF LoopInv
  <2>7. CASE PopResetCurrent(Main) \/ PopResetLast(Main) \/ PopKeep(Main) \/ PopUnlock(Main)
    <3>1. /\ pc[Main] \notin BeforeTaking /\ pc'[Main] \notin BeforeTaking
          /\ UNCHANGED <<popped, pushed, obj>>
      BY <1>2, <2>7, MainAssumption
         DEF PopResetCurrent, PopResetLast, PopKeep, PopUnlock, Goto, BeforeTaking, history
    <3>2. ProgressInv'
      BY <1>1, <2>1, <3>1 DEF LoopInv, ProgressInv, NextIs
    <3> QED BY <1>4, <2>3, <3>2 DEF LoopInv
  <2> QED BY <2>1, <2>4, <2>5, <2>6, <2>7 DEF Pop
<1> QED BY <1>5, <1>6, <1>7, <1>8 DEF Taking

\* CBAppRun(), outside the methods of the queue.
LEMMA RunningKeeps ==
  ASSUME FifoInv, LoopInv, Run
  PROVE  LoopInv'
<1>1. /\ Len(pushed) \in Nat /\ Len(popped) \in Nat /\ Len(executed) \in Nat /\ Len(deleted) \in Nat
      /\ pc \in [Threads -> Steps] /\ obj \in [Threads -> Objects \union {NULL}]
      /\ pushed \in Seq(Objects) /\ executed \in Seq(Objects) /\ deleted \in Seq(Objects)
  BY DEF FifoInv, QueueTypeOK, LoopInv, LoopTypeInv
<1> USE MainAssumption DEF RunGoto, Back
<1>2. /\ UNCHANGED <<adding, pushed, popped>> /\ adding[Main] = "no" /\ pc[Main] = "idle"
      /\ \A u \in Threads \ {Main} : pc'[u] = pc[u]
  BY <1>1 DEF Run, Iterate, TestEmpty, Leave, NothingToDo, PeekEvent, ExecuteEvent, PopEvent, DeleteEvent,
     IsEmptyCall, Ask, TryPopCall, PopCall, Goto, vars, history
<1>3. CASE Iterate \/ TestEmpty \/ Leave \/ NothingToDo
  <2>1. /\ running \in {"test", "iteration", "tested"} /\ running' \in {"test", "iteration", "tested", "left"}
        /\ UNCHANGED <<executed, deleted>> /\ pc'[Main] \notin Taking
    BY <1>1, <1>3 DEF Iterate, TestEmpty, Leave, NothingToDo, IsEmptyCall, Ask, Goto, vars,
       Taking, BeforeTaking, AfterTaking, Peeking
  <2>2. LoopTypeInv' /\ MainInv' /\ PrefixInv'
    BY <1>2, <2>1 DEF LoopInv, LoopTypeInv, MainInv, PrefixInv
  <2>3. ProgressInv'
    BY <1>2, <2>1 DEF LoopInv, ProgressInv
  <2> QED BY <2>2, <2>3 DEF LoopInv
<1>4. CASE PeekEvent
  <2>1. /\ running = "tested" /\ running' = "peeked" /\ UNCHANGED <<executed, deleted>>
        /\ pc'[Main] = "trypop.lock"
    BY <1>1, <1>4 DEF PeekEvent, TryPopCall, Goto
  <2>2. LoopTypeInv' /\ MainInv' /\ PrefixInv'
    BY <1>2, <2>1 DEF LoopInv, LoopTypeInv, MainInv, PrefixInv, Peeking
  <2>3. ProgressInv'
    BY <1>2, <2>1 DEF LoopInv, ProgressInv
  <2> QED BY <2>2, <2>3 DEF LoopInv
<1>5. CASE ExecuteEvent /\ obj[Main] = NULL
  <2>1. running = "peeked" /\ running' = "test" /\ UNCHANGED <<executed, deleted, pc>>
    BY <1>5 DEF ExecuteEvent, vars
  <2>2. LoopTypeInv' /\ MainInv' /\ PrefixInv'
    BY <1>2, <2>1 DEF LoopInv, LoopTypeInv, MainInv, PrefixInv, Taking, BeforeTaking, AfterTaking, Peeking
  <2>3. ProgressInv'
    BY <1>2, <2>1 DEF LoopInv, ProgressInv
  <2> QED BY <2>2, <2>3 DEF LoopInv
<1>6. CASE ExecuteEvent /\ obj[Main] # NULL
  <2>1. /\ running = "peeked" /\ running' = "execute" /\ UNCHANGED <<deleted, pc, obj>>
        /\ executed' = Append(executed, obj[Main]) /\ obj[Main] \in Objects
    BY <1>1, <1>6 DEF ExecuteEvent, vars
  <2>2. Len(executed) = Len(deleted) /\ Len(popped) = Len(deleted) /\ NextIs(Len(popped) + 1)
    BY <1>2, <1>6, <2>1 DEF LoopInv, ProgressInv
  <2>3. /\ executed' \in Seq(Objects) /\ Len(executed') = Len(executed) + 1
        /\ \A n \in 1..Len(executed) : executed'[n] = executed[n]
        /\ executed'[Len(executed) + 1] = obj[Main]
    BY <1>1, <2>1
  <2>4. LoopTypeInv' /\ MainInv'
    BY <1>2, <2>1, <2>3 DEF LoopInv, LoopTypeInv, MainInv, Taking, BeforeTaking, AfterTaking, Peeking
  <2>5. \A n \in 1..Len(executed') : executed'[n] = pushed[n]
    <3> SUFFICES ASSUME NEW n \in 1..Len(executed') PROVE executed'[n] = pushed[n]
      OBVIOUS
    <3>1. n = Len(executed) + 1 \/ n \in 1..Len(executed)
      BY <1>1, <2>3
    <3> QED BY <2>2, <2>3, <3>1 DEF LoopInv, PrefixInv, NextIs
  <2>6. PrefixInv'
    BY <1>1, <1>2, <2>1, <2>2, <2>3, <2>5 DEF LoopInv, PrefixInv, NextIs
  <2>7. ProgressInv'
    BY <1>1, <1>2, <2>1, <2>2, <2>3 DEF ProgressInv
  <2> QED BY <2>4, <2>6, <2>7 DEF LoopInv
<1>7. CASE PopEvent
  <2>1. /\ running = "execute" /\ running' = "popped" /\ UNCHANGED <<executed, deleted>>
        /\ pc'[Main] = "pop.lock"
    BY <1>1, <1>7 DEF PopEvent, PopCall, Goto
  <2>2. LoopTypeInv' /\ MainInv' /\ PrefixInv'
    BY <1>2, <2>1 DEF LoopInv, LoopTypeInv, MainInv, PrefixInv, BeforeTaking
  <2>3. ProgressInv'
    BY <1>2, <2>1 DEF LoopInv, ProgressInv, BeforeTaking
  <2> QED BY <2>2, <2>3 DEF LoopInv
<1>8. CASE DeleteEvent
  <2>1. /\ running = "popped" /\ running' = "test" /\ UNCHANGED <<executed, pc>>
        /\ deleted' = Append(deleted, obj[Main])
    BY <1>8 DEF DeleteEvent, vars
  <2>2. /\ Len(executed) = Len(deleted) + 1 /\ Len(popped) = Len(deleted) + 1 /\ NextIs(Len(popped))
    BY <1>2, <2>1 DEF LoopInv, ProgressInv, BeforeTaking
  <2>3. obj[Main] \in Objects /\ obj[Main] = pushed[Len(deleted) + 1]
    BY <1>1, <2>2 DEF NextIs
  <2>4. /\ deleted' \in Seq(Objects) /\ Len(deleted') = Len(deleted) + 1
        /\ \A n \in 1..Len(deleted) : deleted'[n] = deleted[n]
        /\ deleted'[Len(deleted) + 1] = obj[Main]
    BY <1>1, <2>1, <2>3
  <2>5. LoopTypeInv' /\ MainInv'
    BY <1>2, <2>1, <2>4 DEF LoopInv, LoopTypeInv, MainInv, Taking, BeforeTaking, AfterTaking, Peeking
  <2>6. \A n \in 1..Len(deleted') : deleted'[n] = pushed[n]
    <3> SUFFICES ASSUME NEW n \in 1..Len(deleted') PROVE deleted'[n] = pushed[n]
      OBVIOUS
    <3>1. n = Len(deleted) + 1 \/ n \in 1..Len(deleted)
      BY <1>1, <2>4
    <3> QED BY <2>3, <2>4, <3>1 DEF LoopInv, PrefixInv
  <2>7. PrefixInv'
    BY <1>1, <1>2, <2>1, <2>2, <2>4, <2>6 DEF LoopInv, PrefixInv
  <2>8. ProgressInv'
    BY <1>1, <1>2, <2>1, <2>2, <2>4 DEF ProgressInv
  <2> QED BY <2>5, <2>7, <2>8 DEF LoopInv
<1> QED BY <1>3, <1>4, <1>5, <1>6, <1>7, <1>8 DEF Run

\* CBApp.cpp:75-78: CBAppRun() deletes what pop() returns after executing what trypop()
\* returned, with other threads adding in between, and it is the same event: each is
\* deleted only after it was executed, once, in the order of adding.
THEOREM DeletedIsExecuted == LoopSpec => []ExecutedThenDeleted
<1>1. FifoInv /\ LoopInv /\ [LoopNext]_allVars => LoopInv'
  <2> SUFFICES ASSUME FifoInv, LoopInv, [LoopNext]_allVars PROVE LoopInv'
    OBVIOUS
  <2>1. CASE UNCHANGED <<pc, obj, history, adding, running, executed, deleted>>
    BY <2>1 DEF history, LoopInv, LoopTypeInv, MainInv, PrefixInv, ProgressInv, NextIs
  <2> QED BY <2>1, AddingKeeps, MethodsKeep, RunningKeeps DEF LoopNext, Close, allVars, vars, loopVars
<1>2. LoopTypeInv /\ PrefixInv => ExecutedThenDeleted
  BY DEF LoopTypeInv, PrefixInv, ExecutedThenDeleted, Prefix
<1>3. LoopInv => LoopTypeInv /\ PrefixInv
  BY DEF LoopInv
<1> QED BY LoopInvInit, LoopUsesTheQueue, <1>1, <1>2, <1>3, PTL DEF LoopSpec, LoopSafety
=============================================================================
