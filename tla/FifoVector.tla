----------------------------- MODULE FifoVector -----------------------------
(***************************************************************************)
(* Groundfloor::FifoVector (Groundfloor/Materials/FifoVector.{h,cpp}): the *)
(* queue between threads, a Vector with two indices and two mutexes.       *)
(*                                                                         *)
(* Any thread may call any method at any time.  A method is a sequence of  *)
(* steps; a step is what the code does between two points at which another *)
(* thread can observe or disturb it: taking and releasing a mutex, and     *)
(* reading and writing iCurrent and iLastAdded, which isEmpty() and        *)
(* isFull() read without a mutex.  Those reads and the two writes that     *)
(* reset the indices are unordered in the code (plain ints, no barrier),   *)
(* so both orders are steps here.  Slots are only touched under aReadLock. *)
(***************************************************************************)
EXTENDS Integers, Sequences, Vector

CONSTANTS Threads,      \* the threads that share the queue
          Objects,      \* the objects pushed; each is pushed at most once
          PreAlloc      \* iPreAllocateCount of the vector

ASSUME FifoAssumption ==
  /\ NULL \notin Threads \union Objects
  /\ PreAlloc \in Nat \ {0}

VARIABLES
  vec,                  \* the Vector part
  iCurrent,             \* slot of the last object popped, -1 if none
  iLastAdded,           \* slot of the last object pushed, -1 if none
  aReadLock,            \* the thread that holds the mutex, or NULL
  aWriteLock,
  pc,                   \* the step a thread is at
  obj,                  \* the argument of push(); the result of pop(), trypop()
  unread,               \* the indices isEmpty()/isFull() still has to read
  seen,                 \* the values it read
  answer,               \* what the last isEmpty()/isFull() said
  pushed,               \* history: the objects stored, in order
  popped,               \* history: the objects taken, in order
  since                 \* history: how far both were when the call began

fifo    == <<vec, iCurrent, iLastAdded>>
locks   == <<aReadLock, aWriteLock>>
asking  == <<unread, seen, answer, since>>
history == <<pushed, popped>>
vars    == <<fifo, locks, pc, obj, asking, history>>

Indices == {"iCurrent", "iLastAdded"}

Goto(t, from, to) == pc[t] = from /\ pc' = [pc EXCEPT ![t] = to]

(***************************************************************************)
(* The mutexes (Lockable, infinite wait).                                  *)
(***************************************************************************)
\* Mutant: the mutex is entered without waiting for it.
LockReadRegardless(t) == aReadLock' = t /\ UNCHANGED aWriteLock

LockRead(t)    == aReadLock = NULL /\ aReadLock' = t /\ UNCHANGED aWriteLock
LockWrite(t)   == aWriteLock = NULL /\ aWriteLock' = t /\ UNCHANGED aReadLock
UnlockRead(t)  == aReadLock' = NULL /\ UNCHANGED aWriteLock
UnlockWrite(t) == aWriteLock' = NULL /\ UNCHANGED aReadLock

(***************************************************************************)
(* push(obj)                                                               *)
(***************************************************************************)

\* The condition on which push() lets go of aReadLock, sleeps and tries again.
MustWait == iLastAdded < iCurrent /\ iLastAdded + 1 = iCurrent

\* The last slot is in use and the first one is not: go on in the first slot.
MustWrap == iLastAdded >= iCurrent /\ iCurrent > 0 /\ iLastAdded = vec.allocated

\* The vector after push(x) and the slot that x went to.
Stored(x) ==
  CASE MustWrap              -> replaceElement(vec, 0, x)
    [] iLastAdded < iCurrent -> replaceElement(vec, iLastAdded + 1, x)
    [] OTHER                 -> IF iLastAdded + 1 < vec.allocated
                                THEN insertAt(vec, iLastAdded + 1, x)
                                ELSE addElement(vec, x)
\* Mutant: iLastAdded is not counted up.
StoredAtUncounted == IF MustWrap THEN 0 ELSE iLastAdded

StoredAt == IF MustWrap THEN 0 ELSE iLastAdded + 1

PushCall(t, x) ==
  /\ Goto(t, "idle", "push.lockWrite")
  /\ obj' = [obj EXCEPT ![t] = x]
  /\ UNCHANGED <<fifo, locks, asking, history>>

PushLockWrite(t) ==
  /\ Goto(t, "push.lockWrite", "push.lockRead")
  /\ LockWrite(t)
  /\ UNCHANGED <<fifo, obj, asking, history>>

\* The loop that waits for space is the guard: it holds the mutex only to test it.
PushLockRead(t) ==
  /\ Goto(t, "push.lockRead", "push.store")
  /\ ~MustWait
  /\ LockRead(t)
  /\ UNCHANGED <<fifo, obj, asking, history>>

PushStore(t) ==
  /\ Goto(t, "push.store", "push.unlockRead")
  /\ vec' = Stored(obj[t])
  /\ iLastAdded' = StoredAt
  /\ pushed' = Append(pushed, obj[t])
  /\ UNCHANGED <<iCurrent, locks, obj, asking, popped>>

PushUnlockRead(t) ==
  /\ Goto(t, "push.unlockRead", "push.unlockWrite")
  /\ UnlockRead(t)
  /\ UNCHANGED <<fifo, obj, asking, history>>

PushUnlockWrite(t) ==
  /\ Goto(t, "push.unlockWrite", "idle")
  /\ UnlockWrite(t)
  /\ obj' = [obj EXCEPT ![t] = NULL]
  /\ UNCHANGED <<fifo, asking, history>>

Push(t) == \/ PushLockWrite(t) \/ PushLockRead(t) \/ PushStore(t)
           \/ PushUnlockRead(t) \/ PushUnlockWrite(t)

(***************************************************************************)
(* pop() and trypop()                                                      *)
(***************************************************************************)

PopCall(t) ==
  /\ Goto(t, "idle", "pop.lock")
  /\ obj' = [obj EXCEPT ![t] = NULL]
  /\ UNCHANGED <<fifo, locks, asking, history>>

PopLock(t) ==
  /\ Goto(t, "pop.lock", "pop.take")
  /\ LockRead(t)
  /\ UNCHANGED <<fifo, obj, asking, history>>

\* There is an object: take it out of its slot and move iCurrent on.
PopTake(t) ==
  /\ Goto(t, "pop.take", "pop.settle")
  /\ iLastAdded # -1
  /\ obj' = [obj EXCEPT ![t] = elementAt(vec, iCurrent + 1)]
  /\ vec' = replaceElement(vec, iCurrent + 1, NULL)
  /\ iCurrent' = IF iCurrent + 1 = size(vec) THEN -1 ELSE iCurrent + 1
  /\ popped' = Append(popped, elementAt(vec, iCurrent + 1))
  /\ UNCHANGED <<iLastAdded, locks, asking, pushed>>

\* The queue is empty.
PopNothing(t) ==
  /\ Goto(t, "pop.take", "pop.unlock")
  /\ iLastAdded = -1
  /\ obj' = [obj EXCEPT ![t] = NULL]
  /\ UNCHANGED <<fifo, locks, asking, history>>

\* Mutant: only iLastAdded is reset with the last object.
PopResetCurrentForgotten(t) ==
  /\ \/ Goto(t, "pop.settle", "pop.resetLast") /\ iCurrent = iLastAdded
     \/ Goto(t, "pop.resetCurrent", "pop.unlock")
  /\ UNCHANGED <<fifo, locks, obj, asking, history>>

\* That was the last object: both indices are reset, in either order.
PopResetCurrent(t) ==
  /\ \/ Goto(t, "pop.settle", "pop.resetLast") /\ iCurrent = iLastAdded
     \/ Goto(t, "pop.resetCurrent", "pop.unlock")
  /\ iCurrent' = -1
  /\ UNCHANGED <<vec, iLastAdded, locks, obj, asking, history>>

PopResetLast(t) ==
  /\ \/ Goto(t, "pop.settle", "pop.resetCurrent") /\ iCurrent = iLastAdded
     \/ Goto(t, "pop.resetLast", "pop.unlock")
  /\ iLastAdded' = -1
  /\ UNCHANGED <<vec, iCurrent, locks, obj, asking, history>>

PopKeep(t) ==
  /\ Goto(t, "pop.settle", "pop.unlock")
  /\ iCurrent # iLastAdded
  /\ UNCHANGED <<fifo, locks, obj, asking, history>>

\* The scope guard of pop() releases the mutex.
PopUnlock(t) ==
  /\ Goto(t, "pop.unlock", "idle")
  /\ UnlockRead(t)
  /\ UNCHANGED <<fifo, obj, asking, history>>

Pop(t) == \/ PopLock(t) \/ PopTake(t) \/ PopNothing(t) \/ PopResetCurrent(t)
          \/ PopResetLast(t) \/ PopKeep(t) \/ PopUnlock(t)

TryPopCall(t) ==
  /\ Goto(t, "idle", "trypop.lock")
  /\ obj' = [obj EXCEPT ![t] = NULL]
  /\ UNCHANGED <<fifo, locks, asking, history>>

TryPopLock(t) ==
  /\ Goto(t, "trypop.lock", "trypop.look")
  /\ LockRead(t)
  /\ UNCHANGED <<fifo, obj, asking, history>>

\* Mutant: trypop() looks at the newest object, not at the oldest.
TryPopLookNewest(t) ==
  /\ Goto(t, "trypop.look", "trypop.unlock")
  /\ obj' = [obj EXCEPT ![t] = IF iLastAdded # -1
                               THEN elementAt(vec, iLastAdded) ELSE NULL]
  /\ UNCHANGED <<fifo, locks, asking, history>>

TryPopLook(t) ==
  /\ Goto(t, "trypop.look", "trypop.unlock")
  /\ obj' = [obj EXCEPT ![t] = IF iLastAdded # -1
                               THEN elementAt(vec, iCurrent + 1) ELSE NULL]
  /\ UNCHANGED <<fifo, locks, asking, history>>

TryPopUnlock(t) ==
  /\ Goto(t, "trypop.unlock", "idle")
  /\ UnlockRead(t)
  /\ UNCHANGED <<fifo, obj, asking, history>>

TryPop(t) == TryPopLock(t) \/ TryPopLook(t) \/ TryPopUnlock(t)

(***************************************************************************)
(* isEmpty() and isFull(): two reads, no mutex.                            *)
(***************************************************************************)

\* Where the holder of aReadLock is in its method.
Phase == IF aReadLock = NULL THEN "free" ELSE pc[aReadLock]

\* The objects popped by calls of pop() that are done with the indices.
Settled ==
  IF Phase \in {"pop.settle", "pop.resetLast", "pop.resetCurrent"}
  THEN Len(popped) - 1
  ELSE Len(popped)

Ask(t, what) ==
  /\ Goto(t, "idle", what)
  /\ unread' = [unread EXCEPT ![t] = Indices]
  /\ since' = [since EXCEPT ![t] = [pushed |-> Len(pushed), popped |-> Settled]]
  /\ answer' = [answer EXCEPT ![t] = "none"]
  /\ UNCHANGED <<fifo, locks, obj, seen, history>>

IsEmptyCall(t) == Ask(t, "isEmpty")
IsFullCall(t)  == Ask(t, "isFull")

ReadIndex(t, index) ==
  /\ pc[t] \in {"isEmpty", "isFull"}
  /\ index \in unread[t]
  /\ unread' = [unread EXCEPT ![t] = @ \ {index}]
  /\ seen' = [seen EXCEPT ![t] = [@ EXCEPT ![index] =
                IF index = "iCurrent" THEN iCurrent ELSE iLastAdded]]
  /\ UNCHANGED <<fifo, locks, pc, obj, answer, since, history>>

NothingSeen == [index \in Indices |-> -1]
Unknown == [pushed |-> 0, popped |-> 0]

Conclude(t, what, conclusion) ==
  /\ Goto(t, what, "idle")
  /\ unread[t] = {}
  /\ answer' = [answer EXCEPT ![t] = conclusion]
  /\ seen' = [seen EXCEPT ![t] = NothingSeen]
  /\ since' = [since EXCEPT ![t] = Unknown]
  /\ UNCHANGED <<fifo, locks, obj, unread, history>>

\* Mutant: one index that is reset is enough for the queue to be empty.
IsEmptyReturnEither(t) ==
  Conclude(t, "isEmpty",
           IF seen[t].iCurrent = -1 \/ seen[t].iLastAdded = -1
           THEN "empty" ELSE "not empty")

IsEmptyReturn(t) ==
  Conclude(t, "isEmpty",
           IF seen[t].iCurrent = -1 /\ seen[t].iLastAdded = -1
           THEN "empty" ELSE "not empty")

IsFullReturn(t) ==
  Conclude(t, "isFull",
           IF seen[t].iLastAdded + 1 = seen[t].iCurrent
           THEN "full" ELSE "not full")

AskSteps(t) == \/ \E index \in Indices : ReadIndex(t, index)
               \/ IsEmptyReturn(t) \/ IsFullReturn(t)

(***************************************************************************)
(* The specification: any thread, any method, in any order.                *)
(***************************************************************************)
Init ==
  /\ vec = EmptyVector(PreAlloc)
  /\ iCurrent = -1
  /\ iLastAdded = -1
  /\ aReadLock = NULL
  /\ aWriteLock = NULL
  /\ pc = [t \in Threads |-> "idle"]
  /\ obj = [t \in Threads |-> NULL]
  /\ unread = [t \in Threads |-> {}]
  /\ seen = [t \in Threads |-> NothingSeen]
  /\ answer = [t \in Threads |-> "none"]
  /\ pushed = <<>>
  /\ popped = <<>>
  /\ since = [t \in Threads |-> Unknown]

\* The objects no push() has been given yet.
Fresh == {x \in Objects : /\ \A n \in 1..Len(pushed) : pushed[n] # x
                          /\ \A t \in Threads : obj[t] # x}

Call(t) == \/ \E x \in Fresh : PushCall(t, x)
           \/ PopCall(t) \/ TryPopCall(t) \/ IsEmptyCall(t) \/ IsFullCall(t)

Step(t) == Push(t) \/ Pop(t) \/ TryPop(t) \/ AskSteps(t)

Next == \E t \in Threads : Call(t) \/ Step(t)

Spec == Init /\ [][Next]_vars

(***************************************************************************)
(* Properties.                                                             *)
(***************************************************************************)
Reading == {"push.store", "push.unlockRead", "pop.take", "pop.settle",
            "pop.resetLast", "pop.resetCurrent", "pop.unlock",
            "trypop.look", "trypop.unlock"}
Writing == {"push.lockRead", "push.store", "push.unlockRead", "push.unlockWrite"}
Resetting == {"pop.resetLast", "pop.resetCurrent"}
Steps   == Reading \union Writing \union
           {"idle", "push.lockWrite", "pop.lock", "trypop.lock", "isEmpty", "isFull"}

\* Every variable has the type its C++ declaration gives it: the queue itself
\* and the threads in push() and pop(), then those in isEmpty() and isFull().
QueueTypeOK ==
  /\ vec \in Vectors(Objects)
  /\ iCurrent \in Nat \union {-1}
  /\ iLastAdded \in Nat \union {-1}
  /\ aReadLock \in Threads \union {NULL}
  /\ aWriteLock \in Threads \union {NULL}
  /\ pc \in [Threads -> Steps]
  /\ obj \in [Threads -> Objects \union {NULL}]
  /\ pushed \in Seq(Objects)
  /\ popped \in Seq(Objects)

AskTypeOK ==
  /\ unread \in [Threads -> SUBSET Indices]
  /\ seen \in [Threads -> [Indices -> Nat \union {-1}]]
  /\ answer \in [Threads -> {"none", "empty", "not empty", "full", "not full"}]
  /\ since \in [Threads -> [pushed: Nat, popped: Int]]

TypeOK == QueueTypeOK /\ AskTypeOK

\* The number of objects the indices say are in the queue.
Backlog == IF Phase \in Resetting THEN 0 ELSE iLastAdded - iCurrent

Contents == [n \in 1..Backlog |-> elementAt(vec, iCurrent + n)]

\* First in, first out, nothing lost, nothing twice: what was pushed is what
\* was popped, followed by what the slots between the indices hold.
FifoOrder == pushed = popped \o Contents

\* push() (FifoVector.cpp:38-60) never takes the branch that goes on in the
\* first slot nor the branch that waits: the indices never cross, so the
\* vector grows where the ring would wrap.
NeverWrapsNorWaits ==
  \A t \in Threads : pc[t] \in {"push.lockRead", "push.store"} =>
      \/ aReadLock \notin {NULL, t}
      \/ iLastAdded >= iCurrent /\ ~MustWrap

\* isEmpty() (FifoVector.cpp:26-28) reads two indices without the mutex.  When
\* it says the queue is empty, all that was in it when the call began is out;
\* when it says it is not, something was in it that no finished pop() took.
EmptyAnswerIsTrue ==
  [][\A t \in Threads : IsEmptyReturn(t) =>
       IF answer'[t] = "empty"
       THEN Len(popped) >= since[t].pushed
       ELSE Len(pushed) > since[t].popped]_vars

\* The inductive invariant those properties rest on.  A mutex is held by the
\* thread that is in the part of a method it guards ...
LockInv ==
  /\ \A t \in Threads : (aReadLock = t) <=> (pc[t] \in Reading)
  /\ \A t \in Threads : (aWriteLock = t) <=> (pc[t] \in Writing)
  /\ \A t \in Threads : pc[t] \in {"push.lockWrite", "push.lockRead", "push.store"}
                            => obj[t] \in Objects

\* ... the indices are ordered and inside the vector, and equal only when both
\* are reset or a pop() is about to reset them ...
IndexInv ==
  /\ vec.prealloc > 0
  /\ size(vec) <= vec.allocated
  /\ -1 <= iCurrent /\ iCurrent < size(vec)
  /\ -1 <= iLastAdded /\ iLastAdded < size(vec)
  /\ Phase \notin Resetting => iCurrent <= iLastAdded
  /\ Phase \notin Resetting \union {"pop.settle"} =>
       (iCurrent = iLastAdded => iLastAdded = -1)
  /\ Phase = "pop.settle" => iCurrent >= 0
  /\ Phase = "pop.resetLast" => iCurrent = -1
  /\ Phase = "pop.resetCurrent" => iLastAdded = -1

\* ... and the slots after iCurrent, up to iLastAdded, hold what was pushed and
\* not popped; all other slots are NULL, so that insertAt() shifts nothing.
SlotInv ==
  /\ Len(pushed) = Len(popped) + Backlog
  /\ \A n \in 1..Len(popped) : popped[n] = pushed[n]
  /\ \A n \in 1..Backlog : vec.elems[iCurrent + 1 + n] = pushed[Len(popped) + n]
  /\ \A n \in 1..size(vec) :
       n \notin iCurrent + 2 .. iCurrent + 1 + Backlog => vec.elems[n] = NULL

FifoInv == QueueTypeOK /\ LockInv /\ IndexInv /\ SlotInv

\* The result of a call, as its thread sees it: an argument of push() is none.
Results == [t \in Threads |->
              IF pc[t] \in {"pop.settle", "pop.resetLast", "pop.resetCurrent", "pop.unlock",
                            "trypop.unlock", "idle", "isEmpty", "isFull"}
              THEN obj[t] ELSE NULL]

Queue == INSTANCE FifoQueue WITH queue <- Contents, got <- Results

\* FifoVector.h:39 and 41: pop() removes the object that was pushed first,
\* trypop() only returns it, and the steps of one call that others see amount
\* to a single operation on a queue.
ImplementsQueue == Queue!Spec

=============================================================================
