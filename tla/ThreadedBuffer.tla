--------------------------- MODULE ThreadedBuffer ---------------------------
(***************************************************************************)
(* Groundfloor::ThreadedBuffer (Groundfloor/Materials/ThreadedBuffer.cpp): *)
(* a Thread whose execute() hands the objects of a queue one by one to     *)
(* processObject(), which a derived class (FileWriter, StringWriter,       *)
(* ThreadedSender) implements.                                             *)
(*                                                                         *)
(* The module extends Thread the way the class does: controllers and the   *)
(* native thread take the steps of Thread, and the one step `execute` is   *)
(* refined here into the steps of ThreadedBuffer::execute().  aBuffer is   *)
(* the queue FifoVector implements (FifoQueue): all its uses but isEmpty() *)
(* are under lockBuffer.                                                   *)
(***************************************************************************)
EXTENDS Thread, Sequences

CONSTANTS Producers,    \* threads that call add()
          Objects,      \* the objects added; each is added at most once
          NULL,
          Policies      \* when owners destroy the object: when it is "stopped", as
                        \* soon as it is "empty" (FileWriter.h:36), at "any" time

ASSUME BufferAssumption ==
  /\ NULL \notin Producers \union Objects \union Loops
  /\ Producers \intersect Loops = {}
  /\ Policies \subseteq {"stopped", "empty", "any"}

VARIABLES
  lockBuffer,           \* the thread that holds the mutex, or NULL
  aBuffer,              \* the objects added and not yet popped
  bDeleteAfterProcess, bStopWhenEmpty,
  body,                 \* where each native thread is in execute()
  adding,               \* the object each producer is adding, or NULL
  whole,                \* the derived class is not destroyed yet
  policy,               \* when the owner will destroy it, one of Policies
  added,                \* history: the objects added, in order
  processed,            \* history: the objects processObject() accepted
  deleted,              \* history: the objects execute() deleted
  promised,             \* history: objects added when bStopWhenEmpty was set
  stopped               \* history: someone called stop()

bufferVars == <<lockBuffer, aBuffer, bDeleteAfterProcess, bStopWhenEmpty, body, adding,
                whole, policy, added, processed, deleted, promised, stopped>>
tbVars     == <<threadVars, bufferVars>>

TBInit ==
  /\ ThreadInit
  /\ lockBuffer = NULL
  /\ aBuffer = <<>>
  /\ bDeleteAfterProcess \in BOOLEAN      \* set once, before the thread starts
  /\ bStopWhenEmpty = FALSE
  /\ body = [l \in Loops |-> "begin"]
  /\ adding = [p \in Producers |-> NULL]
  /\ whole = TRUE
  /\ policy \in Policies
  /\ added = <<>>
  /\ processed = <<>>
  /\ deleted = {}
  /\ promised = 0
  /\ stopped = FALSE

Elements(s) == {s[n] : n \in 1..Len(s)}

\* The objects nobody has added yet.
Fresh == {x \in Objects : x \notin Elements(added) /\ \A p \in Producers : adding[p] # x}

(***************************************************************************)
(* add(obj), in a producer                                                 *)
(***************************************************************************)
AddCall(p, x) ==
  /\ whole
  /\ adding[p] = NULL
  /\ adding' = [adding EXCEPT ![p] = x]
  /\ UNCHANGED <<threadVars, lockBuffer, aBuffer, bDeleteAfterProcess, bStopWhenEmpty, body,
                 whole, policy, added, processed, deleted, promised, stopped>>

AddLock(p) ==
  /\ adding[p] # NULL
  /\ lockBuffer = NULL
  /\ lockBuffer' = p
  /\ UNCHANGED <<threadVars, aBuffer, bDeleteAfterProcess, bStopWhenEmpty, body, adding,
                 whole, policy, added, processed, deleted, promised, stopped>>

AddPush(p) ==
  /\ lockBuffer = p /\ adding[p] \notin Elements(added)
  /\ aBuffer' = Append(aBuffer, adding[p])
  /\ added' = Append(added, adding[p])
  /\ UNCHANGED <<threadVars, lockBuffer, bDeleteAfterProcess, bStopWhenEmpty, body, adding,
                 whole, policy, processed, deleted, promised, stopped>>

AddUnlock(p) ==
  /\ lockBuffer = p /\ adding[p] \in Elements(added)
  /\ lockBuffer' = NULL
  /\ adding' = [adding EXCEPT ![p] = NULL]
  /\ UNCHANGED <<threadVars, aBuffer, bDeleteAfterProcess, bStopWhenEmpty, body,
                 whole, policy, added, processed, deleted, promised, stopped>>

(***************************************************************************)
(* execute(), in the native thread l                                       *)
(***************************************************************************)
BodyGoto(l, from, to) ==
  /\ loop[l] = "execute" /\ body[l] = from
  /\ body' = [body EXCEPT ![l] = to]
  /\ UNCHANGED <<bDeleteAfterProcess, bStopWhenEmpty, adding, whole, policy, promised>>

ExecuteLock(l) ==
  /\ BodyGoto(l, "begin", "locked")
  /\ lockBuffer = NULL
  /\ lockBuffer' = l
  /\ UNCHANGED <<threadVars, aBuffer, added, processed, deleted, stopped>>

\* The buffer is not empty: processObject() begins with the oldest object.
ProcessBegin(l) ==
  /\ BodyGoto(l, "locked", "process")
  /\ aBuffer # <<>>
  /\ UNCHANGED <<threadVars, lockBuffer, aBuffer, added, processed, deleted, stopped>>

NothingToProcess(l) ==
  /\ BodyGoto(l, "locked", "check")
  /\ aBuffer = <<>>
  /\ UNCHANGED <<threadVars, lockBuffer, aBuffer, added, processed, deleted, stopped>>

\* processObject() adds another object: the mutex is recursive.
ProcessAdds(l, x) ==
  /\ BodyGoto(l, "process", "process")
  /\ aBuffer' = Append(aBuffer, x)
  /\ added' = Append(added, x)
  /\ UNCHANGED <<threadVars, lockBuffer, processed, deleted, stopped>>

\* processObject() calls stop().
ProcessStops(l) ==
  /\ BodyGoto(l, "process", "process")
  /\ ExecuteStop(l)
  /\ stopped' = TRUE
  /\ UNCHANGED <<lockBuffer, aBuffer, added, processed, deleted>>

\* processObject() returns true.
ProcessTrue(l) ==
  /\ BodyGoto(l, "process", "pop")
  /\ processed' = Append(processed, Head(aBuffer))
  /\ UNCHANGED <<threadVars, lockBuffer, aBuffer, added, deleted, stopped>>

\* Mutant: an object that was not processed is popped.
ProcessFalsePops(l) ==
  /\ BodyGoto(l, "process", "pop")
  /\ UNCHANGED <<threadVars, lockBuffer, aBuffer, added, processed, deleted, stopped>>

\* processObject() returns false: the object stays where it is.
ProcessFalse(l) ==
  /\ BodyGoto(l, "process", "check")
  /\ UNCHANGED <<threadVars, lockBuffer, aBuffer, added, processed, deleted, stopped>>

\* processObject() throws: what is left of the try block is skipped.
ProcessThrows(l) ==
  /\ BodyGoto(l, "process", "unlock")
  /\ UNCHANGED <<threadVars, lockBuffer, aBuffer, added, processed, deleted, stopped>>

\* The object is popped, and deleted if that was asked for.
ProcessedPop(l) ==
  /\ BodyGoto(l, "pop", "check")
  /\ aBuffer' = Tail(aBuffer)
  /\ deleted' = IF bDeleteAfterProcess THEN deleted \union {Head(aBuffer)} ELSE deleted
  /\ UNCHANGED <<threadVars, lockBuffer, added, processed, stopped>>

\* Mutants: bStopWhenEmpty stops the thread whatever is in the buffer; it
\* clears bRunning, and not through stop().
StopIfEmptyRegardless(l) ==
  /\ BodyGoto(l, "check", "unlock")
  /\ IF bStopWhenEmpty THEN ExecuteStop(l) ELSE UNCHANGED threadVars
  /\ UNCHANGED <<lockBuffer, aBuffer, added, processed, deleted, stopped>>

StopIfEmptyNotRunning(l) ==
  /\ BodyGoto(l, "check", "unlock")
  /\ bRunning' = (bRunning /\ ~(bStopWhenEmpty /\ aBuffer = <<>>))
  /\ UNCHANGED <<bStartedExecutionMethod, bShouldTerminate, bExceptionOccurred,
                 bThreadIsCreated, aPThreadStruct, loop, ctl, destroyed, spawned, detached,
                 lockBuffer, aBuffer, added, processed, deleted, stopped>>

StopIfEmpty(l) ==
  /\ BodyGoto(l, "check", "unlock")
  /\ IF bStopWhenEmpty /\ aBuffer = <<>> THEN ExecuteStop(l) ELSE UNCHANGED threadVars
  /\ UNCHANGED <<lockBuffer, aBuffer, added, processed, deleted, stopped>>

ExecuteUnlock(l) ==
  /\ BodyGoto(l, "unlock", "begin")
  /\ lockBuffer' = NULL
  /\ ExecuteReturn(l)
  /\ UNCHANGED <<aBuffer, added, processed, deleted, stopped>>

Execute(l) ==
  \/ ExecuteLock(l) \/ ProcessBegin(l) \/ NothingToProcess(l)
  \/ ProcessTrue(l) \/ ProcessFalse(l) \/ ProcessThrows(l)
  \/ ProcessedPop(l) \/ StopIfEmpty(l) \/ ExecuteUnlock(l)

(***************************************************************************)
(* The owner and the other controllers                                     *)
(***************************************************************************)
SetStopWhenEmpty ==
  /\ whole /\ ~bStopWhenEmpty
  /\ bStopWhenEmpty' = TRUE
  /\ promised' = Len(added)
  /\ UNCHANGED <<threadVars, lockBuffer, aBuffer, bDeleteAfterProcess, body, adding,
                 whole, policy, added, processed, deleted, stopped>>

\* Mutant: the last object counts as gone while it is processed.
isEmptySooner == aBuffer = <<>> \/ (Len(aBuffer) = 1 /\ \E l \in Loops : body[l] = "process")

isEmpty == aBuffer = <<>>

\* The destructors of the derived classes run first, and with them go the
\* members processObject() uses.  Nobody adds to an object that is destroyed.
DestroyDerived(c) ==
  /\ c \in Owners /\ ctl[c] = "idle" /\ whole
  /\ \A p \in Producers : adding[p] = NULL
  /\ policy = "stopped" => ~bRunning
  /\ policy = "empty" => isEmpty
  /\ whole' = FALSE
  /\ UNCHANGED <<threadVars, lockBuffer, aBuffer, bDeleteAfterProcess, bStopWhenEmpty, body,
                 adding, policy, added, processed, deleted, promised, stopped>>

\* ~ThreadedBuffer(): stop() and wait, as ~Thread() does after it.
DestroyBase(c) ==
  /\ ~whole
  /\ DestroyCall(c)
  /\ stopped' = TRUE
  /\ UNCHANGED <<lockBuffer, aBuffer, bDeleteAfterProcess, bStopWhenEmpty, body,
                 adding, whole, policy, added, processed, deleted, promised>>

Control(c) ==
  /\ whole
  /\ \/ (StartIgnored(c) \/ StartCall(c) \/ WaitCall(c)) /\ UNCHANGED stopped
     \/ (Stop(c) \/ StopAndWaitCall(c)) /\ stopped' = TRUE
  /\ UNCHANGED <<lockBuffer, aBuffer, bDeleteAfterProcess, bStopWhenEmpty, body,
                 adding, whole, policy, added, processed, deleted, promised>>

TBNext ==
  \/ \E p \in Producers : \/ \E x \in Fresh : AddCall(p, x)
                          \/ AddLock(p) \/ AddPush(p) \/ AddUnlock(p)
  \/ \E l \in Loops : \/ Execute(l) \/ ProcessStops(l)
                      \/ \E x \in Fresh : ProcessAdds(l, x)
                      \/ LoopControl(l) /\ UNCHANGED bufferVars
  \/ \E c \in Controllers : \/ Control(c) \/ DestroyDerived(c) \/ DestroyBase(c)
                            \/ StepThread(c) /\ UNCHANGED bufferVars
  \/ SetStopWhenEmpty

TBSpec == TBInit /\ [][TBNext]_tbVars

\* Threads are scheduled fairly.  A producer gets the mutex some time: between
\* two rounds the native thread sleeps its interval with the mutex free.
TBFairness ==
  /\ \A p \in Producers : SF_tbVars(AddLock(p)) /\ WF_tbVars(AddPush(p) \/ AddUnlock(p))
  /\ \A l \in Loops : WF_tbVars(Execute(l)) /\ WF_tbVars(LoopControl(l) /\ UNCHANGED bufferVars)
  /\ \A c \in Controllers : WF_tbVars(StepThread(c) /\ UNCHANGED bufferVars)

FairTBSpec == TBSpec /\ TBFairness

(***************************************************************************)
(* Properties.                                                             *)
(***************************************************************************)
\* The number of objects popped so far.
Taken == Len(added) - Len(aBuffer)

\* Objects are processed successfully once each, in the order add() stored
\* them, and only then leave the buffer, whatever processObject() returns or
\* throws: so isEmpty() (ThreadedBuffer.cpp:61) means that all is processed.
\* One that still waits has not been deleted.
ProcessedOnceInOrder ==
  /\ Taken >= 0 /\ aBuffer = SubSeq(added, Taken + 1, Len(added))
  /\ Len(processed) \in {Taken, Taken + 1} /\ Len(processed) <= Len(added)
  /\ processed = SubSeq(added, 1, Len(processed))
  /\ \A n \in 1..Len(aBuffer) : aBuffer[n] \notin deleted

\* Nothing is lost by ending: a thread that stops because the buffer was emptied,
\* and not because of stop(), has processed all that was added before
\* setStopWhenEmpty(true) (ThreadedBuffer.h:37; the CSV and XML exports rely on
\* it), and an owner that waits until isEmpty() before it deletes the object
\* (FileWriter.h:35-36) loses nothing, although it does not wait for the thread.
\* Nor does processObject() run on an object whose derived part is destroyed, which
\* the destructor that stops the thread is there for (Thread.h:43).
EndsCleanly ==
  /\ \A l \in Loops : l = spawned /\ loop[l] = "done" /\ ~stopped => Len(processed) >= promised
  /\ policy = "empty" /\ ~whole => processed = added
  /\ \A l \in Loops : body[l] = "process" => whole

\* ThreadedBuffer.h:41 recommends that processObject() returns true: one that is
\* called again and again does so some time.
Willing == \A l \in Loops : SF_tbVars(ProcessTrue(l))

\* An object in the buffer of a started thread is processed, unless somebody
\* stops the thread first, and a thread that is to stop when the buffer is empty
\* does stop; and add() comes back although the mutex is held while an object is
\* processed, even if processObject() never accepts one.
WorkGetsDone ==
  /\ \A p \in Producers : adding[p] # NULL ~> adding[p] = NULL
  /\ Willing =>
       /\ \A x \in Objects :
            (x \in Elements(added) /\ bRunning) ~> (x \in Elements(processed) \/ bShouldTerminate)
       /\ (bStopWhenEmpty /\ bRunning) ~> ~bRunning

=============================================================================
