---------------------------- MODULE MessageLoop ----------------------------
(***************************************************************************)
(* The message loop of a Chalkboard application (Chalkboard/CBApp.cpp,     *)
(* the GTK and Win32 build): any thread hands events to the main thread    *)
(* with CBAppAddEvent(), CBAppRun() executes and deletes them in the main  *)
(* thread.  The two meet in mainMessageQueue, a FifoVector, whose methods  *)
(* run here step by step: a caller of a method waits until its thread is   *)
(* at "idle" again.                                                        *)
(***************************************************************************)
EXTENDS FifoVector

CONSTANTS Main          \* the main thread

ASSUME MainAssumption == Main \in Threads

VARIABLES
  adding,               \* where each thread is in CBAppAddEvent()
  running,              \* where the main thread is in CBAppRun()
  event,                \* the local obj of CBAppRun()
  visible,              \* mainGUIScreen->visible
  executed,             \* history: the events executed, in order
  deleted               \* history: the events deleted, in order

loopVars == <<adding, running, event, visible, executed, deleted>>
allVars  == <<vars, loopVars>>

LoopInit ==
  /\ Init
  /\ adding = [t \in Threads |-> "no"]
  /\ running = "test"
  /\ event = NULL
  /\ visible = TRUE
  /\ executed = <<>>
  /\ deleted = <<>>

\* The thread has no method of the queue under way.
Back(t) == pc[t] = "idle"

(***************************************************************************)
(* CBAppAddEvent(event)                                                    *)
(***************************************************************************)
AddGoto(t, from, to) ==
  /\ adding[t] = from /\ Back(t)
  /\ adding' = [adding EXCEPT ![t] = to]
  /\ UNCHANGED <<running, event, visible, executed, deleted>>

\* The main thread adds an event only in an event it executes, or in a handler
\* that the user's doings call in mainloop_iteration().
MayAdd(t) == t = Main => running \in {"iteration", "execute"}

TestFull(t) ==
  /\ MayAdd(t)
  /\ Fresh # {}
  /\ AddGoto(t, "no", "tested")
  /\ IsFullCall(t)

\* Full: sleep, then test again.
TestFullAgain(t) ==
  /\ AddGoto(t, "tested", "tested")
  /\ answer[t] = "full"
  /\ IsFullCall(t)

PushEvent(t) ==
  /\ AddGoto(t, "tested", "pushed")
  /\ answer[t] = "not full"
  /\ \E x \in Fresh : PushCall(t, x)

\* Fresh ran out while this thread was testing: the bound on events is reached.
NoEventLeft(t) ==
  /\ AddGoto(t, "tested", "no")
  /\ answer[t] = "not full"
  /\ Fresh = {}
  /\ UNCHANGED vars

Added(t) ==
  /\ AddGoto(t, "pushed", "no")
  /\ UNCHANGED vars

AddEvent(t) == TestFullAgain(t) \/ PushEvent(t) \/ NoEventLeft(t) \/ Added(t)

(***************************************************************************)
(* CBAppRun(): one round of the loop, in the main thread.                  *)
(***************************************************************************)
RunGoto(from, to) ==
  /\ running = from /\ Back(Main) /\ adding[Main] = "no"
  /\ running' = to
  /\ UNCHANGED <<adding, visible>>

\* mainloop_iteration() begins.
Iterate ==
  /\ RunGoto("test", "iteration")
  /\ visible
  /\ UNCHANGED <<vars, event, executed, deleted>>

\* It is over.
TestEmpty ==
  /\ RunGoto("iteration", "tested")
  /\ IsEmptyCall(Main)
  /\ UNCHANGED <<event, executed, deleted>>

\* The screen is gone: CBAppRun() returns with what is still in the queue.
Leave ==
  /\ RunGoto("test", "left")
  /\ ~visible
  /\ UNCHANGED <<vars, event, executed, deleted>>

NothingToDo ==
  /\ RunGoto("tested", "test")
  /\ answer[Main] = "empty"
  /\ UNCHANGED <<vars, event, executed, deleted>>

PeekEvent ==
  /\ RunGoto("tested", "peeked")
  /\ answer[Main] = "not empty"
  /\ TryPopCall(Main)
  /\ UNCHANGED <<event, executed, deleted>>

\* obj->execute() begins, unless trypop() returned NULL.
ExecuteEvent ==
  /\ RunGoto("peeked", IF obj[Main] = NULL THEN "test" ELSE "execute")
  /\ event' = obj[Main]
  /\ executed' = IF obj[Main] = NULL THEN executed ELSE Append(executed, obj[Main])
  /\ UNCHANGED <<vars, deleted>>

\* Mutant: the event stays in the queue.
PopEventPeeks ==
  /\ RunGoto("execute", "popped")
  /\ TryPopCall(Main)
  /\ UNCHANGED <<event, executed, deleted>>

\* obj->execute() is over.
PopEvent ==
  /\ RunGoto("execute", "popped")
  /\ PopCall(Main)
  /\ UNCHANGED <<event, executed, deleted>>

\* What pop() returned is deleted, whatever it is.
DeleteEvent ==
  /\ RunGoto("popped", "test")
  /\ deleted' = Append(deleted, obj[Main])
  /\ event' = NULL
  /\ UNCHANGED <<vars, executed>>

Run == \/ Iterate \/ TestEmpty \/ Leave \/ NothingToDo
       \/ PeekEvent \/ ExecuteEvent \/ PopEvent \/ DeleteEvent

\* The user closes the window, or an event does.
Close ==
  /\ visible /\ visible' = FALSE
  /\ UNCHANGED <<vars, adding, running, event, executed, deleted>>

LoopNext ==
  \/ \E t \in Threads : TestFull(t) \/ AddEvent(t)
  \/ \E t \in Threads : Step(t) /\ UNCHANGED loopVars
  \/ Run
  \/ Close

\* Every thread keeps running: the scheduler is fair to each, and the mutexes
\* are only contended by the finitely many calls the events cause.  Nobody has
\* to add an event or to close the window.
LoopFairness ==
  /\ \A t \in Threads : WF_allVars(Step(t) /\ UNCHANGED loopVars)
  /\ \A t \in Threads : WF_allVars(AddEvent(t))
  /\ WF_allVars(Run)

LoopSafety == LoopInit /\ [][LoopNext]_allVars

LoopSpec == LoopSafety /\ LoopFairness

(***************************************************************************)
(* Properties.                                                             *)
(***************************************************************************)
Prefix(s, t) == Len(s) <= Len(t) /\ \A n \in 1..Len(s) : s[n] = t[n]

\* CBAppRun() deletes what pop() returns after executing what trypop() returned
\* (CBApp.cpp:75-78): an event is deleted only after it was executed itself,
\* once, and events are executed in the order their push() stored them.
ExecutedThenDeleted == Prefix(deleted, executed) /\ Prefix(executed, pushed)

\* An event that was added is executed, if the window stays open; and the call
\* that adds it returns: neither the isFull() it waits for (CBApp.cpp:91) nor the
\* wait for space in push() holds it up for ever.
EventsAreExecuted ==
  /\ \A t \in Threads : adding[t] = "tested" ~> adding[t] = "no"
  /\ \A x \in Objects :
       (\E n \in 1..Len(pushed) : pushed[n] = x)
         ~> (~visible \/ \E n \in 1..Len(executed) : executed[n] = x)

=============================================================================
