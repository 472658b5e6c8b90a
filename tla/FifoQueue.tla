------------------------------ MODULE FifoQueue ------------------------------
(***************************************************************************)
(* What a queue between threads promises: an object that is put is taken   *)
(* once, in the order of putting, and a thread that takes or looks gets    *)
(* the oldest object, or NULL only when there is none.  Each operation     *)
(* takes effect at one moment.                                             *)
(*                                                                         *)
(* FifoVector implements it; ThreadedBuffer and the message loop of        *)
(* Chalkboard use it in place of FifoVector.                               *)
(***************************************************************************)
EXTENDS Sequences

CONSTANTS Threads, Objects, NULL

VARIABLES queue,        \* the objects put and not yet taken
          got           \* what each thread's last take or look returned

TypeOK == /\ queue \in Seq(Objects)
          /\ got \in [Threads -> Objects \union {NULL}]

Init == queue = <<>> /\ got = [t \in Threads |-> NULL]

Put(x) == queue' = Append(queue, x)

Oldest == IF queue = <<>> THEN NULL ELSE Head(queue)

\* The result of the previous operation is forgotten.
Forget(t) == got' = [got EXCEPT ![t] = NULL] /\ UNCHANGED queue

Look(t) == got' = [got EXCEPT ![t] = Oldest] /\ UNCHANGED queue

Take(t) == /\ got' = [got EXCEPT ![t] = Oldest]
           /\ queue' = IF queue = <<>> THEN queue ELSE Tail(queue)

Next == \/ \E x \in Objects : Put(x) /\ UNCHANGED got
        \/ \E t \in Threads : Forget(t) \/ Look(t) \/ Take(t)

Spec == Init /\ [][Next]_<<queue, got>>

=============================================================================
