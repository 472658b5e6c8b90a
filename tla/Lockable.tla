------------------------------ MODULE Lockable ------------------------------
(***************************************************************************)
(* Groundfloor::Lockable (Groundfloor/Atoms/Lockable.{h,cpp}) on Linux:    *)
(* the mutex every queue and socket of the libraries is guarded with, and  *)
(* LockableScope, which locks it for the length of a C++ scope.            *)
(*                                                                         *)
(* The native mutex is external: PTHREAD_MUTEX_RECURSIVE, with pthread's   *)
(* rules for lock, trylock, timedlock and unlock.  iNestingLevel is        *)
(* written but never read and is left out.  Time is a count of ticks; the  *)
(* numbers of ticks in a millisecond and of milliseconds in a second are   *)
(* parameters, so that small clocks reach the end of a second.             *)
(***************************************************************************)
EXTENDS Integers

CONSTANTS Threads, NULL,
          NsPerMs, MsPerSec,    \* 1000000 and 1000 in the code
          Timeouts,             \* the values of iTimeout used, in milliseconds
          MaxTime,              \* bound: the clock stops there
          MaxNesting            \* bound: how often a thread locks what it holds

ASSUME LockableAssumption ==
  /\ NULL \notin Threads
  /\ {NsPerMs, MsPerSec} \subseteq Nat \ {0}
  /\ Timeouts \subseteq Nat \ {0}
  /\ MaxTime \in Nat /\ MaxNesting \in Nat

VARIABLES
  holder, count,        \* the native mutex: its owner, how often it is locked
  now,                  \* the clock, in ticks
  call,                 \* the call a thread is in
  deadline,             \* lockTimeout: <<tv_sec, tv_nsec>>
  called,               \* history: when the call was made
  timeout,              \* its iTimeout
  answer                \* what the last call returned

lockVars == <<holder, count, now, call, deadline, called, timeout, answer>>

NsPerSec == NsPerMs * MsPerSec

LockInit ==
  /\ holder = NULL /\ count = 0
  /\ now \in 0..NsPerSec
  /\ call = [t \in Threads |-> "none"]
  /\ deadline = [t \in Threads |-> <<0, 0>>]
  /\ called = [t \in Threads |-> 0]
  /\ timeout = [t \in Threads |-> 0]
  /\ answer = [t \in Threads |-> "none"]

(***************************************************************************)
(* lockWhenAvailable(iTimeout)                                             *)
(***************************************************************************)

\* pthread: a recursive mutex is also free for the thread that owns it.
Available(t) == holder \in {NULL, t}

Obtain(t) == holder' = t /\ count' = count + 1

Return(t, from, result) ==
  /\ call[t] = from /\ call' = [call EXCEPT ![t] = "none"]
  /\ answer' = [answer EXCEPT ![t] = result]
  /\ deadline' = [deadline EXCEPT ![t] = <<0, 0>>]
  /\ called' = [called EXCEPT ![t] = 0]
  /\ timeout' = [timeout EXCEPT ![t] = 0]
  /\ UNCHANGED now

Begin(t, what) ==
  /\ call[t] = "none" /\ call' = [call EXCEPT ![t] = what]
  /\ holder = t => count <= MaxNesting
  /\ called' = [called EXCEPT ![t] = now]
  /\ answer' = [answer EXCEPT ![t] = "none"]
  /\ UNCHANGED <<holder, count, now>>

\* GFLOCK_NOWAIT, or lock(): pthread_mutex_trylock().
TryLock(t) ==
  /\ holder = t => count <= MaxNesting
  /\ IF Available(t)
     THEN Obtain(t) /\ Return(t, "none", "locked")
     ELSE UNCHANGED <<holder, count>> /\ Return(t, "none", "failed")

\* GFLOCK_INFINITEWAIT, or a LockableScope.
LockCall(t) == Begin(t, "lock") /\ UNCHANGED <<deadline, timeout>>

Lock(t) ==
  /\ Available(t)
  /\ Obtain(t)
  /\ Return(t, "lock", "locked")

\* Mutant: the carry is complete, but the whole seconds of the timeout stay in
\* its nanoseconds, too.
DeadlineTwice(ms) ==
  LET iSec     == ms \div MsPerSec
      tv_nsec  == (now % NsPerSec) + ms * NsPerMs
  IN  <<now \div NsPerSec + iSec + tv_nsec \div NsPerSec, tv_nsec % NsPerSec>>

\* Mutant: the whole seconds of the timeout are forgotten.
DeadlineWithoutSeconds(ms) ==
  LET iNanoSec == (ms % MsPerSec) * NsPerMs
      tv_nsec  == (now % NsPerSec) + iNanoSec
  IN  <<now \div NsPerSec, IF tv_nsec > NsPerSec THEN tv_nsec - NsPerSec ELSE tv_nsec>>

\* The code's carry: a second's worth of nanoseconds is taken off, but the
\* second it stands for is added to iSec, which is not used any more.
Deadline(ms) ==
  LET iSec     == ms \div MsPerSec
      iNanoSec == (ms - iSec * MsPerSec) * NsPerMs
      tv_nsec  == (now % NsPerSec) + iNanoSec
  IN  <<now \div NsPerSec + iSec, IF tv_nsec > NsPerSec THEN tv_nsec - NsPerSec ELSE tv_nsec>>

TimedLockCall(t, ms) ==
  /\ Begin(t, "timedlock")
  /\ deadline' = [deadline EXCEPT ![t] = Deadline(ms)]
  /\ timeout' = [timeout EXCEPT ![t] = ms]

TimedLock(t) ==
  /\ Available(t)
  /\ Obtain(t)
  /\ Return(t, "timedlock", "locked")

\* ETIMEDOUT at the deadline, or EINVAL at once if the deadline is malformed.
Expired(t) ==
  LET sec == deadline[t][1]  nsec == deadline[t][2]
  IN  nsec >= NsPerSec \/ now >= sec * NsPerSec + nsec

TimedLockFails(t) ==
  /\ ~Available(t)
  /\ Expired(t)
  /\ UNCHANGED <<holder, count>>
  /\ Return(t, "timedlock", "failed")

(***************************************************************************)
(* unlock(), by the thread that holds the mutex; the clock                 *)
(***************************************************************************)
Unlock(t) ==
  /\ holder = t /\ call[t] = "none"
  /\ count' = count - 1
  /\ holder' = IF count = 1 THEN NULL ELSE t
  /\ UNCHANGED <<now, call, deadline, called, timeout, answer>>

\* The native mutex keeps its deadlines: the clock does not go on while a
\* thread whose deadline has come is still in its call.
Tick ==
  /\ now < MaxTime
  /\ \A t \in Threads : call[t] = "timedlock" => ~Expired(t)
  /\ now' = now + 1
  /\ UNCHANGED <<holder, count, call, deadline, called, timeout, answer>>

LockReturns(t) == Lock(t) \/ TimedLock(t) \/ TimedLockFails(t)

LockNext ==
  \/ \E t \in Threads :
       \/ TryLock(t) \/ LockCall(t) \/ LockReturns(t) \/ Unlock(t)
       \/ \E ms \in Timeouts : TimedLockCall(t, ms)
  \/ Tick

LockSpec == LockInit /\ [][LockNext]_lockVars

(***************************************************************************)
(* Properties.                                                             *)
(***************************************************************************)
\* A timed lock does not wait longer than it was asked to: whatever carry the
\* deadline needs, it is never later than the call plus the timeout.
NeverOverdue ==
  \A t \in Threads :
    call[t] = "timedlock" => now <= called[t] + timeout[t] * NsPerMs

\* Lockable.h:54: a timed lock gives up when its timeout has elapsed, and not before.
\* Where the nanoseconds of the call and of the timeout make more than a second it gives
\* up a second early, as the carry is lost (Lockable.cpp:154), and where they make
\* exactly a second, which is no valid deadline, any time.
GivesUpInTime ==
  [][\A t \in Threads :
       call[t] = "timedlock" /\ call'[t] = "none" /\ answer'[t] = "failed" =>
         LET fraction == (called[t] % NsPerSec) + (timeout[t] % MsPerSec) * NsPerMs
             due      == called[t] + timeout[t] * NsPerMs
         IN  /\ fraction < NsPerSec => now >= due
             /\ fraction > NsPerSec => now >= due - NsPerSec]_lockVars

=============================================================================
