-------------------------- MODULE Lookup_proofs --------------------------
(***************************************************************************)
(* Theorems about Lockable, LookupCache and Uri, for any threads, texts of *)
(* URIs, answers of the system, timeouts, times and numbers of calls.      *)
(*                                                                         *)
(* The deadline of a timed lock is a matter of arithmetic: the carry of    *)
(* lockWhenAvailable() may lose a second and never adds one, so that the   *)
(* deadline is not later than the time that was asked for, and earlier by  *)
(* the second that is lost, if one is.                                     *)
(*                                                                         *)
(* A thread that has searched the cache in vain is counted with the        *)
(* entries there are: adding turns the one into the other, and as long as  *)
(* an entry is there no thread begins to count.                            *)
(*                                                                         *)
(* A thread that copies the hostent all threads share copies addresses of  *)
(* its name as long as nobody has called gethostbyname() since: who does   *)
(* makes the name one of `mixed`.  Therefore the addresses an URI holds    *)
(* are those of its host if the name was not mixed, but while a lookup is  *)
(* under way that will replace them: what get() connects to is one of      *)
(* them, or of the object of the name that it looked up itself.            *)
(*                                                                         *)
(* The text of an URI is cut at its marks into the parts it was put        *)
(* together from (PiecesOfText), if none holds a mark that would cut it.   *)
(* What a thread's URI has of them is followed through the lookups of the  *)
(* host and of the name that does not exist (TextInv), up to the text      *)
(* getUri() writes (SaidComesBack).                                        *)
(***************************************************************************)
EXTENDS Lockable, Uri, SequenceLemmas, FiniteSetTheorems

(***************************************************************************)
(* Lockable: the deadline                                                   *)
(***************************************************************************)

\* What \div and % are for a number that is not negative.
LEMMA DivMod ==
  ASSUME NEW n \in Nat, NEW d \in Nat \ {0}
  PROVE  /\ n \div d \in Nat /\ n % d \in Nat /\ n % d < d
         /\ n = (n \div d) * d + (n % d)
<1>1. n % d \in 0 .. d - 1
  OBVIOUS
<1>2. n \div d \in Nat
  OBVIOUS
<1>3. n = (n \div d) * d + (n % d)
  OBVIOUS
<1> QED BY <1>1, <1>2, <1>3

\* The nanoseconds of a second are a positive number.
LEMMA NsPerSecType == NsPerSec \in Nat \ {0}
BY LockableAssumption DEF NsPerSec

\* The time of a deadline, and the one that was asked for.
At(d) == d[1] * NsPerSec + d[2]
Due(from, ms) == from + ms * NsPerMs

\* The nanoseconds that lockWhenAvailable() adds.
Fraction(from, ms) == (from % NsPerSec) + (ms % MsPerSec) * NsPerMs

\* A deadline is not later than it was asked for; if it needs no carry it is that time,
\* and else, unless the carry leaves a second's worth, one second earlier.
IsDeadline(d, from, ms) ==
  /\ At(d) <= Due(from, ms)
  /\ Fraction(from, ms) < NsPerSec => d[2] < NsPerSec /\ Due(from, ms) <= At(d)
  /\ Fraction(from, ms) > NsPerSec => d[2] < NsPerSec /\ Due(from, ms) - NsPerSec <= At(d)

\* Factors that are less make products that are.
LEMMA LessTimes ==
  ASSUME NEW a \in Nat, NEW b \in Nat, NEW k \in Nat \ {0}, a < b
  PROVE  a * k \in Nat /\ a * k < b * k
<1>1. PICK c \in Nat \ {0} : b = a + c
  <2>1. b - a \in Nat \ {0} /\ b = a + (b - a)
    OBVIOUS
  <2> QED BY <2>1
<1>2. b * k = a * k + c * k /\ a * k \in Nat /\ c * k \in Nat /\ c * k > 0
  BY <1>1
<1> QED BY <1>2

\* The carry of lockWhenAvailable() loses a second, and neither part of the deadline is
\* negative.
LEMMA DeadlineIsMet ==
  ASSUME NEW ms \in Nat, now \in Nat
  PROVE  Deadline(ms) \in Nat \X Nat /\ IsDeadline(Deadline(ms), now, ms)
<1> DEFINE iSec == ms \div MsPerSec
           r    == ms % MsPerSec
           q    == now \div NsPerSec
           p    == now % NsPerSec
<1>1. /\ iSec \in Nat /\ r \in Nat /\ r < MsPerSec /\ ms = iSec * MsPerSec + r
      /\ q \in Nat /\ p \in Nat /\ p < NsPerSec /\ now = q * NsPerSec + p
  BY DivMod, LockableAssumption, NsPerSecType
<1>2. ms - iSec * MsPerSec = r
  BY <1>1, LockableAssumption
<1>3. Fraction(now, ms) = p + r * NsPerMs
  BY DEF Fraction
<1> HIDE DEF iSec, r, q, p
<1>4. /\ r * NsPerMs \in Nat /\ r * NsPerMs < NsPerSec
      /\ NsPerSec \in Nat /\ NsPerMs \in Nat /\ MsPerSec \in Nat
  <2>1. NsPerSec = MsPerSec * NsPerMs /\ MsPerSec \in Nat /\ NsPerMs \in Nat \ {0}
    BY LockableAssumption DEF NsPerSec
  <2> QED BY <1>1, <2>1, LessTimes, NsPerSecType
<1>5. ms * NsPerMs = iSec * NsPerSec + r * NsPerMs
  BY <1>1, <1>4 DEF NsPerSec
<1>6. (q + iSec) * NsPerSec = q * NsPerSec + iSec * NsPerSec
  BY <1>1, <1>4
<1>7. Deadline(ms) = <<q + iSec, IF p + r * NsPerMs > NsPerSec THEN (p + r * NsPerMs) - NsPerSec ELSE p + r * NsPerMs>>
  BY <1>2 DEF Deadline, iSec, r, q, p
<1> DEFINE a == q + iSec
           b == p + r * NsPerMs
           c == a * NsPerSec
           e == ms * NsPerMs
<1>8. a \in Nat /\ b \in Nat /\ c \in Nat /\ e \in Nat /\ c + b = now + e /\ b < NsPerSec + NsPerSec
  BY <1>1, <1>4, <1>5, <1>6
<1>9. Deadline(ms) = <<a, IF b > NsPerSec THEN b - NsPerSec ELSE b>> /\ Fraction(now, ms) = b
  BY <1>3, <1>7
<1>10. Due(now, ms) = now + e
  BY DEF Due
<1> DEFINE nsec == IF b > NsPerSec THEN b - NsPerSec ELSE b
<1>11. At(Deadline(ms)) = c + nsec /\ Deadline(ms)[1] = a /\ Deadline(ms)[2] = nsec
  BY <1>9 DEF At
<1> HIDE DEF a, b, c, e
<1>12. nsec \in Nat /\ nsec <= b
  BY <1>4, <1>8
<1>13. /\ b < NsPerSec => nsec = b
       /\ b > NsPerSec => nsec = b - NsPerSec /\ nsec < NsPerSec
  BY <1>4, <1>8
<1>14. Deadline(ms) \in Nat \X Nat
  BY <1>8, <1>9, <1>12
<1> HIDE DEF nsec
<1>15. IsDeadline(Deadline(ms), now, ms)
  BY <1>4, <1>8, <1>9, <1>10, <1>11, <1>12, <1>13 DEF IsDeadline
<1> QED BY <1>14, <1>15

(***************************************************************************)
(* Lockable: the inductive invariant                                        *)
(***************************************************************************)

LockTypeInv ==
  /\ holder \in Threads \union {NULL}
  /\ count \in Nat /\ (holder # NULL => count > 0)
  /\ now \in Nat
  /\ call \in [Threads -> {"none", "lock", "timedlock"}]
  /\ deadline \in [Threads -> Nat \X Nat]
  /\ called \in [Threads -> Nat]
  /\ timeout \in [Threads -> Nat]
  /\ answer \in [Threads -> {"none", "locked", "failed"}]

\* The deadline of a thread that waits with a timeout is the one of its call.
DeadlineInv ==
  \A t \in Threads :
    call[t] = "timedlock" => IsDeadline(deadline[t], called[t], timeout[t])

LockInv == LockTypeInv /\ DeadlineInv /\ NeverOverdue

\* The invariant of Lockable holds at the start.
LEMMA LockInitInv == LockInit => LockInv
BY LockableAssumption, NsPerSecType
DEF LockInit, LockInv, LockTypeInv, DeadlineInv, NeverOverdue

\* A call returns: the thread is in none any more, and the clock has not gone on.
LEMMA ReturnInv ==
  ASSUME LockInv, NEW t \in Threads, NEW from, NEW result \in {"locked", "failed"},
         Return(t, from, result),
         holder' \in Threads \union {NULL}, count' \in Nat, holder' # NULL => count' > 0
  PROVE  LockInv'
<1>1. LockTypeInv'
  BY DEF Return, LockInv, LockTypeInv
<1>2. \A u \in Threads : call'[u] = "timedlock" =>
        /\ u # t /\ call[u] = "timedlock" /\ deadline'[u] = deadline[u]
        /\ called'[u] = called[u] /\ timeout'[u] = timeout[u] /\ now' = now
  BY DEF Return, LockInv, LockTypeInv
<1> QED BY <1>1, <1>2 DEF LockInv, DeadlineInv, NeverOverdue

\* Who gets the mutex has taken it at least once.
LEMMA ObtainHolds ==
  ASSUME LockInv, NEW t \in Threads, Obtain(t)
  PROVE  holder' \in Threads \union {NULL} /\ count' \in Nat /\ count' > 0
BY DEF Obtain, LockInv, LockTypeInv

\* The invariant is kept by lock() without waiting,
LEMMA TryLockInv ==
  ASSUME LockInv, NEW t \in Threads, TryLock(t)
  PROVE  LockInv'
<1>1. CASE Available(t)
  BY <1>1, ObtainHolds, ReturnInv DEF TryLock
<1>2. CASE ~Available(t)
  BY <1>2, ReturnInv DEF TryLock, LockInv, LockTypeInv
<1> QED BY <1>1, <1>2

\* by a lock() that gets the mutex or gives up,
LEMMA LockReturnsInv ==
  ASSUME LockInv, NEW t \in Threads, LockReturns(t)
  PROVE  LockInv'
<1>1. CASE Lock(t) \/ TimedLock(t)
  BY <1>1, ObtainHolds, ReturnInv DEF Lock, TimedLock
<1>2. CASE TimedLockFails(t)
  BY <1>2, ReturnInv DEF TimedLockFails, LockInv, LockTypeInv
<1> QED BY <1>1, <1>2 DEF LockReturns

\* by a lock() that begins to wait,
LEMMA LockCallInv ==
  ASSUME LockInv, NEW t \in Threads, LockCall(t)
  PROVE  LockInv'
<1>1. LockTypeInv'
  BY DEF LockCall, Begin, LockInv, LockTypeInv
<1>2. \A u \in Threads : call'[u] = "timedlock" =>
        /\ call[u] = "timedlock" /\ deadline'[u] = deadline[u]
        /\ called'[u] = called[u] /\ timeout'[u] = timeout[u] /\ now' = now
  BY DEF LockCall, Begin, LockInv, LockTypeInv
<1> QED BY <1>1, <1>2 DEF LockInv, DeadlineInv, NeverOverdue

\* by one that begins to wait for a time,
LEMMA TimedLockCallInv ==
  ASSUME LockInv, NEW t \in Threads, NEW ms \in Timeouts, TimedLockCall(t, ms)
  PROVE  LockInv'
<1> DEFINE d == Deadline(ms)
<1>1. now \in Nat /\ ms \in Nat /\ NsPerMs \in Nat /\ d \in Nat \X Nat /\ IsDeadline(d, now, ms)
  <2>1. now \in Nat /\ ms \in Nat /\ NsPerMs \in Nat
    BY LockableAssumption DEF LockInv, LockTypeInv
  <2> QED BY <2>1, DeadlineIsMet
<1> HIDE DEF d
<1>2. LockTypeInv'
  BY <1>1 DEF TimedLockCall, Begin, LockInv, LockTypeInv, d
<1>3. /\ now' = now /\ called'[t] = now /\ timeout'[t] = ms /\ deadline'[t] = d
      /\ \A u \in Threads \ {t} :
           /\ call'[u] = call[u] /\ deadline'[u] = deadline[u]
           /\ called'[u] = called[u] /\ timeout'[u] = timeout[u]
  BY DEF TimedLockCall, Begin, LockInv, LockTypeInv, d
<1>4. ms * NsPerMs \in Nat
  BY <1>1
<1>5. DeadlineInv'
  BY <1>1, <1>3 DEF LockInv, DeadlineInv
<1>6. NeverOverdue'
  BY <1>1, <1>3, <1>4 DEF LockInv, NeverOverdue
<1> QED BY <1>2, <1>5, <1>6 DEF LockInv

\* by unlock(),
LEMMA UnlockInv ==
  ASSUME LockInv, NEW t \in Threads, Unlock(t)
  PROVE  LockInv'
<1>1. LockTypeInv'
  BY LockableAssumption DEF Unlock, LockInv, LockTypeInv
<1> QED BY <1>1 DEF Unlock, LockInv, DeadlineInv, NeverOverdue

\* A thread whose deadline has not come may wait for one tick more.
LEMMA TickInv ==
  ASSUME LockInv, Tick
  PROVE  LockInv'
<1>1. LockTypeInv'
  BY DEF Tick, LockInv, LockTypeInv
<1>2. DeadlineInv'
  BY DEF Tick, LockInv, DeadlineInv
<1>3. NeverOverdue'
  <2> SUFFICES ASSUME NEW t \in Threads, call[t] = "timedlock"
               PROVE  now + 1 <= called[t] + timeout[t] * NsPerMs
    BY DEF Tick, NeverOverdue
  <2> DEFINE at == deadline[t][1] * NsPerSec + deadline[t][2]
             latest == called[t] + timeout[t] * NsPerMs
  <2>1. /\ deadline[t][1] \in Nat /\ deadline[t][2] \in Nat /\ NsPerSec \in Nat
        /\ called[t] \in Nat /\ timeout[t] \in Nat /\ NsPerMs \in Nat /\ now \in Nat
    BY LockableAssumption, NsPerSecType DEF LockInv, LockTypeInv
  <2>2. at \in Nat /\ latest \in Nat
    BY <2>1
  <2>3. at <= latest
    BY DEF LockInv, DeadlineInv, IsDeadline, At, Due
  <2>4. ~(now >= at)
    BY DEF Tick, Expired
  <2> HIDE DEF at, latest
  <2>5. now + 1 <= latest
    BY <2>1, <2>2, <2>3, <2>4
  <2> QED BY <2>5 DEF latest
<1> QED BY <1>1, <1>2, <1>3 DEF LockInv

\* and by every step.
LEMMA LockNextInv == LockInv /\ [LockNext]_lockVars => LockInv'
<1> SUFFICES ASSUME LockInv, [LockNext]_lockVars PROVE LockInv'
  OBVIOUS
<1>1. CASE \E t \in Threads :
             \/ TryLock(t) \/ LockCall(t) \/ LockReturns(t) \/ Unlock(t)
             \/ \E ms \in Timeouts : TimedLockCall(t, ms)
  BY <1>1, TryLockInv, LockCallInv, LockReturnsInv, UnlockInv, TimedLockCallInv
<1>2. CASE Tick
  BY <1>2, TickInv
<1>3. CASE UNCHANGED lockVars
  BY <1>3 DEF lockVars, LockInv, LockTypeInv, DeadlineInv, NeverOverdue
<1> QED BY <1>1, <1>2, <1>3 DEF LockNext

\* It holds always.
LEMMA LockSpecInv == LockSpec => []LockInv
<1> QED BY LockInitInv, LockNextInv, PTL DEF LockSpec

(***************************************************************************)
(* Lockable: the theorems                                                   *)
(***************************************************************************)

\* lockWhenAvailable(): for every timeout and every clock, a thread does not wait
\* longer than it asked to.
THEOREM TimedLockInTime == LockSpec => []NeverOverdue
<1>1. LockInv => NeverOverdue
  BY DEF LockInv
<1> QED BY <1>1, LockSpecInv, PTL

\* A timed lock that gives up does so when its deadline has come, or is none.
LEMMA GivesUpAtDeadline ==
  ASSUME LockInv, [LockNext]_lockVars, NEW t \in Threads,
         call[t] = "timedlock", call'[t] = "none", answer'[t] = "failed"
  PROVE  deadline[t][2] >= NsPerSec \/ now >= At(deadline[t])
<1>1. TimedLockFails(t)
  <2>1. ASSUME NEW u \in Threads, NEW from, NEW result, Return(u, from, result),
               ~(u = t /\ from = "timedlock" /\ result = "failed")
        PROVE  FALSE
    BY <2>1 DEF Return, LockInv, LockTypeInv
  <2>2. ASSUME NEW u \in Threads, LockReturns(u)
        PROVE  TimedLockFails(t)
    BY <2>1, <2>2 DEF LockReturns, Lock, TimedLock, TimedLockFails
  <2>3. ASSUME NEW u \in Threads, TryLock(u)
        PROVE  FALSE
    BY <2>1, <2>3 DEF TryLock
  <2>4. ASSUME NEW u \in Threads,
               LockCall(u) \/ Unlock(u) \/ \E ms \in Timeouts : TimedLockCall(u, ms)
        PROVE  FALSE
    BY <2>4 DEF LockCall, Unlock, TimedLockCall, Begin, LockInv, LockTypeInv
  <2>5. ~Tick /\ ~UNCHANGED lockVars
    BY DEF Tick, lockVars
  <2> QED BY <2>2, <2>3, <2>4, <2>5 DEF LockNext
<1> QED BY <1>1 DEF TimedLockFails, Expired, At

\* lockWhenAvailable(): for every timeout and every clock, a thread that gives up has
\* waited as long as it asked to, but for a second that the carry loses.
THEOREM TimedLockNotTooSoon == LockSpec => GivesUpInTime
<1>1. LockInv /\ [LockNext]_lockVars =>
        [\A t \in Threads :
           call[t] = "timedlock" /\ call'[t] = "none" /\ answer'[t] = "failed" =>
             LET fraction == (called[t] % NsPerSec) + (timeout[t] % MsPerSec) * NsPerMs
                 due      == called[t] + timeout[t] * NsPerMs
             IN  /\ fraction < NsPerSec => now >= due
                 /\ fraction > NsPerSec => now >= due - NsPerSec]_lockVars
  <2> SUFFICES ASSUME LockInv, [LockNext]_lockVars, NEW t \in Threads,
                      call[t] = "timedlock", call'[t] = "none", answer'[t] = "failed"
               PROVE  /\ Fraction(called[t], timeout[t]) < NsPerSec => now >= Due(called[t], timeout[t])
                      /\ Fraction(called[t], timeout[t]) > NsPerSec =>
                           now >= Due(called[t], timeout[t]) - NsPerSec
    BY DEF Fraction, Due
  <2> DEFINE at == At(deadline[t])
             due == Due(called[t], timeout[t])
             fraction == Fraction(called[t], timeout[t])
  <2>1. /\ now \in Nat /\ NsPerSec \in Nat /\ deadline[t][2] \in Nat
        /\ at \in Nat /\ due \in Nat
    <3>1. /\ deadline[t][1] \in Nat /\ deadline[t][2] \in Nat /\ NsPerSec \in Nat
          /\ called[t] \in Nat /\ timeout[t] \in Nat /\ NsPerMs \in Nat /\ now \in Nat
      BY LockableAssumption, NsPerSecType DEF LockInv, LockTypeInv
    <3> QED BY <3>1 DEF At, Due
  <2>2. IsDeadline(deadline[t], called[t], timeout[t])
    BY DEF LockInv, DeadlineInv
  <2>3. deadline[t][2] >= NsPerSec \/ now >= at
    BY GivesUpAtDeadline
  <2>4. /\ fraction < NsPerSec => deadline[t][2] < NsPerSec /\ due <= at
        /\ fraction > NsPerSec => deadline[t][2] < NsPerSec /\ due - NsPerSec <= at
    BY <2>2 DEF IsDeadline
  <2> HIDE DEF at, due, fraction
  <2>5. /\ fraction < NsPerSec => now >= due
        /\ fraction > NsPerSec => now >= due - NsPerSec
    BY <2>1, <2>3, <2>4
  <2> QED BY <2>5 DEF at, due, fraction
<1> QED BY <1>1, LockSpecInv, PTL DEF LockSpec, GivesUpInTime

(***************************************************************************)
(* The cache: what is in the list, and how often                            *)
(***************************************************************************)

LookupPlaces == {"idle", "find", "gethostbyname", "copy", "getaddrinfo", "add", "done"}
Names == DOMAIN Answers \union {NONE}

LookupTypeInv ==
  /\ list \in Seq(LookupObjects)
  /\ looking \in [LookupThreads -> [name : Names, obj : LookupObjects \union {NONE}, at : LookupPlaces]]
  /\ hostent \in Seq(Addresses)

\* What a thread has found, or is resolving, is of the name it looks for.
LookingInv ==
  \A t \in LookupThreads :
    /\ looking[t].at # "idle" => looking[t].name \in DOMAIN Answers
    /\ looking[t].obj # NONE => looking[t].obj.name = looking[t].name
    /\ looking[t].at \in {"copy", "add"} => looking[t].obj # NONE

\* The addresses were answered for the name, but for those of the names that are excepted.
Honest(h, but) == h.name \notin but => h.addresses \in Seq(AddressesOf(h.name))

\* A thread that copies a hostent which is still its own has not passed its end.
CopiesItsOwn(l, h) == h \in Seq(AddressesOf(l.name)) /\ Len(l.obj.addresses) <= Len(h)

\* What is in the list, and what was found, are addresses of their names if they were not
\* mixed; those that are still to be copied are, too.
HonestInv ==
  /\ \A i \in DOMAIN list : Honest(list[i], mixed)
  /\ \A t \in LookupThreads :
       /\ looking[t].obj # NONE => Honest(looking[t].obj, mixed)
       /\ looking[t].at = "copy" /\ looking[t].name \notin mixed => CopiesItsOwn(looking[t], hostent)

Cached(sHost) == {i \in DOMAIN list : list[i].name = sHost}

\* The threads that did not find the name and may add it.
Adding(sHost) == {t \in LookupThreads : looking[t].name = sHost
                     /\ looking[t].at \in {"gethostbyname", "copy", "getaddrinfo", "add"}}

\* Each thread that may add the name has room: none joins them once it is there.
CountInv ==
  \A sHost \in DOMAIN Answers :
    Cardinality(Cached(sHost)) + Cardinality(Adding(sHost)) <= Cardinality(LookupThreads)

CacheInv == LookupTypeInv /\ LookingInv /\ HonestInv /\ CountInv

\* What an object of the cache is made of.
LEMMA ObjectFields ==
  ASSUME NEW obj \in LookupObjects
  PROVE  /\ obj = LookupObject(obj.name, obj.addresses) /\ obj # NONE
         /\ obj.name \in DOMAIN Answers /\ obj.addresses \in Seq(Addresses)
BY NoneIsNoObject DEF LookupObjects, LookupObject

\* A name and addresses make an object.
LEMMA ObjectOf ==
  ASSUME NEW sHost \in DOMAIN Answers, NEW ips \in Seq(Addresses)
  PROVE  /\ LookupObject(sHost, ips) \in LookupObjects /\ LookupObject(sHost, ips) # NONE
         /\ LookupObject(sHost, ips).name = sHost
         /\ LookupObject(sHost, ips).addresses = ips
BY NoneIsNoObject DEF LookupObjects, LookupObject

\* An answer of the system consists of addresses of the name.
LEMMA AnswerOf ==
  ASSUME NEW sHost \in DOMAIN Answers, NEW ips \in Answers[sHost]
  PROVE  ips \in Seq(AddressesOf(sHost)) /\ ips \in Seq(Addresses)
<1>1. ips \in Seq(AddressesOf(sHost))
  BY AnswersAssumption
<1>2. AddressesOf(sHost) \subseteq Addresses
  BY DEF Addresses
<1> QED BY <1>1, <1>2

\* What is right but for some names is so but for more.
LEMMA HonestStays ==
  ASSUME NEW h, NEW but, NEW more, but \subseteq more, Honest(h, but)
  PROVE  Honest(h, more)
BY DEF Honest

\* The least of a set of numbers is one of them.
LEMMA MinOfNats ==
  ASSUME NEW S \in SUBSET Nat, S # {}
  PROVE  Min(S) \in S
BY LeastExists DEF Min

\* findObj() answers with an object of that name if there is one.
LEMMA findObjFinds ==
  ASSUME LookupTypeInv, NEW sHost
  PROVE  /\ findObj(sHost) = NONE <=> Cached(sHost) = {}
         /\ findObj(sHost) # NONE => findObj(sHost) \in LookupObjects /\ findObj(sHost).name = sHost
         /\ findObj(sHost) # NONE /\ HonestInv => Honest(findObj(sHost), mixed)
<1>1. CASE Cached(sHost) = {}
  BY <1>1 DEF findObj, Cached
<1>2. CASE Cached(sHost) # {}
  <2> DEFINE i == SelectInSeq(list, LAMBDA obj : obj.name = sHost)
             I == {n \in 1 .. Len(list) : list[n].name = sHost}
  <2>1. I = Cached(sHost) /\ I \in SUBSET Nat
    BY DEF LookupTypeInv, Cached
  <2>2. i = Min(I)
    BY <1>2, <2>1 DEF SelectInSeq
  <2>3. i \in Cached(sHost)
    BY <1>2, <2>1, <2>2, MinOfNats
  <2>4. list[i] \in LookupObjects /\ list[i].name = sHost
    BY <2>3 DEF LookupTypeInv, Cached
  <2>5. findObj(sHost) = list[i]
    BY <2>3 DEF findObj, Cached
  <2>6. HonestInv => Honest(list[i], mixed)
    BY <2>3 DEF HonestInv, Cached
  <2> QED BY <1>2, <2>4, <2>5, <2>6, ObjectFields
<1> QED BY <1>1, <1>2

\* What is counted are finite sets.
LEMMA CountTypes ==
  ASSUME LookupTypeInv, NEW sHost
  PROVE  /\ IsFiniteSet(Cached(sHost)) /\ Cardinality(Cached(sHost)) \in Nat
         /\ IsFiniteSet(Adding(sHost)) /\ Cardinality(Adding(sHost)) \in Nat
         /\ Cardinality(Adding(sHost)) <= Cardinality(LookupThreads)
         /\ Cardinality(LookupThreads) \in Nat
<1>1. IsFiniteSet(1 .. Len(list)) /\ Cached(sHost) \in SUBSET (1 .. Len(list))
  BY FS_Interval DEF LookupTypeInv, Cached
<1>2. IsFiniteSet(LookupThreads) /\ Adding(sHost) \in SUBSET LookupThreads
  BY ThreadsAssumption DEF Adding
<1>3. IsFiniteSet(Cached(sHost)) /\ IsFiniteSet(Adding(sHost))
  BY <1>1, <1>2, FS_Subset
<1> QED BY <1>2, <1>3, FS_Subset, FS_CardinalityType

\* While nobody is added to those who may add, and the list stays as it is or is emptied.
LEMMA FewerAdd ==
  ASSUME CacheInv, LookupTypeInv',
         \A sHost \in DOMAIN Answers : Adding(sHost)' \subseteq Adding(sHost),
         list' = list \/ list' = <<>>
  PROVE  CountInv'
<1> SUFFICES ASSUME NEW sHost \in DOMAIN Answers
             PROVE  Cardinality(Cached(sHost)') + Cardinality(Adding(sHost)') <= Cardinality(LookupThreads)
  BY DEF CountInv
<1>1. /\ IsFiniteSet(Cached(sHost)) /\ Cached(sHost)' \in SUBSET Cached(sHost)
      /\ IsFiniteSet(Adding(sHost)) /\ Adding(sHost)' \in SUBSET Adding(sHost)
  BY CountTypes DEF CacheInv, Cached
<1>2. /\ Cardinality(Cached(sHost)') <= Cardinality(Cached(sHost))
      /\ Cardinality(Adding(sHost)') <= Cardinality(Adding(sHost))
  BY <1>1, FS_Subset
<1>3. /\ Cardinality(Cached(sHost)') \in Nat /\ Cardinality(Cached(sHost)) \in Nat
      /\ Cardinality(Adding(sHost)') \in Nat /\ Cardinality(Adding(sHost)) \in Nat
      /\ Cardinality(LookupThreads) \in Nat
  <2>1. /\ Cardinality(Cached(sHost)) \in Nat /\ Cardinality(Adding(sHost)) \in Nat
        /\ Cardinality(LookupThreads) \in Nat
    BY CountTypes DEF CacheInv
  <2>2. IsFiniteSet(Cached(sHost)') /\ IsFiniteSet(Adding(sHost)')
    BY <1>1, FS_Subset
  <2> QED BY <2>1, <2>2, FS_CardinalityType
<1>4. Cardinality(Cached(sHost)) + Cardinality(Adding(sHost)) <= Cardinality(LookupThreads)
  BY DEF CacheInv, CountInv
<1> QED BY <1>2, <1>3, <1>4

\* What the steps of a thread in lookupHost() make of `looking`.
Moved(t, obj, at) == [looking EXCEPT ![t].obj = obj, ![t].at = at]
GoneOn(t, at)     == [looking EXCEPT ![t].at = at]
Copied(t, ips)    == [looking EXCEPT ![t].obj.addresses = ips]

\* A step changes what the thread found and where it is.
LEMMA LookingMoves ==
  ASSUME LookupTypeInv, NEW t \in LookupThreads, NEW obj, NEW at
  PROVE  Moved(t, obj, at)
           = [looking EXCEPT ![t] = [name |-> looking[t].name, obj |-> obj, at |-> at]]
<1>1. [looking[t] EXCEPT !.obj = obj] = [name |-> looking[t].name, obj |-> obj, at |-> looking[t].at]
  BY DEF LookupTypeInv
<1>2. [[name |-> looking[t].name, obj |-> obj, at |-> looking[t].at] EXCEPT !.at = at]
        = [name |-> looking[t].name, obj |-> obj, at |-> at]
  OBVIOUS
<1> DEFINE first == [looking EXCEPT ![t] = [looking[t] EXCEPT !.obj = obj]]
<1>3. first[t] = [looking[t] EXCEPT !.obj = obj]
  BY DEF LookupTypeInv
<1>4. [first EXCEPT ![t] = [first[t] EXCEPT !.at = at]]
        = [first EXCEPT ![t] = [name |-> looking[t].name, obj |-> obj, at |-> at]]
  BY <1>1, <1>2, <1>3
<1>5. \A l : [first EXCEPT ![t] = l] = [looking EXCEPT ![t] = l]
  BY DEF LookupTypeInv
<1> QED BY <1>4, <1>5 DEF Moved

\* One that only goes on to another place keeps what it found,
LEMMA LookingGoesOn ==
  ASSUME LookupTypeInv, NEW t \in LookupThreads, NEW at
  PROVE  GoneOn(t, at)
           = [looking EXCEPT ![t] = [name |-> looking[t].name, obj |-> looking[t].obj, at |-> at]]
<1>1. [looking[t] EXCEPT !.at = at] = [name |-> looking[t].name, obj |-> looking[t].obj, at |-> at]
  BY DEF LookupTypeInv
<1> DEFINE l == [looking[t] EXCEPT !.at = at]
<1>2. GoneOn(t, at) = [looking EXCEPT ![t] = l]
  BY Zenon DEF GoneOn
<1> QED BY <1>1, <1>2

\* and one that copies an address keeps its place.
LEMMA LookingCopies ==
  ASSUME LookupTypeInv, NEW t \in LookupThreads, NEW ips, looking[t].obj \in LookupObjects
  PROVE  Copied(t, ips)
           = [looking EXCEPT ![t] = [name |-> looking[t].name, at |-> looking[t].at,
                                     obj |-> LookupObject(looking[t].obj.name, ips)]]
<1>1. [looking[t].obj EXCEPT !.addresses = ips] = LookupObject(looking[t].obj.name, ips)
  BY DEF LookupObjects, LookupObject
<1> DEFINE obj == [looking[t].obj EXCEPT !.addresses = ips]
<1>2. [looking[t] EXCEPT !.obj = obj] = [name |-> looking[t].name, at |-> looking[t].at, obj |-> obj]
  BY SMTT(30) DEF LookupTypeInv
<1> QED BY <1>1, <1>2 DEF Copied

\* None of these changes the name that is looked up.
LEMMA NameStays ==
  ASSUME LookupTypeInv, NEW t \in LookupThreads, NEW obj, NEW at, NEW ips,
         \/ looking' = Moved(t, obj, at)
         \/ looking' = GoneOn(t, at)
         \/ looking[t].obj \in LookupObjects /\ looking' = Copied(t, ips)
  PROVE  \A u \in LookupThreads : looking'[u].name = looking[u].name
<1>1. PICK l : looking' = [looking EXCEPT ![t] = l] /\ l.name = looking[t].name
  <2> DEFINE moved  == [name |-> looking[t].name, obj |-> obj, at |-> at]
             gone   == [name |-> looking[t].name, obj |-> looking[t].obj, at |-> at]
             copied == [name |-> looking[t].name, at |-> looking[t].at,
                        obj |-> LookupObject(looking[t].obj.name, ips)]
  <2>1. \/ looking' = [looking EXCEPT ![t] = moved]
        \/ looking' = [looking EXCEPT ![t] = gone]
        \/ looking' = [looking EXCEPT ![t] = copied]
    BY LookingMoves, LookingGoesOn, LookingCopies
  <2>2. moved.name = looking[t].name /\ gone.name = looking[t].name /\ copied.name = looking[t].name
    OBVIOUS
  <2> QED BY <2>1, <2>2
<1> QED BY <1>1 DEF LookupTypeInv

\* The invariant of the cache is kept by a search,
LEMMA FindObjInv ==
  ASSUME CacheInv, NEW t \in LookupThreads, FindObj(t)
  PROVE  CacheInv'
<1> DEFINE n == looking[t].name
           obj == findObj(n)
           l == [name |-> n, obj |-> obj, at |-> IF obj = NONE THEN "gethostbyname" ELSE "done"]
<1>1. /\ n \in DOMAIN Answers /\ list' = list /\ looking' = [looking EXCEPT ![t] = l]
      /\ hostent' = hostent /\ mixed' = mixed
  <2>1. looking' = Moved(t, obj, IF obj = NONE THEN "gethostbyname" ELSE "done")
    BY DEF FindObj, Moved
  <2>2. looking' = [looking EXCEPT ![t] = l]
    BY <2>1, LookingMoves DEF CacheInv
  <2> QED BY <2>2 DEF FindObj, CacheInv, LookingInv, resolverVars
<1>2. /\ obj = NONE <=> Cached(n) = {}
      /\ obj # NONE => obj \in LookupObjects /\ obj.name = n /\ Honest(obj, mixed)
  <2>1. LookupTypeInv /\ HonestInv
    BY DEF CacheInv
  <2> HIDE DEF obj
  <2> QED BY <2>1, findObjFinds DEF obj
<1> HIDE DEF obj
<1>3. looking'[t] = [name |-> n, obj |-> obj, at |-> IF obj = NONE THEN "gethostbyname" ELSE "done"]
  BY <1>1 DEF CacheInv, LookupTypeInv
<1>4. \A u \in LookupThreads \ {t} : looking'[u] = looking[u]
  BY <1>1 DEF CacheInv, LookupTypeInv
<1>5. LookupTypeInv'
  <2>1. l \in [name : Names, obj : LookupObjects \union {NONE}, at : LookupPlaces]
    BY <1>1, <1>2 DEF LookupPlaces, Names
  <2> QED BY <1>1, <2>1 DEF CacheInv, LookupTypeInv
<1>6. LookingInv'
  <2>1. n \in DOMAIN Answers
    BY <1>1
  <2> QED BY <1>2, <1>3, <1>4, <2>1 DEF CacheInv, LookingInv
<1>9. HonestInv'
  BY <1>1, <1>2, <1>3, <1>4 DEF CacheInv, HonestInv
<1>7. CASE obj # NONE
  <2>1. \A sHost \in DOMAIN Answers : Adding(sHost)' \subseteq Adding(sHost)
    BY <1>3, <1>4, <1>7 DEF Adding
  <2> QED BY <1>1, <1>5, <1>6, <1>9, <2>1, FewerAdd DEF CacheInv
<1>8. CASE obj = NONE
  <2>1. ASSUME NEW sHost \in DOMAIN Answers
        PROVE  Cardinality(Cached(sHost)') + Cardinality(Adding(sHost)') <= Cardinality(LookupThreads)
    <3>1. CASE sHost = n
      <4>1. Cached(sHost)' = {}
        BY <1>1, <1>2, <1>8, <3>1 DEF Cached
      <4>2. Cardinality(Cached(sHost)') = 0
        BY <4>1, FS_EmptySet
      <4>3. Adding(sHost)' \in SUBSET LookupThreads
        BY DEF Adding
      <4>4. /\ Cardinality(Adding(sHost)') \in Nat
            /\ Cardinality(Adding(sHost)') <= Cardinality(LookupThreads)
        BY <4>3, ThreadsAssumption, FS_Subset, FS_CardinalityType
      <4> QED BY <4>2, <4>4
    <3>2. CASE sHost # n
      <4>1. Adding(sHost)' = Adding(sHost)
        BY <1>3, <1>4, <3>2 DEF Adding
      <4>3. Cached(sHost)' = Cached(sHost)
        BY <1>1 DEF Cached
      <4>2. Cardinality(Cached(sHost)) + Cardinality(Adding(sHost)) <= Cardinality(LookupThreads)
        BY DEF CacheInv, CountInv
      <4> QED BY <4>1, <4>2, <4>3
    <3> QED BY <3>1, <3>2
  <2> QED BY <1>5, <1>6, <1>9, <2>1 DEF CacheInv, CountInv
<1> QED BY <1>7, <1>8

\* by a thread that resolves the name, whatever step of it,
LEMMA ResolvesInv ==
  ASSUME CacheInv, NEW t \in LookupThreads, NEW obj \in LookupObjects \union {NONE},
         NEW at \in LookupPlaces \ {"idle", "find"},
         looking[t].at \in {"gethostbyname", "copy", "getaddrinfo"},
         looking' = [looking EXCEPT ![t] = [name |-> looking[t].name, obj |-> obj, at |-> at]],
         list' = list, hostent' \in Seq(Addresses), mixed \subseteq mixed',
         obj # NONE => obj.name = looking[t].name /\ Honest(obj, mixed'),
         at \in {"copy", "add"} => obj # NONE,
         \A u \in LookupThreads :
           looking'[u].at = "copy" /\ looking'[u].name \notin mixed' => CopiesItsOwn(looking'[u], hostent')
  PROVE  CacheInv'
<1> DEFINE n == looking[t].name
<1>1. n \in DOMAIN Answers
  BY DEF CacheInv, LookingInv
<1>2. looking'[t] = [name |-> n, obj |-> obj, at |-> at]
  BY DEF CacheInv, LookupTypeInv
<1>3. \A u \in LookupThreads \ {t} : looking'[u] = looking[u]
  BY DEF CacheInv, LookupTypeInv
<1>4. LookupTypeInv'
  <2>1. [name |-> n, obj |-> obj, at |-> at] \in [name : Names, obj : LookupObjects \union {NONE}, at : LookupPlaces]
    BY <1>1 DEF Names
  <2> QED BY <2>1 DEF CacheInv, LookupTypeInv
<1>5. LookingInv'
  BY <1>1, <1>2, <1>3 DEF CacheInv, LookingInv
<1>6. HonestInv'
  <2>1. \A i \in DOMAIN list : Honest(list[i], mixed')
    BY HonestStays DEF CacheInv, HonestInv
  <2>2. \A u \in LookupThreads \ {t} : looking[u].obj # NONE => Honest(looking[u].obj, mixed')
    BY HonestStays DEF CacheInv, HonestInv
  <2> QED BY <1>2, <1>3, <2>1, <2>2 DEF HonestInv
<1>7. \A sHost \in DOMAIN Answers : Adding(sHost)' \subseteq Adding(sHost)
  BY <1>1, <1>2, <1>3 DEF Adding
<1> QED BY <1>4, <1>5, <1>6, <1>7, FewerAdd DEF CacheInv

\* by gethostbyname(), which may take the hostent from others,
LEMMA gethostbynameInv ==
  ASSUME CacheInv, NEW t \in LookupThreads, gethostbyname(t)
  PROVE  CacheInv'
<1> DEFINE n == looking[t].name
<1>1. /\ n \in DOMAIN Answers /\ list' = list /\ looking[t].at = "gethostbyname"
      /\ mixed' = mixed \union Copying(t)
      /\ looking[t].obj \in LookupObjects \union {NONE}
      /\ looking[t].obj # NONE => looking[t].obj.name = n /\ Honest(looking[t].obj, mixed)
  BY DEF gethostbyname, CacheInv, LookingInv, LookupTypeInv, HonestInv
<1>2. \A u \in LookupThreads \ {t} : looking[u].at = "copy" => looking[u].name \in mixed'
  BY <1>1 DEF Copying
<1>3. PICK ips \in Answers[n] :
        IF ips = <<>>
        THEN /\ looking' = GoneOn(t, "getaddrinfo")
             /\ hostent' \in Leftovers
        ELSE /\ looking' = Moved(t, LookupObject(n, <<>>), "copy")
             /\ hostent' = ips
  BY DEF gethostbyname, GoneOn, Moved
<1>4. CASE ips = <<>>
  <2>1. looking' = [looking EXCEPT ![t] = [name |-> n, obj |-> looking[t].obj, at |-> "getaddrinfo"]]
    BY <1>3, <1>4, LookingGoesOn DEF CacheInv
  <2>2. hostent' \in Seq(Addresses)
    BY <1>3, <1>4, AnswersAssumption
  <2>3. looking[t].obj # NONE => looking[t].obj.name = n /\ Honest(looking[t].obj, mixed')
    BY <1>1, HonestStays
  <2>4. \A u \in LookupThreads : looking'[u].at = "copy" => looking'[u].name \in mixed'
    BY <1>2, <2>1 DEF CacheInv, LookupTypeInv
  <2> QED BY <1>1, <2>1, <2>2, <2>3, <2>4, ResolvesInv DEF LookupPlaces
<1>5. CASE ips # <<>>
  <2> DEFINE obj == LookupObject(n, <<>>)
  <2>1. /\ obj \in LookupObjects /\ obj # NONE /\ obj.name = n /\ obj.addresses = <<>>
    <3>1. <<>> \in Seq(Addresses)
      OBVIOUS
    <3> QED BY <1>1, <3>1, ObjectOf
  <2> HIDE DEF obj
  <2>2. looking' = [looking EXCEPT ![t] = [name |-> n, obj |-> obj, at |-> "copy"]] /\ hostent' = ips
    BY <1>3, <1>5, LookingMoves DEF CacheInv, obj
  <2>3. hostent' \in Seq(AddressesOf(n)) /\ hostent' \in Seq(Addresses)
    BY <1>1, <2>2, AnswerOf
  <2>4. looking'[t] = [name |-> n, obj |-> obj, at |-> "copy"]
    BY <2>2 DEF CacheInv, LookupTypeInv
  <2>5. CopiesItsOwn(looking'[t], hostent')
    BY <2>1, <2>3, <2>4 DEF CopiesItsOwn
  <2>6. \A u \in LookupThreads \ {t} : looking'[u] = looking[u]
    BY <2>2 DEF CacheInv, LookupTypeInv
  <2>7. Honest(obj, mixed')
    <3>1. <<>> \in Seq(AddressesOf(n))
      OBVIOUS
    <3> QED BY <2>1, <3>1 DEF Honest
  <2> QED BY <1>1, <1>2, <2>1, <2>2, <2>3, <2>5, <2>6, <2>7, ResolvesInv DEF LookupPlaces
<1> QED BY <1>4, <1>5

\* by the copy of an address, which is one of the name as long as the hostent is,
LEMMA CopyAddressInv ==
  ASSUME CacheInv, NEW t \in LookupThreads, CopyAddress(t)
  PROVE  CacheInv'
<1> DEFINE n == looking[t].name
           obj == looking[t].obj
           ips == obj.addresses
<1>1. /\ n \in DOMAIN Answers /\ list' = list /\ looking[t].at = "copy"
      /\ hostent' = hostent /\ hostent' \in Seq(Addresses) /\ mixed' = mixed
      /\ obj \in LookupObjects /\ obj # NONE /\ obj.name = n /\ Honest(obj, mixed)
  BY DEF CopyAddress, CacheInv, LookingInv, LookupTypeInv, HonestInv, resolverVars
<1>2. ips \in Seq(Addresses)
  BY <1>1, ObjectFields
<1>3. \A u \in LookupThreads : looking[u].at = "copy" /\ looking[u].name \notin mixed => CopiesItsOwn(looking[u], hostent)
  BY DEF CacheInv, HonestInv
<1>4. PICK address \in addressAt(Len(ips) + 1) :
        looking' = IF address # NONE THEN Copied(t, Append(ips, address))
                   ELSE IF ips = <<>> THEN Moved(t, NONE, "getaddrinfo")
                   ELSE GoneOn(t, "add")
  BY DEF CopyAddress, Copied, Moved, GoneOn
<1>5. CASE address # NONE
  <2> DEFINE more == LookupObject(n, Append(ips, address))
  <2>1. address \in Addresses
    BY <1>1, <1>2, <1>4, <1>5, AnswersAssumption DEF addressAt
  <2>2. Append(ips, address) \in Seq(Addresses)
    BY <1>2, <2>1
  <2>3. more \in LookupObjects /\ more # NONE /\ more.name = n /\ more.addresses = Append(ips, address)
    BY <1>1, <2>2, ObjectOf
  <2>4. looking' = [looking EXCEPT ![t] = [name |-> n, obj |-> more, at |-> "copy"]]
    <3>1. LookupTypeInv
      BY DEF CacheInv
    <3>2. looking' = Copied(t, Append(ips, address))
      BY <1>4, <1>5
    <3>3. looking' = [looking EXCEPT ![t] = [name |-> n, at |-> looking[t].at, obj |-> more]]
      BY <1>1, <3>1, <3>2, LookingCopies
    <3> QED BY <1>1, <3>3
  <2>5. n \notin mixed => /\ hostent \in Seq(AddressesOf(n)) /\ Len(ips) + 1 <= Len(hostent)
                          /\ Append(ips, address) \in Seq(AddressesOf(n))
    <3> SUFFICES ASSUME n \notin mixed
                 PROVE  /\ hostent \in Seq(AddressesOf(n)) /\ Len(ips) + 1 <= Len(hostent)
                        /\ Append(ips, address) \in Seq(AddressesOf(n))
      OBVIOUS
    <3>1. hostent \in Seq(AddressesOf(n)) /\ Len(ips) <= Len(hostent) /\ ips \in Seq(AddressesOf(n))
      BY <1>1, <1>3 DEF CopiesItsOwn, Honest
    <3>2. Len(ips) + 1 <= Len(hostent) /\ address = hostent[Len(ips) + 1]
      BY <1>2, <1>4, <1>5, <3>1 DEF addressAt
    <3>3. address \in AddressesOf(n)
      BY <3>1, <3>2
    <3> QED BY <3>1, <3>2, <3>3
  <2> HIDE DEF more
  <2>6. Honest(more, mixed')
    BY <1>1, <2>3, <2>5 DEF Honest
  <2>7. looking'[t] = [name |-> n, obj |-> more, at |-> "copy"]
        /\ \A u \in LookupThreads \ {t} : looking'[u] = looking[u]
    BY <2>4 DEF CacheInv, LookupTypeInv
  <2>8. n \notin mixed => CopiesItsOwn(looking'[t], hostent')
    <3>1. Len(Append(ips, address)) = Len(ips) + 1
      BY <1>2
    <3> QED BY <1>1, <2>3, <2>5, <2>7, <3>1 DEF CopiesItsOwn
  <2>9. \A u \in LookupThreads :
          looking'[u].at = "copy" /\ looking'[u].name \notin mixed' => CopiesItsOwn(looking'[u], hostent')
    BY <1>1, <1>3, <2>7, <2>8
  <2> QED BY <1>1, <2>3, <2>4, <2>6, <2>9, ResolvesInv DEF LookupPlaces
<1>6. ASSUME NEW o \in {NONE, obj}, NEW at \in {"getaddrinfo", "add"}, at = "add" => o = obj,
             looking' = [looking EXCEPT ![t] = [name |-> n, obj |-> o, at |-> at]]
      PROVE  CacheInv'
  <2>1. o \in LookupObjects \union {NONE} /\ (o # NONE => o.name = n /\ Honest(o, mixed'))
    BY <1>1
  <2>2. at \in LookupPlaces \ {"idle", "find"} /\ (at \in {"copy", "add"} => o # NONE)
    BY <1>1, <1>6 DEF LookupPlaces
  <2>3. looking'[t].at = at /\ \A u \in LookupThreads \ {t} : looking'[u] = looking[u]
    BY <1>6 DEF CacheInv, LookupTypeInv
  <2>4. \A u \in LookupThreads :
          looking'[u].at = "copy" /\ looking'[u].name \notin mixed' => CopiesItsOwn(looking'[u], hostent')
    BY <1>1, <1>3, <2>3
  <2> HIDE DEF obj
  <2> QED BY <1>1, <1>6, <2>1, <2>2, <2>4, ResolvesInv
<1>7. CASE address = NONE /\ ips = <<>>
  <2>1. looking' = [looking EXCEPT ![t] = [name |-> n, obj |-> NONE, at |-> "getaddrinfo"]]
    BY <1>4, <1>7, LookingMoves DEF CacheInv
  <2> QED BY <1>6, <2>1
<1>8. CASE address = NONE /\ ips # <<>>
  <2>1. looking' = [looking EXCEPT ![t] = [name |-> n, obj |-> obj, at |-> "add"]]
    BY <1>4, <1>8, LookingGoesOn DEF CacheInv
  <2> QED BY <1>6, <2>1
<1> QED BY <1>5, <1>7, <1>8

\* by getaddrinfo(), whose answer is the thread's own,
LEMMA getaddrinfoInv ==
  ASSUME CacheInv, NEW t \in LookupThreads, getaddrinfo(t)
  PROVE  CacheInv'
<1> DEFINE n == looking[t].name
<1>1. /\ n \in DOMAIN Answers /\ list' = list /\ looking[t].at = "getaddrinfo"
      /\ hostent' = hostent /\ hostent' \in Seq(Addresses) /\ mixed' = mixed
      /\ looking[t].obj \in LookupObjects \union {NONE}
      /\ looking[t].obj # NONE => looking[t].obj.name = n /\ Honest(looking[t].obj, mixed)
      /\ \A u \in LookupThreads : looking[u].at = "copy" /\ looking[u].name \notin mixed => CopiesItsOwn(looking[u], hostent)
  BY DEF getaddrinfo, CacheInv, LookingInv, LookupTypeInv, HonestInv, resolverVars
<1>2. PICK ips \in Answers[n] :
        looking' = IF ips = <<>> THEN GoneOn(t, "done") ELSE Moved(t, LookupObject(n, ips), "add")
  BY DEF getaddrinfo, GoneOn, Moved
<1> DEFINE own == LookupObject(n, ips)
<1>3. /\ own \in LookupObjects /\ own # NONE /\ own.name = n /\ own.addresses = ips
      /\ ips \in Seq(AddressesOf(n))
  BY <1>1, AnswerOf, ObjectOf
<1> DEFINE o == IF ips = <<>> THEN looking[t].obj ELSE own
           at == IF ips = <<>> THEN "done" ELSE "add"
<1>4. looking' = [looking EXCEPT ![t] = [name |-> n, obj |-> o, at |-> at]]
  <2>1. CASE ips = <<>>
    BY <1>2, <2>1, LookingGoesOn DEF CacheInv
  <2>2. CASE ips # <<>>
    <3>1. looking' = [looking EXCEPT ![t] = [name |-> n, obj |-> own, at |-> "add"]]
      BY <1>2, <2>2, LookingMoves DEF CacheInv
    <3> QED BY <2>2, <3>1
  <2> QED BY <2>1, <2>2
<1> HIDE DEF own
<1>5. /\ o \in LookupObjects \union {NONE} /\ (o # NONE => o.name = n /\ Honest(o, mixed'))
      /\ at \in LookupPlaces \ {"idle", "find"} /\ at # "copy" /\ (at \in {"copy", "add"} => o # NONE)
  BY <1>1, <1>3 DEF Honest, LookupPlaces
<1> HIDE DEF o, at
<1>6. looking'[t].at = at /\ \A u \in LookupThreads \ {t} : looking'[u] = looking[u]
  BY <1>4 DEF CacheInv, LookupTypeInv
<1>7. \A u \in LookupThreads :
        looking'[u].at = "copy" /\ looking'[u].name \notin mixed' => CopiesItsOwn(looking'[u], hostent')
  BY <1>1, <1>5, <1>6
<1> QED BY <1>1, <1>4, <1>5, <1>7, ResolvesInv

\* by what is added,
LEMMA AddObjectInv ==
  ASSUME CacheInv, NEW t \in LookupThreads, AddObject(t)
  PROVE  CacheInv'
<1> DEFINE n == looking[t].name
           obj == looking[t].obj
<1>1. /\ n \in DOMAIN Answers /\ looking[t].at = "add"
      /\ obj \in LookupObjects /\ obj.name = n
      /\ list \in Seq(LookupObjects) /\ list' = Append(list, obj)
      /\ hostent' = hostent /\ mixed' = mixed /\ Honest(obj, mixed)
  BY DEF AddObject, CacheInv, LookingInv, LookupTypeInv, HonestInv, resolverVars
<1>2. looking'[t] = [name |-> n, obj |-> obj, at |-> "done"]
  BY DEF AddObject, CacheInv, LookupTypeInv
<1>3. \A u \in LookupThreads \ {t} : looking'[u] = looking[u]
  BY DEF AddObject, CacheInv, LookupTypeInv
<1>4. LookupTypeInv'
  BY <1>1 DEF AddObject, CacheInv, LookupTypeInv, LookupPlaces
<1>5. LookingInv'
  BY <1>1, <1>2, <1>3 DEF CacheInv, LookingInv
<1>7. HonestInv'
  <2>1. \A i \in DOMAIN list' : Honest(list'[i], mixed)
    BY <1>1 DEF CacheInv, HonestInv
  <2> QED BY <1>1, <1>2, <1>3, <2>1 DEF CacheInv, HonestInv
<1>6. ASSUME NEW sHost \in DOMAIN Answers
      PROVE  Cardinality(Cached(sHost)') + Cardinality(Adding(sHost)') <= Cardinality(LookupThreads)
  <2>1. /\ IsFiniteSet(Cached(sHost)) /\ Cardinality(Cached(sHost)) \in Nat
        /\ IsFiniteSet(Adding(sHost)) /\ Cardinality(Adding(sHost)) \in Nat
        /\ Cardinality(LookupThreads) \in Nat
        /\ Cardinality(Cached(sHost)) + Cardinality(Adding(sHost)) <= Cardinality(LookupThreads)
    BY CountTypes DEF CacheInv, CountInv
  <2>2. CASE sHost = n
    <3>1. Cached(sHost)' = Cached(sHost) \union {Len(list) + 1} /\ Len(list) + 1 \notin Cached(sHost)
      BY <1>1, <2>2 DEF Cached
    <3>2. Adding(sHost)' = Adding(sHost) \ {t} /\ t \in Adding(sHost)
      BY <1>1, <1>2, <1>3, <2>2 DEF Adding
    <3>3. Cardinality(Cached(sHost)') = Cardinality(Cached(sHost)) + 1
      BY <2>1, <3>1, FS_AddElement
    <3>4. Cardinality(Adding(sHost)') = Cardinality(Adding(sHost)) - 1
      BY <2>1, <3>2, FS_RemoveElement
    <3> QED BY <2>1, <3>3, <3>4
  <2>3. CASE sHost # n
    <3>1. Cached(sHost)' = Cached(sHost)
      BY <1>1, <2>3 DEF Cached
    <3>2. Adding(sHost)' = Adding(sHost)
      BY <1>1, <1>2, <1>3, <2>3 DEF Adding
    <3> QED BY <2>1, <3>1, <3>2
  <2> QED BY <2>2, <2>3
<1> QED BY <1>4, <1>5, <1>6, <1>7 DEF CacheInv, CountInv

\* A thread that begins to look for a host, or is done, may add nothing.
LEMMA LookingElsewhere ==
  ASSUME CacheInv, NEW t \in LookupThreads, NEW l,
         looking' = [looking EXCEPT ![t] = l], list' = list \/ list' = <<>>,
         l = NotLooking \/ \E sHost \in DOMAIN Answers : l = lookupOf(sHost), UNCHANGED resolverVars
  PROVE  CacheInv'
<1>1. /\ l \in [name : Names, obj : LookupObjects \union {NONE}, at : LookupPlaces]
      /\ l.at \in {"idle", "find"} /\ l.obj = NONE /\ (l.at # "idle" => l.name \in DOMAIN Answers)
  BY DEF NotLooking, lookupOf, Names, LookupPlaces
<1>2. looking'[t] = l /\ \A u \in LookupThreads \ {t} : looking'[u] = looking[u]
  BY DEF CacheInv, LookupTypeInv
<1>3. LookupTypeInv'
  <2>1. <<>> \in Seq(LookupObjects)
    OBVIOUS
  <2>2. list' \in Seq(LookupObjects)
    BY <2>1 DEF CacheInv, LookupTypeInv
  <2> QED BY <1>1, <2>2 DEF CacheInv, LookupTypeInv, resolverVars
<1>4. LookingInv'
  BY <1>1, <1>2 DEF CacheInv, LookingInv
<1>6. HonestInv'
  <2>1. DOMAIN list' \subseteq DOMAIN list /\ \A i \in DOMAIN list' : list'[i] = list[i]
    OBVIOUS
  <2> QED BY <1>1, <1>2, <2>1 DEF CacheInv, HonestInv, resolverVars
<1>5. \A sHost \in DOMAIN Answers : Adding(sHost)' \subseteq Adding(sHost)
  BY <1>1, <1>2 DEF Adding
<1> QED BY <1>3, <1>4, <1>5, <1>6, FewerAdd DEF CacheInv

\* and where nothing changes.
LEMMA CacheStays ==
  ASSUME CacheInv, UNCHANGED lookupVars
  PROVE  CacheInv'
BY DEF CacheInv, LookupTypeInv, LookingInv, HonestInv, CountInv, Cached, Adding, lookupVars, resolverVars

\* A step of a lookup keeps it, the names that are looked up, and what was mixed.
LEMMA LookupStepInv ==
  ASSUME CacheInv, NEW t \in LookupThreads, LookupStep(t)
  PROVE  /\ CacheInv' /\ mixed \subseteq mixed'
         /\ \A u \in LookupThreads : looking'[u].name = looking[u].name
<1>1. CacheInv'
  BY FindObjInv, gethostbynameInv, CopyAddressInv, getaddrinfoInv, AddObjectInv DEF LookupStep
<1>2. mixed \subseteq mixed'
  BY DEF LookupStep, FindObj, gethostbyname, CopyAddress, getaddrinfo, AddObject, resolverVars
<1>3. \A u \in LookupThreads : looking'[u].name = looking[u].name
  <2>1. CASE FindObj(t)
    BY <2>1 DEF FindObj, CacheInv, LookupTypeInv
  <2>2. CASE gethostbyname(t)
    <3>1. \/ looking' = GoneOn(t, "getaddrinfo")
          \/ looking' = Moved(t, LookupObject(looking[t].name, <<>>), "copy")
      BY <2>2, Zenon DEF gethostbyname, GoneOn, Moved
    <3> QED BY <3>1, NameStays DEF CacheInv
  <2>3. CASE CopyAddress(t)
    <3>1. \/ \E ips : looking' = Copied(t, ips)
          \/ looking' = Moved(t, NONE, "getaddrinfo")
          \/ looking' = GoneOn(t, "add")
      BY <2>3, Zenon DEF CopyAddress, Copied, Moved, GoneOn
    <3>2. looking[t].obj \in LookupObjects
      BY <2>3 DEF CopyAddress, CacheInv, LookingInv, LookupTypeInv
    <3> QED BY <3>1, <3>2, NameStays DEF CacheInv
  <2>4. CASE getaddrinfo(t)
    BY <2>4 DEF getaddrinfo, CacheInv, LookupTypeInv
  <2>5. CASE AddObject(t)
    BY <2>5 DEF AddObject, CacheInv, LookupTypeInv
  <2> QED BY <2>1, <2>2, <2>3, <2>4, <2>5 DEF LookupStep
<1> QED BY <1>1, <1>2, <1>3

(***************************************************************************)
(* The URI of a thread                                                      *)
(***************************************************************************)

IsHost(h) == h \in [name : DOMAIN Answers, addresses : {h.addresses}]

IsUri(u) ==
  /\ u \in [protocol : {u.protocol}, user : {u.user}, pass : {u.pass}, host : {u.host},
           port : {u.port}, path : {u.path}, query : {u.query}]
  /\ IsHost(u.host)

\* A connection is to an address of its host, but for those of the names that are excepted.
GoesToItsHost(c, but) == c.host \notin but => c.address \in AddressesOf(c.host)

\* An object of the cache is a host.
LEMMA ObjectIsHost ==
  ASSUME NEW obj \in LookupObjects
  PROVE  IsHost(obj)
<1>1. obj = LookupObject(obj.name, obj.addresses) /\ obj.name \in DOMAIN Answers
  BY ObjectFields
<1> QED BY <1>1 DEF IsHost, LookupObject

\* So is the host of a fresh URI.
LEMMA NoUriIsUri == IsUri(NoUri) /\ (\A but : Honest(NoUri.host, but)) /\ NoUri.host.addresses = <<>>
<1>1. IsUri(NoUri) /\ NoUri.host.addresses = <<>>
  BY UrisAssumption DEF IsUri, IsHost, NoUri, LookupObject
<1>2. <<>> \in Seq(AddressesOf(NoUri.host.name))
  OBVIOUS
<1> QED BY <1>1, <1>2 DEF Honest

\* The addresses of a host are those of its name.
LEMMA HonestAddresses ==
  ASSUME NEW h, NEW but, Honest(h, but), h.name \notin but
  PROVE  /\ Range(h.addresses) \subseteq AddressesOf(h.name)
         /\ h.addresses # <<>> => Head(h.addresses) \in AddressesOf(h.name)
<1>1. h.addresses \in Seq(AddressesOf(h.name))
  BY DEF Honest
<1> QED BY <1>1 DEF Range

\* The fields of an URI that are not its host.
LEMMA OtherField ==
  ASSUME NEW u, IsUri(u), NEW v, NEW w,
         \/ w = [u EXCEPT !.protocol = v] \/ w = [u EXCEPT !.user = v] \/ w = [u EXCEPT !.pass = v]
         \/ w = [u EXCEPT !.port = v] \/ w = [u EXCEPT !.path = v] \/ w = [u EXCEPT !.query = v]
  PROVE  IsUri(w) /\ w.host = u.host
<1>1. CASE w = [u EXCEPT !.protocol = v]
  BY <1>1 DEF IsUri
<1>2. CASE w = [u EXCEPT !.user = v]
  BY <1>2 DEF IsUri
<1>3. CASE w = [u EXCEPT !.pass = v]
  BY <1>3 DEF IsUri
<1>4. CASE w = [u EXCEPT !.port = v]
  BY <1>4 DEF IsUri
<1>5. CASE w = [u EXCEPT !.path = v]
  BY <1>5 DEF IsUri
<1>6. CASE w = [u EXCEPT !.query = v]
  BY <1>6 DEF IsUri
<1> QED BY <1>1, <1>2, <1>3, <1>4, <1>5, <1>6

\* An URI with another host.
LEMMA HostField ==
  ASSUME NEW u, IsUri(u), NEW h, IsHost(h)
  PROVE  LET w == [u EXCEPT !.host = h] IN IsUri(w) /\ w.host = h
BY DEF IsUri

\* Only a port changes the host, and only its name.
LEMMA parsedHost ==
  ASSUME NEW u, IsUri(u), NEW p, p.host \in DOMAIN Answers, NEW bClearVars \in BOOLEAN
  PROVE  LET w == parsed(u, p, bClearVars) IN
         /\ IsUri(w)
         /\ w.host.addresses = u.host.addresses
         /\ p.port = NONE => w.host = u.host
<1> DEFINE part(field) == Or(p[field], IF bClearVars THEN <<>> ELSE u[field])
           a == [u EXCEPT !.protocol = part("protocol")]
           b == [a EXCEPT !.user = part("user")]
           c == [b EXCEPT !.pass = part("pass")]
           d == [c EXCEPT !.path = p.path]
           named == [d EXCEPT !.query = Or(p.query, <<>>)]
           ported == [named EXCEPT !.port = asInteger(p.port)]
           hosted == [ported EXCEPT !.host.name = p.host]
<1>1. parsed(u, p, bClearVars) = IF p.port = NONE THEN named ELSE hosted
  BY DEF parsed
<1> HIDE DEF part
<1>2. IsUri(a) /\ a.host = u.host
  BY OtherField
<1> HIDE DEF a
<1>3. IsUri(b) /\ b.host = u.host
  BY <1>2, OtherField
<1> HIDE DEF b
<1>4. IsUri(c) /\ c.host = u.host
  BY <1>3, OtherField
<1> HIDE DEF c
<1>5. IsUri(d) /\ d.host = u.host
  BY <1>4, OtherField
<1> HIDE DEF d
<1>6. IsUri(named) /\ named.host = u.host
  BY <1>5, OtherField
<1> HIDE DEF named
<1>7. IsUri(ported) /\ ported.host = u.host
  BY <1>6, OtherField
<1> HIDE DEF ported
<1>8. IsUri(hosted) /\ hosted.host.addresses = u.host.addresses
  <2> DEFINE h == [ported.host EXCEPT !.name = p.host]
  <2>1. hosted = [ported EXCEPT !.host = h]
    OBVIOUS
  <2>2. IsHost(h) /\ h.addresses = u.host.addresses
    BY <1>7 DEF IsUri, IsHost
  <2> HIDE DEF h, hosted
  <2> QED BY <1>7, <2>1, <2>2, HostField
<1> HIDE DEF hosted
<1> QED BY <1>1, <1>6, <1>8

\* The host is then the one that was found, or it is none if bClearVars, or it stays.
LEMMA withHostHost ==
  ASSUME NEW u, IsUri(u), NEW obj \in LookupObjects \union {NONE}, NEW nonValid,
         NEW bClearVars \in BOOLEAN
  PROVE  LET w == withHost(u, obj, nonValid, bClearVars) IN
         /\ IsUri(w)
         /\ \/ w.host = obj /\ obj # NONE
            \/ bClearVars /\ w.host = NoUri.host
            \/ ~bClearVars /\ w.host = u.host
<1> DEFINE valid == obj # NONE /\ ~firstAddressEqualsOneOf(obj, nonValid)
           default == u.protocol \in DOMAIN DefaultPorts
           h == IF valid THEN obj ELSE IF bClearVars THEN NoUri.host ELSE u.host
           v == [u EXCEPT !.host = h]
           port == IF bClearVars /\ default THEN DefaultPorts[u.protocol] ELSE v.port
           w == [v EXCEPT !.port = port]
<1>1. IsHost(h) /\ \/ h = obj /\ obj # NONE
                   \/ bClearVars /\ h = NoUri.host
                   \/ ~bClearVars /\ h = u.host
  BY ObjectIsHost, NoUriIsUri DEF IsUri
<1>2. withHost(u, obj, nonValid, bClearVars) = w
  BY DEF withHost
<1> HIDE DEF h
<1>3. IsUri(v) /\ v.host = h
  BY <1>1, HostField
<1> HIDE DEF v, port
<1>4. IsUri(w) /\ w.host = h
  BY <1>3, OtherField
<1> HIDE DEF w
<1> QED BY <1>1, <1>2, <1>4

(***************************************************************************)
(* The threads: the inductive invariant                                     *)
(***************************************************************************)

Given == [uri : Uris, clear : BOOLEAN, stale : BOOLEAN]

UriTypeInv ==
  /\ uri \in [LookupThreads -> Range(uri)] /\ \A t \in LookupThreads : IsUri(uri[t])
  /\ step \in [LookupThreads -> {"idle", "host", "nonvalid", "get", "clear"}]
  /\ found \in [LookupThreads -> LookupObjects \union {NONE}]
  /\ given \in [LookupThreads -> Given \union {NONE}]
  /\ connection \in [LookupThreads -> Range(connection)]

\* The addresses of a thread's host are those of its name if they were not mixed, but for
\* an URI whose lookup is under way, and then it will replace them.
HostInv ==
  \A t \in LookupThreads :
    /\ given[t] = NONE => uri[t].host.addresses = <<>> /\ step[t] \in {"idle", "clear"}
    /\ given[t] # NONE /\ ~given[t].stale =>
         Honest(uri[t].host, mixed) \/ (step[t] \in {"host", "nonvalid"} /\ given[t].clear)

\* get() looks up the host of the URI, and connects to an address of it.
ConnectionInv ==
  \A t \in LookupThreads :
    /\ step[t] = "get" => looking[t].name = uri[t].host.name
    /\ given[t] # NONE /\ ~given[t].stale /\ connection[t] # NONE =>
         GoesToItsHost(connection[t], mixed)

\* So are those of a host that was found and not yet taken.
FoundInv == \A t \in LookupThreads : found[t] # NONE => Honest(found[t], mixed)

UriInv == CacheInv /\ UriTypeInv /\ HostInv /\ ConnectionInv /\ FoundInv

\* The invariant of Uri holds at the start.
LEMMA UriInitInv == UriInit => UriInv
<1> SUFFICES ASSUME UriInit PROVE UriInv
  OBVIOUS
<1>1. LookupTypeInv /\ LookingInv /\ HonestInv
  <2>1. <<>> \in Seq(LookupObjects) /\ <<>> \in Seq(Addresses)
    OBVIOUS
  <2>2. ASSUME NEW ips \in Answers[sNonValidHostName]
        PROVE  /\ LookupObject(sNonValidHostName, ips) \in LookupObjects
               /\ Honest(LookupObject(sNonValidHostName, ips), {})
    <3>1. sNonValidHostName \in DOMAIN Answers
      BY AnswersAssumption
    <3>2. ips \in Seq(AddressesOf(sNonValidHostName)) /\ ips \in Seq(Addresses)
      BY <3>1, AnswerOf
    <3> QED BY <3>1, <3>2, ObjectOf DEF Honest
  <2>3. list \in Seq(LookupObjects) /\ \A i \in DOMAIN list : Honest(list[i], {})
    <3>1. CASE list = <<>>
      BY <2>1, <3>1
    <3>2. ASSUME NEW ips \in Answers[sNonValidHostName], list = <<LookupObject(sNonValidHostName, ips)>>
          PROVE  list \in Seq(LookupObjects) /\ \A i \in DOMAIN list : Honest(list[i], {})
      <4> DEFINE obj == LookupObject(sNonValidHostName, ips)
      <4>1. obj \in LookupObjects /\ Honest(obj, {})
        BY <2>2
      <4> HIDE DEF obj
      <4>2. list = <<obj>>
        BY <3>2 DEF obj
      <4> QED BY <4>1, <4>2
    <3> QED BY <3>1, <3>2 DEF UriInit
  <2> QED BY <2>1, <2>3 DEF UriInit, LookupTypeInv, LookingInv, HonestInv, NotLooking, Names, LookupPlaces
<1>2. CountInv
  <2> SUFFICES ASSUME NEW sHost \in DOMAIN Answers
               PROVE  Cardinality(Cached(sHost)) + Cardinality(Adding(sHost)) <= Cardinality(LookupThreads)
    BY DEF CountInv
  <2>1. Adding(sHost) = {}
    BY DEF UriInit, Adding, NotLooking
  <2>2. Cached(sHost) \in SUBSET {1}
    BY DEF UriInit, Cached
  <2>3. Cardinality(Cached(sHost)) <= 1
    <3>1. IsFiniteSet({1}) /\ Cardinality({1}) = 1
      BY FS_Singleton
    <3>2. Cardinality(Cached(sHost)) <= Cardinality({1})
      BY <2>2, <3>1, FS_Subset
    <3> QED BY <3>1, <3>2
  <2>4. Cardinality(LookupThreads) \in Nat /\ Cardinality(LookupThreads) # 0
    BY ThreadsAssumption, FS_CardinalityType, FS_EmptySet
  <2>5. Cardinality(Cached(sHost)) \in Nat
    BY <1>1, CountTypes
  <2> QED BY <2>1, <2>3, <2>4, <2>5, FS_EmptySet
<1>3. UriTypeInv
  BY NoUriIsUri DEF UriInit, UriTypeInv, Range
<1>4. HostInv /\ ConnectionInv /\ FoundInv
  BY NoUriIsUri DEF UriInit, HostInv, ConnectionInv, FoundInv
<1> QED BY <1>1, <1>2, <1>3, <1>4 DEF UriInv, CacheInv

\* One thread's URI, or connection, is another.
LEMMA OneChanged ==
  ASSUME NEW f, f \in [LookupThreads -> Range(f)], NEW t \in LookupThreads, NEW v, NEW g,
         g = [f EXCEPT ![t] = v]
  PROVE  /\ g \in [LookupThreads -> Range(g)]
         /\ g[t] = v /\ \A u \in LookupThreads \ {t} : g[u] = f[u]
BY DEF Range

\* A thread looks for a host, from here on in `next`.
LEMMA LookUpLooks ==
  ASSUME CacheInv, UriTypeInv, NEW t \in LookupThreads, NEW sHost \in DOMAIN Answers,
         NEW next \in {"host", "nonvalid", "get", "clear"},
         LookUp(t, sHost, next), list' = list \/ list' = <<>>, UNCHANGED resolverVars
  PROVE  /\ CacheInv'
         /\ step' \in [LookupThreads -> {"idle", "host", "nonvalid", "get", "clear"}]
         /\ step'[t] = next /\ looking'[t].name = sHost
         /\ \A u \in LookupThreads \ {t} : step'[u] = step[u] /\ looking'[u] = looking[u]
<1>1. looking' = [looking EXCEPT ![t] = lookupOf(sHost)] /\ step' = [step EXCEPT ![t] = next]
  BY DEF LookUp
<1>2. CacheInv'
  BY <1>1, LookingElsewhere
<1>3. looking'[t] = lookupOf(sHost) /\ \A u \in LookupThreads \ {t} : looking'[u] = looking[u]
  BY <1>1 DEF CacheInv, LookupTypeInv
<1> QED BY <1>1, <1>2, <1>3 DEF UriTypeInv, lookupOf

\* A thread whose lookup is over has nothing to look for.
LEMMA FinishedIsIdle ==
  ASSUME CacheInv, UriTypeInv, FoundInv, NEW t \in LookupThreads, Finished(t), list' = list,
         UNCHANGED resolverVars
  PROVE  /\ CacheInv'
         /\ step' \in [LookupThreads -> {"idle", "host", "nonvalid", "get", "clear"}]
         /\ found' \in [LookupThreads -> LookupObjects \union {NONE}]
         /\ step'[t] = "idle" /\ FoundInv'
         /\ \A u \in LookupThreads \ {t} : step'[u] = step[u] /\ looking'[u] = looking[u]
<1>1. looking' = [looking EXCEPT ![t] = NotLooking] /\ step' = [step EXCEPT ![t] = "idle"]
  BY DEF Finished
<1>2. CacheInv'
  BY <1>1, LookingElsewhere
<1>3. FoundInv'
  BY DEF Finished, UriTypeInv, FoundInv, resolverVars
<1> QED BY <1>1, <1>2, <1>3 DEF Finished, UriTypeInv, CacheInv, LookupTypeInv

\* A thread that does not take part keeps what is said of it.
LEMMA OthersStay ==
  ASSUME HostInv, ConnectionInv, NEW u \in LookupThreads,
         uri'[u] = uri[u], step'[u] = step[u], looking'[u].name = looking[u].name,
         given'[u] = given[u], connection'[u] = connection[u], UNCHANGED resolverVars
  PROVE  /\ given'[u] = NONE => uri'[u].host.addresses = <<>> /\ step'[u] \in {"idle", "clear"}
         /\ given'[u] # NONE /\ ~given'[u].stale =>
              Honest(uri'[u].host, mixed') \/ (step'[u] \in {"host", "nonvalid"} /\ given'[u].clear)
         /\ step'[u] = "get" => looking'[u].name = uri'[u].host.name
         /\ given'[u] # NONE /\ ~given'[u].stale /\ connection'[u] # NONE =>
              GoesToItsHost(connection'[u], mixed')
BY DEF HostInv, ConnectionInv, resolverVars

\* The invariant is kept by parseUri(),
LEMMA ParseUriInv ==
  ASSUME UriInv, NEW t \in LookupThreads, ParseUri(t)
  PROVE  UriInv'
<1> PICK r \in Uris, bClearVars \in BOOLEAN :
      LET p == pieces(textOf(r)) IN
      /\ given' = [given EXCEPT ![t] = [uri |-> r, clear |-> bClearVars,
                                        stale |-> StaleNow(t, p, bClearVars)]]
      /\ uri' = [uri EXCEPT ![t] = parsed(@, p, bClearVars)]
      /\ IF p.port = NONE THEN LookUp(t, p.host, "host") ELSE UNCHANGED <<looking, step>>
  BY DEF ParseUri
<1> DEFINE p == pieces(textOf(r))
           w == parsed(uri[t], p, bClearVars)
           g == [uri |-> r, clear |-> bClearVars, stale |-> StaleNow(t, p, bClearVars)]
<1>1. /\ given' = [given EXCEPT ![t] = g] /\ uri' = [uri EXCEPT ![t] = w]
      /\ IF p.port = NONE THEN LookUp(t, p.host, "host") ELSE UNCHANGED <<looking, step>>
      /\ connection' = [connection EXCEPT ![t] = NONE] /\ UNCHANGED <<list, resolverVars, found>>
      /\ step[t] = "idle" /\ mixed' = mixed
  BY DEF ParseUri, Called, resolverVars
<1>2. p.host \in DOMAIN Answers
  BY UrisAssumption
<1> HIDE DEF p
<1>3. IsUri(uri[t])
  BY DEF UriInv, UriTypeInv
<1>4. /\ IsUri(w) /\ w.host.addresses = uri[t].host.addresses
      /\ p.port = NONE => w.host = uri[t].host
  BY <1>2, <1>3, parsedHost
<1> HIDE DEF w
<1>5. g \in Given /\ g # NONE /\ g.clear = bClearVars /\ g.stale = StaleNow(t, p, bClearVars)
  <2>1. given[t] # NONE => given[t].stale \in BOOLEAN
    BY DEF UriInv, UriTypeInv, Given
  <2>2. StaleNow(t, p, bClearVars) \in BOOLEAN
    BY <2>1 DEF StaleNow
  <2> QED BY <2>2, UrisAssumption DEF Given
<1> HIDE DEF g
<1>6. /\ uri' \in [LookupThreads -> Range(uri)'] /\ uri'[t] = w
      /\ \A u \in LookupThreads \ {t} : uri'[u] = uri[u]
  <2>1. uri' = [uri EXCEPT ![t] = w] /\ uri \in [LookupThreads -> Range(uri)]
    BY <1>1 DEF UriInv, UriTypeInv
  <2> QED BY <2>1 DEF Range
<1>7. /\ connection' \in [LookupThreads -> Range(connection)'] /\ connection'[t] = NONE
      /\ \A u \in LookupThreads \ {t} : connection'[u] = connection[u]
  BY <1>1, OneChanged DEF UriInv, UriTypeInv
<1>8. /\ given'[t] = g /\ given' \in [LookupThreads -> Given \union {NONE}]
      /\ \A u \in LookupThreads \ {t} : given'[u] = given[u]
  BY <1>1, <1>5 DEF UriInv, UriTypeInv
<1>9. /\ CacheInv'
      /\ step' \in [LookupThreads -> {"idle", "host", "nonvalid", "get", "clear"}]
      /\ step'[t] = IF p.port = NONE THEN "host" ELSE "idle"
      /\ \A u \in LookupThreads \ {t} : step'[u] = step[u] /\ looking'[u] = looking[u]
  <2>1. CASE p.port = NONE
    BY <1>1, <1>2, <2>1, LookUpLooks DEF UriInv
  <2>2. CASE p.port # NONE
    <3>1. UNCHANGED lookupVars
      BY <1>1, <2>2 DEF lookupVars
    <3> QED BY <1>1, <2>2, <3>1, CacheStays DEF UriInv, UriTypeInv, lookupVars
  <2> QED BY <2>1, <2>2
<1>10. UriTypeInv'
  BY <1>1, <1>3, <1>4, <1>6, <1>7, <1>8, <1>9 DEF UriInv, UriTypeInv
<1>11. ~g.stale => Honest(w.host, mixed) \/ (step'[t] = "host" /\ bClearVars)
  <2> SUFFICES ASSUME ~g.stale, ~(step'[t] = "host" /\ bClearVars) PROVE Honest(w.host, mixed)
    OBVIOUS
  <2>1. CASE p.port # NONE
    <3>1. w.host.addresses = <<>>
      BY <1>4, <1>5, <2>1 DEF StaleNow
    <3>2. <<>> \in Seq(AddressesOf(w.host.name))
      OBVIOUS
    <3> QED BY <3>1, <3>2 DEF Honest
  <2>2. CASE p.port = NONE
    <3>1. given[t] = NONE \/ ~given[t].stale
      BY <1>5, <1>9, <2>2 DEF StaleNow
    <3>2. Honest(uri[t].host, mixed)
      <4>1. CASE given[t] # NONE
        BY <1>1, <3>1, <4>1 DEF UriInv, HostInv
      <4>2. CASE given[t] = NONE
        <5>1. uri[t].host.addresses = <<>>
          BY <4>2 DEF UriInv, HostInv
        <5>2. <<>> \in Seq(AddressesOf(uri[t].host.name))
          OBVIOUS
        <5> QED BY <5>1, <5>2 DEF Honest
      <4> QED BY <4>1, <4>2
    <3> QED BY <1>4, <2>2, <3>2
  <2> QED BY <2>1, <2>2
<1>12. HostInv' /\ ConnectionInv'
  <2>1. UNCHANGED resolverVars /\ mixed' = mixed
    BY <1>1 DEF resolverVars
  <2> QED BY <1>5, <1>6, <1>7, <1>8, <1>9, <1>11, <2>1, OthersStay DEF UriInv, HostInv, ConnectionInv
<1>13. FoundInv'
  BY <1>1 DEF UriInv, FoundInv
<1> QED BY <1>9, <1>10, <1>12, <1>13 DEF UriInv

\* The lookup of a host ends: what was found, if it is valid, replaces the host.
LEMMA HostFoundInv ==
  ASSUME UriInv, NEW t \in LookupThreads, NEW obj \in LookupObjects \union {NONE}, NEW nonValid,
         step[t] \in {"host", "nonvalid"}, HostFound(t, obj, nonValid),
         UNCHANGED <<list, resolverVars, historyVars>>, obj # NONE => Honest(obj, mixed)
  PROVE  UriInv'
<1> DEFINE w == withHost(uri[t], obj, nonValid, given[t].clear)
<1>1. /\ uri' = [uri EXCEPT ![t] = w] /\ Finished(t)
      /\ UNCHANGED <<list, given, connection, resolverVars>> /\ mixed' = mixed
  BY DEF HostFound, historyVars, resolverVars
<1>2. IsUri(uri[t]) /\ given[t] \in Given /\ given[t].clear \in BOOLEAN
  BY DEF UriInv, UriTypeInv, HostInv, Given
<1>3. /\ IsUri(w)
      /\ \/ w.host = obj /\ obj # NONE
         \/ given[t].clear /\ w.host = NoUri.host
         \/ ~given[t].clear /\ w.host = uri[t].host
  BY <1>2, withHostHost
<1> HIDE DEF w
<1>4. ~given[t].stale => Honest(w.host, mixed)
  <2>1. Honest(NoUri.host, mixed)
    BY NoUriIsUri
  <2>2. ~given[t].stale /\ ~given[t].clear => Honest(uri[t].host, mixed)
    BY DEF UriInv, HostInv
  <2> QED BY <1>3, <2>1, <2>2
<1>5. /\ CacheInv'
      /\ step' \in [LookupThreads -> {"idle", "host", "nonvalid", "get", "clear"}]
      /\ found' \in [LookupThreads -> LookupObjects \union {NONE}]
      /\ step'[t] = "idle" /\ FoundInv'
      /\ \A u \in LookupThreads \ {t} : step'[u] = step[u] /\ looking'[u] = looking[u]
  BY <1>1, FinishedIsIdle DEF UriInv
<1>6. /\ uri' \in [LookupThreads -> Range(uri)'] /\ uri'[t] = w
      /\ \A u \in LookupThreads \ {t} : uri'[u] = uri[u]
  BY <1>1, OneChanged DEF UriInv, UriTypeInv
<1>7. UriTypeInv'
  BY <1>1, <1>3, <1>5, <1>6 DEF UriInv, UriTypeInv
<1>8. HostInv' /\ ConnectionInv'
  <2>1. given[t] # NONE
    BY DEF UriInv, HostInv
  <2>2. \A u \in LookupThreads \ {t} : uri'[u] = uri[u] /\ step'[u] = step[u] /\ looking'[u] = looking[u]
                                         /\ given'[u] = given[u] /\ connection'[u] = connection[u]
    BY <1>1, <1>5, <1>6
  <2>3. given'[t] = given[t] /\ connection'[t] = connection[t]
    BY <1>1
  <2> QED BY <1>1, <1>4, <1>5, <1>6, <2>1, <2>2, <2>3, OthersStay DEF UriInv, HostInv, ConnectionInv
<1> QED BY <1>5, <1>7, <1>8 DEF UriInv

\* A thread that asks the cache for another name, or is answered, with its URI as it is.
LEMMA LookupAgain ==
  ASSUME UriInv, NEW t \in LookupThreads, CacheInv',
         step' \in [LookupThreads -> {"idle", "host", "nonvalid", "get", "clear"}],
         found' \in [LookupThreads -> LookupObjects \union {NONE}],
         \A u \in LookupThreads \ {t} : step'[u] = step[u] /\ looking'[u].name = looking[u].name,
         UNCHANGED <<uri, given, resolverVars>>, FoundInv',
         connection' \in [LookupThreads -> Range(connection)'],
         \A u \in LookupThreads \ {t} : connection'[u] = connection[u],
         given[t] = NONE => step'[t] \in {"idle", "clear"},
         given[t] # NONE /\ ~given[t].stale =>
           /\ step[t] \in {"host", "nonvalid"} => step'[t] \in {"host", "nonvalid"}
           /\ connection'[t] # NONE => GoesToItsHost(connection'[t], mixed),
         step'[t] = "get" => looking'[t].name = uri[t].host.name
  PROVE  UriInv'
<1>1. UriTypeInv'
  BY DEF UriInv, UriTypeInv
<1>2. HostInv'
  BY DEF UriInv, HostInv, resolverVars
<1>3. ConnectionInv'
  BY DEF UriInv, ConnectionInv, resolverVars
<1> QED BY <1>1, <1>2, <1>3 DEF UriInv

\* by the answer for its host,
LEMMA HostAnsweredInv ==
  ASSUME UriInv, NEW t \in LookupThreads, HostAnswered(t)
  PROVE  UriInv'
<1>1. step[t] = "host" /\ UNCHANGED <<list, resolverVars, historyVars>> /\ mixed' = mixed
  BY DEF HostAnswered, Answered, resolverVars
<1>2. CASE looking[t].obj = NONE
  BY <1>1, <1>2, HostFoundInv DEF HostAnswered
<1>3. CASE looking[t].obj # NONE
  <2>1. /\ found' = [found EXCEPT ![t] = looking[t].obj]
        /\ LookUp(t, sNonValidHostName, "nonvalid") /\ UNCHANGED <<uri, given, connection>>
    BY <1>1, <1>3 DEF HostAnswered, historyVars
  <2>2. looking[t].obj \in LookupObjects /\ Honest(looking[t].obj, mixed)
    BY <1>3 DEF UriInv, CacheInv, LookupTypeInv, HonestInv
  <2>7. FoundInv'
    BY <1>1, <2>1, <2>2 DEF UriInv, UriTypeInv, FoundInv
  <2>3. found' \in [LookupThreads -> LookupObjects \union {NONE}]
    BY <2>1, <2>2 DEF UriInv, UriTypeInv
  <2>4. /\ CacheInv'
        /\ step' \in [LookupThreads -> {"idle", "host", "nonvalid", "get", "clear"}]
        /\ step'[t] = "nonvalid"
        /\ \A u \in LookupThreads \ {t} : step'[u] = step[u] /\ looking'[u] = looking[u]
    BY <1>1, <2>1, LookUpLooks, AnswersAssumption DEF UriInv
  <2>5. given[t] # NONE /\ connection' \in [LookupThreads -> Range(connection)']
    BY <1>1, <2>1 DEF UriInv, HostInv, UriTypeInv
  <2>6. ~given[t].stale /\ connection'[t] # NONE => GoesToItsHost(connection'[t], mixed)
    BY <2>1, <2>5 DEF UriInv, ConnectionInv
  <2> QED BY <1>1, <2>1, <2>3, <2>4, <2>5, <2>6, <2>7, LookupAgain
<1> QED BY <1>2, <1>3

\* by the answer for the name that does not exist,
LEMMA NonValidAnsweredInv ==
  ASSUME UriInv, NEW t \in LookupThreads, NonValidAnswered(t)
  PROVE  UriInv'
<1>1. found[t] \in LookupObjects \union {NONE} /\ (found[t] # NONE => Honest(found[t], mixed))
  BY DEF UriInv, UriTypeInv, FoundInv
<1> QED BY <1>1, HostFoundInv DEF NonValidAnswered, Answered

\* What is connected to is the first of the addresses.
LEMMA connectedTo ==
  ASSUME NEW u, NEW addresses, connected(u, addresses) # NONE
  PROVE  /\ addresses # <<>> /\ connected(u, addresses).host = u.host.name
         /\ connected(u, addresses).address = Head(addresses)
BY DEF connected

\* by get(), which connects or looks the host up,
LEMMA GetInv ==
  ASSUME UriInv, NEW t \in LookupThreads, Get(t)
  PROVE  UriInv'
<1>1. /\ step[t] = "idle" /\ given[t] # NONE /\ UNCHANGED <<list, resolverVars, uri, found, given>>
      /\ FoundInv' /\ uri[t].host.name \in DOMAIN Answers /\ found' \in [LookupThreads -> LookupObjects \union {NONE}]
  BY DEF Get, Called, UriInv, UriTypeInv, IsUri, IsHost, FoundInv, resolverVars
<1>2. CASE uri[t].host.addresses = <<>>
  <2>1. LookUp(t, uri[t].host.name, "get") /\ connection' = [connection EXCEPT ![t] = NONE]
    BY <1>2 DEF Get
  <2>2. /\ CacheInv'
        /\ step' \in [LookupThreads -> {"idle", "host", "nonvalid", "get", "clear"}]
        /\ step'[t] = "get" /\ looking'[t].name = uri[t].host.name
        /\ \A u \in LookupThreads \ {t} : step'[u] = step[u] /\ looking'[u] = looking[u]
    BY <1>1, <2>1, LookUpLooks DEF UriInv
  <2>3. /\ connection' \in [LookupThreads -> Range(connection)'] /\ connection'[t] = NONE
        /\ \A u \in LookupThreads \ {t} : connection'[u] = connection[u]
    BY <2>1, OneChanged DEF UriInv, UriTypeInv
  <2> QED BY <1>1, <2>2, <2>3, LookupAgain
<1>3. CASE uri[t].host.addresses # <<>>
  <2> DEFINE c == connected(uri[t], uri[t].host.addresses)
  <2>1. connection' = [connection EXCEPT ![t] = c] /\ UNCHANGED <<looking, step>>
    BY <1>3 DEF Get
  <2>2. ~given[t].stale /\ c # NONE => GoesToItsHost(c, mixed)
    <3> SUFFICES ASSUME ~given[t].stale, c # NONE, c.host \notin mixed
                 PROVE  c.address \in AddressesOf(c.host)
      BY DEF GoesToItsHost
    <3>1. Honest(uri[t].host, mixed)
      BY <1>1 DEF UriInv, HostInv
    <3> QED BY <3>1, connectedTo, HonestAddresses
  <2> HIDE DEF c
  <2>3. /\ connection' \in [LookupThreads -> Range(connection)'] /\ connection'[t] = c
        /\ \A u \in LookupThreads \ {t} : connection'[u] = connection[u]
    BY <2>1, OneChanged DEF UriInv, UriTypeInv
  <2>4. CacheInv' /\ step' \in [LookupThreads -> {"idle", "host", "nonvalid", "get", "clear"}]
    BY <1>1, <2>1, CacheStays DEF UriInv, UriTypeInv, lookupVars, resolverVars
  <2> QED BY <1>1, <2>1, <2>2, <2>3, <2>4, LookupAgain
<1> QED BY <1>2, <1>3

\* by the answer it connects with,
LEMMA GetAnsweredInv ==
  ASSUME UriInv, NEW t \in LookupThreads, GetAnswered(t)
  PROVE  UriInv'
<1> DEFINE obj == looking[t].obj
           addresses == IF obj = NONE THEN <<>> ELSE obj.addresses
           c == connected(uri[t], addresses)
<1>1. /\ step[t] = "get" /\ Finished(t) /\ UNCHANGED <<list, resolverVars, uri, given>>
      /\ connection' = [connection EXCEPT ![t] = c]
  BY DEF GetAnswered, Answered
<1>2. /\ CacheInv'
      /\ step' \in [LookupThreads -> {"idle", "host", "nonvalid", "get", "clear"}]
      /\ found' \in [LookupThreads -> LookupObjects \union {NONE}]
      /\ step'[t] = "idle" /\ FoundInv'
      /\ \A u \in LookupThreads \ {t} : step'[u] = step[u] /\ looking'[u] = looking[u]
  BY <1>1, FinishedIsIdle DEF UriInv
<1>3. c # NONE => GoesToItsHost(c, mixed)
  <2> SUFFICES ASSUME c # NONE, c.host \notin mixed PROVE c.address \in AddressesOf(c.host)
    BY DEF GoesToItsHost
  <2>1. addresses # <<>> /\ c.host = uri[t].host.name /\ c.address = Head(addresses)
    BY connectedTo
  <2>2. obj # NONE /\ addresses = obj.addresses
    BY <2>1
  <2>3. obj.name = uri[t].host.name /\ Honest(obj, mixed)
    BY <1>1, <2>2 DEF UriInv, CacheInv, LookingInv, ConnectionInv, HonestInv
  <2> QED BY <2>1, <2>2, <2>3, HonestAddresses
<1> HIDE DEF c
<1>4. /\ connection' \in [LookupThreads -> Range(connection)'] /\ connection'[t] = c
      /\ \A u \in LookupThreads \ {t} : connection'[u] = connection[u]
  BY <1>1, OneChanged DEF UriInv, UriTypeInv
<1> QED BY <1>1, <1>2, <1>3, <1>4, LookupAgain

\* by clearing the cache,
LEMMA ClearInv ==
  ASSUME UriInv, NEW t \in LookupThreads, Clear(t)
  PROVE  UriInv'
<1>1. /\ step[t] = "idle" /\ list' = <<>> /\ LookUp(t, sNonValidHostName, "clear")
      /\ UNCHANGED <<resolverVars, uri, found, given, connection>> /\ FoundInv'
      /\ found \in [LookupThreads -> LookupObjects \union {NONE}]
      /\ connection \in [LookupThreads -> Range(connection)]
  BY DEF Clear, Called, UriInv, UriTypeInv, FoundInv, resolverVars
<1>2. /\ CacheInv'
      /\ step' \in [LookupThreads -> {"idle", "host", "nonvalid", "get", "clear"}]
      /\ step'[t] = "clear"
      /\ \A u \in LookupThreads \ {t} : step'[u] = step[u] /\ looking'[u] = looking[u]
  BY <1>1, LookUpLooks, AnswersAssumption DEF UriInv
<1>3. given[t] # NONE /\ ~given[t].stale /\ connection'[t] # NONE =>
        GoesToItsHost(connection'[t], mixed)
  BY <1>1 DEF UriInv, ConnectionInv
<1> QED BY <1>1, <1>2, <1>3, LookupAgain

\* by the end of that,
LEMMA ClearAnsweredInv ==
  ASSUME UriInv, NEW t \in LookupThreads, ClearAnswered(t)
  PROVE  UriInv'
<1>1. /\ step[t] = "clear" /\ Finished(t) /\ UNCHANGED <<list, resolverVars, uri, given, connection>>
      /\ connection \in [LookupThreads -> Range(connection)]
  BY DEF ClearAnswered, Answered, historyVars, UriInv, UriTypeInv
<1>2. /\ CacheInv'
      /\ step' \in [LookupThreads -> {"idle", "host", "nonvalid", "get", "clear"}]
      /\ found' \in [LookupThreads -> LookupObjects \union {NONE}]
      /\ step'[t] = "idle" /\ FoundInv'
      /\ \A u \in LookupThreads \ {t} : step'[u] = step[u] /\ looking'[u] = looking[u]
  BY <1>1, FinishedIsIdle DEF UriInv
<1>3. given[t] # NONE /\ ~given[t].stale /\ connection'[t] # NONE =>
        GoesToItsHost(connection'[t], mixed)
  BY <1>1 DEF UriInv, ConnectionInv
<1> QED BY <1>1, <1>2, <1>3, LookupAgain

\* by the steps of a lookup,
LEMMA LookupStepUriInv ==
  ASSUME UriInv, NEW t \in LookupThreads, LookupStep(t), UNCHANGED <<uri, step, found, historyVars>>
  PROVE  UriInv'
<1>1. /\ CacheInv' /\ mixed \subseteq mixed'
      /\ \A u \in LookupThreads : looking'[u].name = looking[u].name
  BY LookupStepInv DEF UriInv
<1>2. UriTypeInv'
  BY DEF UriInv, UriTypeInv, historyVars
<1>3. HostInv' /\ FoundInv'
  BY <1>1, HonestStays DEF UriInv, HostInv, FoundInv, historyVars
<1>4. ConnectionInv'
  BY <1>1 DEF UriInv, ConnectionInv, GoesToItsHost, historyVars
<1> QED BY <1>1, <1>2, <1>3, <1>4 DEF UriInv

\* and by every step.
LEMMA UriNextInv == UriInv /\ [UriNext]_uriVars => UriInv'
<1> SUFFICES ASSUME UriInv, [UriNext]_uriVars PROVE UriInv'
  OBVIOUS
<1>1. ASSUME NEW t \in LookupThreads,
             \/ ParseUri(t) \/ HostAnswered(t) \/ NonValidAnswered(t) \/ Get(t) \/ GetAnswered(t)
             \/ Clear(t) \/ ClearAnswered(t)
             \/ LookupStep(t) /\ UNCHANGED <<uri, step, found, historyVars>>
      PROVE  UriInv'
  BY <1>1, ParseUriInv, HostAnsweredInv, NonValidAnsweredInv, GetInv, GetAnsweredInv, ClearInv,
     ClearAnsweredInv, LookupStepUriInv
<1>2. CASE UNCHANGED uriVars
  BY <1>2, CacheStays
  DEF uriVars, lookupVars, resolverVars, historyVars, UriInv, UriTypeInv, HostInv, ConnectionInv, FoundInv
<1> QED BY <1>1, <1>2 DEF UriNext

\* It holds always.
LEMMA UriSpecInv == UriSpec => []UriInv
<1> QED BY UriInitInv, UriNextInv, PTL DEF UriSpec

(***************************************************************************)
(* The threads: the theorems                                                *)
(***************************************************************************)

\* LookupCache::lookupHost(): however the searches and additions of any number of
\* threads cross, a name is in the list no more often than there are threads.
THEOREM CachedAtMostOnce == UriSpec => []CachedOncePerThread
<1>1. UriInv => CachedOncePerThread
  <2> SUFFICES ASSUME UriInv, NEW name \in DOMAIN Answers
               PROVE  Cardinality(Cached(name)) <= Cardinality(LookupThreads)
    BY DEF CachedOncePerThread, Cached
  <2> QED BY CountTypes DEF UriInv, CacheInv, CountInv
<1> QED BY <1>1, UriSpecInv, PTL

\* HttpClient::get(): the address connected to was answered for the host of the URI, for
\* any URIs, any answers of the system and any number of threads and calls, if no other
\* thread's gethostbyname() came between a copy of the addresses of that host.
THEOREM GetGoesToTheHost == UriSpec => []RequestsGoToTheirHost
<1>1. UriInv => RequestsGoToTheirHost
  <2> SUFFICES ASSUME UriInv, NEW t \in LookupThreads,
                      step[t] = "idle", given[t] # NONE, ~given[t].stale
               PROVE  /\ uri[t].host.name \notin mixed =>
                           Range(uri[t].host.addresses) \subseteq AddressesOf(uri[t].host.name)
                      /\ connection[t] # NONE /\ connection[t].host \notin mixed =>
                           connection[t].address \in AddressesOf(connection[t].host)
    BY DEF RequestsGoToTheirHost
  <2>1. Honest(uri[t].host, mixed)
    BY DEF UriInv, HostInv
  <2> QED BY <2>1, HonestAddresses DEF UriInv, ConnectionInv, GoesToItsHost
<1> QED BY <1>1, UriSpecInv, PTL

(***************************************************************************)
(* The text of an URI                                                       *)
(***************************************************************************)

\* What parseUri() makes of a text that has a mark in front of the rest, or not,
FrontOf(s, m, part, rest) ==
  LET p == pos(s, 0, <<m>>) IN Before(s, p) = part /\ Or(Behind(s, p), s) = rest

\* It finds the part if that is free of the mark, or, without it, the rest is.
LEMMA FrontIsCut ==
  ASSUME NEW U, NONE \notin Seq(U), NEW m \in U, NEW part, part = NONE \/ FreeText(U, part, m),
         NEW rest \in Seq(U), part = NONE => FreeText(U, rest, m)
  PROVE  FrontOf((IF part = NONE THEN <<>> ELSE Append(part, m)) \o rest, m, part, rest)
<1> DEFINE s == (IF part = NONE THEN <<>> ELSE Append(part, m)) \o rest
           p == pos(s, 0, <<m>>)
<1>1. CASE part = NONE
  <2>1. s = rest
    BY <1>1, ConcatEmptySeq
  <2> HIDE DEF s
  <2>2. p = NotFound
    BY <1>1, <2>1, NoMark
  <2> HIDE DEF p
  <2>3. Before(s, p) = NONE /\ Behind(s, p) = NONE
    BY <2>2 DEF Before, Behind
  <2>4. Or(Behind(s, p), s) = rest
    BY <2>1, <2>3 DEF Or
  <2> QED BY <1>1, <2>3, <2>4 DEF FrontOf, s, p
<1>2. CASE part # NONE
  <2>1. FreeText(U, part, m) /\ part \in Seq(U)
    BY <1>2 DEF FreeText
  <2>2. s = part \o <<m>> \o rest
    BY <1>2, <2>1, AppendIsConcat
  <2>3. IsCut(part \o <<m>> \o rest, m, part, rest)
    BY <2>1, FirstMark
  <2> HIDE DEF s
  <2>4. p \in Nat /\ Part(s, 0, p) = part /\ Rest(s, p + 1) = rest
    BY <2>2, <2>3 DEF IsCut
  <2> HIDE DEF p
  <2>5. p # NotFound
    BY <2>4 DEF NotFound
  <2>6. Before(s, p) = part /\ Behind(s, p) = rest
    BY <2>4, <2>5 DEF Before, Behind
  <2>7. rest # NONE
    OBVIOUS
  <2>8. Or(Behind(s, p), s) = rest
    BY <2>6, <2>7 DEF Or
  <2> QED BY <2>6, <2>8 DEF FrontOf, s, p
<1> QED BY <1>1, <1>2

\* and of one that has a part with a mark behind it, or not.
BackOf(s, m, head, part) ==
  LET p == pos(s, 0, <<m>>) IN Or(Before(s, p), s) = head /\ Behind(s, p) = part

\* It finds both if the first is free of the mark.
LEMMA BackIsCut ==
  ASSUME NEW U, NONE \notin Seq(U), NEW m \in U, NEW head, FreeText(U, head, m),
         NEW part, part = NONE \/ part \in Seq(U)
  PROVE  BackOf(head \o Marked(m, part), m, head, part)
<1> DEFINE s == head \o Marked(m, part)
           p == pos(s, 0, <<m>>)
<1>0. head \in Seq(U) /\ head # NONE
  BY DEF FreeText
<1>1. CASE part = NONE
  <2>1. s = head
    BY <1>0, <1>1, ConcatEmptySeq DEF Marked
  <2> HIDE DEF s
  <2>2. p = NotFound
    BY <2>1, NoMark
  <2> HIDE DEF p
  <2>3. Before(s, p) = NONE /\ Behind(s, p) = NONE
    BY <2>2 DEF Before, Behind
  <2> QED BY <1>1, <2>1, <2>3 DEF Or, BackOf, s, p
<1>2. CASE part # NONE
  <2>1. part \in Seq(U) /\ <<m>> \in Seq(U)
    BY <1>2
  <2>2. s = head \o <<m>> \o part
    <3>1. s = head \o (<<m>> \o part)
      BY <1>2 DEF Marked
    <3> QED BY <1>0, <2>1, <3>1, ConcatAssociative
  <2>3. IsCut(head \o <<m>> \o part, m, head, part)
    BY <2>1, FirstMark
  <2> HIDE DEF s
  <2>4. p \in Nat /\ Part(s, 0, p) = head /\ Rest(s, p + 1) = part
    BY <2>2, <2>3 DEF IsCut
  <2> HIDE DEF p
  <2>5. p # NotFound
    BY <2>4 DEF NotFound
  <2>6. Before(s, p) = head /\ Behind(s, p) = part
    BY <2>4, <2>5 DEF Before, Behind
  <2> QED BY <1>0, <2>6 DEF Or, BackOf, s, p
<1> QED BY <1>1, <1>2

\* A text put together without the mark has it nowhere.
LEMMA FreeJoin ==
  ASSUME NEW U, NEW m, NEW s, FreeText(U, s, m), NEW t, FreeText(U, t, m)
  PROVE  FreeText(U, s \o t, m)
<1>1. s \in Seq(U) /\ t \in Seq(U)
  BY DEF FreeText
<1> QED BY <1>1 DEF FreeText

\* So a text of another mark,
LEMMA FreeMark ==
  ASSUME NEW U, NEW m, NEW n \in U, m # n
  PROVE  FreeText(U, <<n>>, m) /\ FreeText(U, <<>>, m)
BY DEF FreeText

\* a part with one in front,
LEMMA FreeBehind ==
  ASSUME NEW U, NEW m, NEW n \in U, m # n, NEW part, part = NONE \/ FreeText(U, part, m)
  PROVE  FreeText(U, Marked(n, part), m)
BY FreeMark, FreeJoin DEF Marked

\* and a part with one behind.
LEMMA FreeBefore ==
  ASSUME NEW U, NEW m, NEW n \in U, m # n, NEW part, part = NONE \/ FreeText(U, part, m)
  PROVE  FreeText(U, IF part = NONE THEN <<>> ELSE Append(part, n), m)
<1>1. CASE part = NONE
  BY <1>1, FreeMark
<1>2. CASE part # NONE
  <2>1. part \in Seq(U) /\ FreeText(U, part, m)
    BY <1>2 DEF FreeText
  <2>2. Append(part, n) = part \o <<n>>
    BY <2>1, AppendIsConcat
  <2> QED BY <1>2, <2>1, <2>2, FreeMark, FreeJoin
<1> QED BY <1>1, <1>2

\* The parts of a plain URI, as texts over its symbols.
PlainParts(U, r) ==
  /\ Separators \subseteq U /\ NONE \notin Seq(U)
  /\ \A m \in Separators : FreeText(U, r.host, m)
  /\ r.protocol # NONE => r.protocol # <<>> /\ \A m \in Separators : FreeText(U, r.protocol, m)
  /\ r.user # NONE => r.user # <<>> /\ \A m \in Separators : FreeText(U, r.user, m)
  /\ r.pass # NONE => r.pass # <<>> /\ \A m \in Separators \ {":"} : FreeText(U, r.pass, m)
  /\ r.port # NONE => \A m \in Separators : FreeText(U, r.port, m)
  /\ r.path # NONE => /\ r.path # <<>> /\ FreeText(U, r.path, "?")
                      /\ r.protocol = NONE => FreeText(U, r.path, "://")
  /\ r.query # NONE => /\ r.query # <<>> /\ r.query \in Seq(U)
                       /\ r.protocol = NONE => FreeText(U, r.query, "://")

\* These are what IsPlain says of it, a port being one symbol that is no mark.
LEMMA PlainPartsAre ==
  ASSUME NEW r \in Uris, IsPlain(r)
  PROVE  PlainParts(SymbolsOf(r), r)
<1> DEFINE U == SymbolsOf(r)
           plain(part, marks) == part = NONE \/ (part \in Seq(U) \ {<<>>} /\ FreeOf(part, marks))
<1>1. Separators \subseteq U /\ NONE \notin Seq(U)
  BY PartsAssumption DEF SymbolsOf
<1>2. /\ r.host \in Seq(U) /\ FreeOf(r.host, Separators)
      /\ plain(r.protocol, Separators) /\ plain(r.user, Separators) /\ plain(r.pass, Separators \ {":"})
      /\ r.port # NONE => r.port \in Numbers
      /\ plain(r.path, IF r.protocol = NONE THEN {"://", "?"} ELSE {"?"})
      /\ plain(r.query, IF r.protocol = NONE THEN {"://"} ELSE {})
  BY DEF IsPlain
<1>3. r.port = NONE \/ r.port \in Seq(U)
  <2> SUFFICES ASSUME r.port # NONE PROVE r.port \in Seq(U)
    OBVIOUS
  <2>1. r.port = <<Head(r.port)>>
    BY <1>2, PortsAssumption
  <2>2. "port" \in DOMAIN r
    BY PartsAssumption
  <2>3. Range(r["port"]) \subseteq U
    BY <2>2 DEF SymbolsOf
  <2>4. Head(r.port) \in Range(r["port"])
    <3> DEFINE x == Head(r.port)
    <3> HIDE DEF x
    <3>1. r.port = <<x>>
      BY <2>1 DEF x
    <3>2. r.port[1] = x /\ 1 \in DOMAIN r.port
      BY <3>1
    <3> QED BY <3>2 DEF Range, x
  <2>5. Head(r.port) \in U
    BY <2>3, <2>4
  <2> HIDE DEF U
  <2> QED BY <2>1, <2>5
<1>4. ASSUME r.port # NONE, NEW m \in Separators PROVE FreeText(U, r.port, m)
  <2> DEFINE x == Head(r.port)
  <2>1. r.port = <<x>> /\ x \notin Separators
    BY <1>2, <1>4, PortsAssumption
  <2> HIDE DEF x, U
  <2>2. Len(r.port) = 1 /\ r.port[1] = x
    BY <2>1
  <2> QED BY <1>3, <1>4, <2>1, <2>2 DEF FreeText
<1> HIDE DEF U
<1>5. ASSUME NEW part, NEW marks, part \in Seq(U), FreeOf(part, marks), NEW m \in marks
      PROVE  FreeText(U, part, m)
  BY <1>5 DEF FreeOf, FreeText
<1>6. \A m \in Separators : FreeText(U, r.host, m)
  BY <1>2, <1>5
<1>7. r.protocol # NONE => r.protocol # <<>> /\ \A m \in Separators : FreeText(U, r.protocol, m)
  BY <1>2, <1>5
<1>8. r.user # NONE => r.user # <<>> /\ \A m \in Separators : FreeText(U, r.user, m)
  BY <1>2, <1>5
<1>9. r.pass # NONE => r.pass # <<>> /\ \A m \in Separators \ {":"} : FreeText(U, r.pass, m)
  <2> SUFFICES ASSUME r.pass # NONE
               PROVE  r.pass # <<>> /\ \A m \in Separators \ {":"} : FreeText(U, r.pass, m)
    OBVIOUS
  <2> DEFINE marks == Separators \ {":"}
  <2>1. r.pass \in Seq(U) /\ r.pass # <<>> /\ FreeOf(r.pass, marks)
    BY <1>2
  <2> HIDE DEF marks
  <2>2. \A m \in marks : FreeText(U, r.pass, m)
    BY <1>5, <2>1
  <2> QED BY <2>1, <2>2 DEF marks
<1>10. r.path # NONE => /\ r.path # <<>> /\ FreeText(U, r.path, "?")
                        /\ r.protocol = NONE => FreeText(U, r.path, "://")
  <2> SUFFICES ASSUME r.path # NONE
               PROVE  /\ r.path # <<>> /\ FreeText(U, r.path, "?")
                      /\ r.protocol = NONE => FreeText(U, r.path, "://")
    OBVIOUS
  <2> DEFINE marks == IF r.protocol = NONE THEN {"://", "?"} ELSE {"?"}
  <2>1. r.path \in Seq(U) /\ r.path # <<>> /\ FreeOf(r.path, marks)
    BY <1>2
  <2>2. "?" \in marks /\ (r.protocol = NONE => "://" \in marks)
    OBVIOUS
  <2> HIDE DEF marks
  <2> QED BY <1>5, <2>1, <2>2
<1>11. r.query # NONE => /\ r.query # <<>> /\ r.query \in Seq(U)
                         /\ r.protocol = NONE => FreeText(U, r.query, "://")
  <2> SUFFICES ASSUME r.query # NONE
               PROVE  /\ r.query # <<>> /\ r.query \in Seq(U)
                      /\ r.protocol = NONE => FreeText(U, r.query, "://")
    OBVIOUS
  <2> DEFINE marks == IF r.protocol = NONE THEN {"://"} ELSE {}
  <2>1. r.query \in Seq(U) /\ r.query # <<>> /\ FreeOf(r.query, marks)
    BY <1>2
  <2>2. r.protocol = NONE => "://" \in marks
    OBVIOUS
  <2> HIDE DEF marks
  <2> QED BY <1>5, <2>1, <2>2
<1>12. PlainParts(U, r)
  BY <1>1, <1>4, <1>6, <1>7, <1>8, <1>9, <1>10, <1>11 DEF PlainParts
<1> QED BY <1>12 DEF U

\* The text of an URI with a path, as parseUri() takes it apart.
LoginOf(r) == IF r.user = NONE THEN NONE ELSE r.user \o Marked(":", r.pass)
HostPortOf(r) == r.host \o Marked(":", r.port)
ServerOf(r) == (IF LoginOf(r) = NONE THEN <<>> ELSE Append(LoginOf(r), "@")) \o HostPortOf(r)
TailOf(r) == r.path \o Marked("?", r.query)
RestOf(r) == ServerOf(r) \o <<"/">> \o TailOf(r)

LaidOut(U, r) ==
  /\ ServerOf(r) \in Seq(U) /\ TailOf(r) \in Seq(U) /\ RestOf(r) \in Seq(U) /\ HostPortOf(r) \in Seq(U)
  /\ LoginOf(r) = NONE \/ FreeText(U, LoginOf(r), "@")
  /\ LoginOf(r) = NONE => FreeText(U, HostPortOf(r), "@")
  /\ FreeText(U, ServerOf(r), "/")
  /\ r.protocol = NONE => FreeText(U, RestOf(r), "://")
  /\ textOf(r) = (IF r.protocol = NONE THEN <<>> ELSE Append(r.protocol, "://")) \o RestOf(r)

\* All that stands in front of the path is free of a mark it does not hold.
LEMMA ServerIsFree ==
  ASSUME NEW U, NEW r, PlainParts(U, r), NEW m \in {"/", "://"}
  PROVE  FreeText(U, ServerOf(r), m)
<1>1. m \in Separators /\ m # ":" /\ m # "@" /\ ":" \in U /\ "@" \in U
  BY DEF Separators, PlainParts
<1>2. FreeText(U, HostPortOf(r), m)
  <2>1. FreeText(U, r.host, m)
    BY <1>1 DEF PlainParts
  <2>2. FreeText(U, Marked(":", r.port), m)
    BY <1>1, FreeBehind DEF PlainParts
  <2> QED BY <2>1, <2>2, FreeJoin DEF HostPortOf
<1>3. LoginOf(r) = NONE \/ FreeText(U, LoginOf(r), m)
  <2> SUFFICES ASSUME r.user # NONE PROVE FreeText(U, r.user \o Marked(":", r.pass), m)
    BY DEF LoginOf
  <2>1. FreeText(U, r.user, m)
    BY <1>1 DEF PlainParts
  <2>2. FreeText(U, Marked(":", r.pass), m)
    BY <1>1, FreeBehind DEF PlainParts
  <2> QED BY <2>1, <2>2, FreeJoin
<1>4. FreeText(U, IF LoginOf(r) = NONE THEN <<>> ELSE Append(LoginOf(r), "@"), m)
  BY <1>1, <1>3, FreeBefore
<1> QED BY <1>2, <1>4, FreeJoin DEF ServerOf

\* The text of plain parts is laid out so that each cut finds what it looks for.
LEMMA TextIsLaidOut ==
  ASSUME NEW U, NEW r, PlainParts(U, r), r.path # NONE
  PROVE  LaidOut(U, r)
<1>1. ":" \in U /\ "@" \in U /\ "/" \in U /\ "?" \in U /\ "://" \in U /\ NONE \notin Seq(U)
  BY DEF PlainParts, Separators
<1>2. FreeText(U, ServerOf(r), "/") /\ FreeText(U, ServerOf(r), "://")
  BY ServerIsFree
<1>3. FreeText(U, HostPortOf(r), "@")
  <2>1. FreeText(U, r.host, "@")
    BY DEF PlainParts, Separators
  <2>2. FreeText(U, Marked(":", r.port), "@")
    <3>1. r.port = NONE \/ FreeText(U, r.port, "@")
      BY DEF PlainParts, Separators
    <3> QED BY <1>1, <3>1, FreeBehind
  <2> QED BY <2>1, <2>2, FreeJoin DEF HostPortOf
<1>4. LoginOf(r) = NONE \/ FreeText(U, LoginOf(r), "@")
  <2> SUFFICES ASSUME r.user # NONE PROVE FreeText(U, r.user \o Marked(":", r.pass), "@")
    BY DEF LoginOf
  <2>1. FreeText(U, r.user, "@")
    BY DEF PlainParts, Separators
  <2>2. FreeText(U, Marked(":", r.pass), "@")
    <3>1. r.pass = NONE \/ FreeText(U, r.pass, "@")
      BY DEF PlainParts, Separators
    <3> QED BY <1>1, <3>1, FreeBehind
  <2> QED BY <2>1, <2>2, FreeJoin
<1>5. r.path \in Seq(U) /\ (r.protocol = NONE => FreeText(U, r.path, "://"))
  BY DEF PlainParts, FreeText
<1>6. Marked("?", r.query) \in Seq(U)
  BY <1>1 DEF PlainParts, Marked
<1>7. TailOf(r) \in Seq(U)
  BY <1>5, <1>6 DEF TailOf
<1>8. ServerOf(r) \in Seq(U) /\ HostPortOf(r) \in Seq(U)
  BY <1>2, <1>3 DEF FreeText
<1>9. RestOf(r) \in Seq(U)
  BY <1>1, <1>7, <1>8 DEF RestOf
<1>10. ASSUME r.protocol = NONE PROVE FreeText(U, RestOf(r), "://")
  <2>1. FreeText(U, Marked("?", r.query), "://")
    <3>1. r.query = NONE \/ FreeText(U, r.query, "://")
      BY <1>10 DEF PlainParts
    <3> QED BY <1>1, <3>1, FreeBehind
  <2>2. FreeText(U, TailOf(r), "://")
    BY <1>5, <1>10, <2>1, FreeJoin DEF TailOf
  <2>3. FreeText(U, <<"/">>, "://")
    BY <1>1, FreeMark
  <2>4. FreeText(U, ServerOf(r) \o <<"/">>, "://")
    BY <1>2, <2>3, FreeJoin
  <2> QED BY <2>2, <2>4, FreeJoin DEF RestOf
<1>11. textOf(r) = (IF r.protocol = NONE THEN <<>> ELSE Append(r.protocol, "://")) \o RestOf(r)
  <2> DEFINE a == IF r.protocol = NONE THEN <<>> ELSE Append(r.protocol, "://")
             b == IF r.user = NONE THEN <<>> ELSE Append(r.user \o Marked(":", r.pass), "@")
             c == r.host
             d == Marked(":", r.port)
             s == <<"/">>
             e == r.path
             g == Marked("?", r.query)
  <2>1. textOf(r) = a \o b \o c \o d \o (s \o e) \o g
    BY DEF textOf, Marked
  <2>2. a \in Seq(U)
    BY <1>1 DEF PlainParts, FreeText, Separators
  <2>3. b \in Seq(U) /\ b = IF LoginOf(r) = NONE THEN <<>> ELSE Append(LoginOf(r), "@")
    <3>1. CASE r.user = NONE
      BY <3>1 DEF LoginOf
    <3>2. CASE r.user # NONE
      <4>1. LoginOf(r) = r.user \o Marked(":", r.pass)
        BY <3>2 DEF LoginOf
      <4>2. LoginOf(r) # NONE
        <5>1. r.user \in Seq(U)
          BY <3>2 DEF PlainParts, FreeText, Separators
        <5>2. r.pass = NONE \/ r.pass \in Seq(U)
          <6>1. r.pass = NONE \/ FreeText(U, r.pass, "@")
            BY DEF PlainParts, Separators
          <6> QED BY <6>1 DEF FreeText
        <5>3. Marked(":", r.pass) \in Seq(U)
          BY <1>1, <5>2 DEF Marked
        <5>4. r.user \o Marked(":", r.pass) \in Seq(U)
          BY <5>1, <5>3
        <5> QED BY <1>1, <4>1, <5>4
      <4>3. LoginOf(r) \in Seq(U)
        BY <1>4, <4>2 DEF FreeText
      <4>4. b = Append(LoginOf(r), "@")
        BY <3>2, <4>1
      <4> HIDE DEF b
      <4> QED BY <1>1, <4>2, <4>3, <4>4
    <3> QED BY <3>1, <3>2
  <2>4. c \in Seq(U) /\ d \in Seq(U) /\ s \in Seq(U) /\ e \in Seq(U) /\ g \in Seq(U)
    BY <1>1, <1>5, <1>6 DEF PlainParts, FreeText, Separators, Marked
  <2>5. RestOf(r) = (b \o (c \o d)) \o s \o (e \o g)
    BY <2>3 DEF RestOf, ServerOf, HostPortOf, TailOf
  <2> HIDE DEF a, b, c, d, s, e, g
  <2>6. a \o b \o c \o d \o (s \o e) \o g = a \o ((b \o (c \o d)) \o s \o (e \o g))
    <3> DEFINE h == b \o (c \o d)
    <3>1. h \in Seq(U)
      BY <2>3, <2>4
    <3>2. JoinFour(a, b, c, d)
      BY <2>2, <2>3, <2>4, FourJoined
    <3>3. a \o b \o c \o d = a \o h
      BY <3>2 DEF JoinFour
    <3> HIDE DEF h
    <3>4. JoinFive(a, h, s, e, g)
      BY <2>2, <2>4, <3>1, FiveJoined
    <3>5. (a \o h) \o (s \o e) \o g = a \o (h \o s \o (e \o g))
      BY <3>4 DEF JoinFive
    <3> QED BY <3>3, <3>5 DEF h
  <2> QED BY <2>1, <2>5, <2>6 DEF a
<1> QED BY <1>2, <1>3, <1>4, <1>7, <1>8, <1>9, <1>10, <1>11 DEF LaidOut

\* parseUri() finds the parts the text was put together from.
PiecesAre(p, r) ==
  /\ p.protocol = r.protocol /\ p.user = r.user
  /\ p.pass = IF r.user = NONE THEN NONE ELSE Or(r.pass, <<>>)
  /\ p.host = r.host /\ p.port = r.port /\ p.path = r.path /\ p.query = r.query

\* Cut by cut: the protocol, the slash, the login, the port, the query.
LEMMA PiecesOfText ==
  ASSUME NEW U, NEW r, PlainParts(U, r), r.path # NONE
  PROVE  PiecesAre(pieces(textOf(r)), r)
<1> DEFINE s      == textOf(r)
           prot   == pos(s, 0, <<"://">>)
           rest   == Or(Behind(s, prot), s)
           slash  == pos(rest, 0, <<"/">>)
           server == Or(Before(rest, slash), rest)
           tail   == Or(Behind(rest, slash), rest)
           at     == pos(server, 0, <<"@">>)
           login  == Before(server, at)
           host   == Or(Behind(server, at), server)
           sep    == IF login = NONE THEN NotFound ELSE pos(login, 0, <<":">>)
           colon  == pos(host, 0, <<":">>)
           query  == pos(tail, 0, <<"?">>)
           p      == pieces(s)
<1>1. /\ p.protocol = Before(s, prot)
      /\ p.user = IF login = NONE THEN NONE ELSE Or(Before(login, sep), login)
      /\ p.pass = IF login = NONE THEN NONE ELSE Or(Behind(login, sep), <<>>)
      /\ p.host = Or(Before(host, colon), host) /\ p.port = Behind(host, colon)
      /\ p.path = Or(Before(tail, query), tail) /\ p.query = Behind(tail, query)
  BY DEF pieces
<1>2. /\ LaidOut(U, r) /\ NONE \notin Seq(U)
      /\ ":" \in U /\ "@" \in U /\ "/" \in U /\ "?" \in U /\ "://" \in U
  BY TextIsLaidOut DEF PlainParts, Separators
<1>3. r.protocol = NONE \/ FreeText(U, r.protocol, "://")
  BY DEF PlainParts, Separators
<1>4. FrontOf(s, "://", r.protocol, RestOf(r))
  <2>1. /\ RestOf(r) \in Seq(U) /\ (r.protocol = NONE => FreeText(U, RestOf(r), "://"))
        /\ s = (IF r.protocol = NONE THEN <<>> ELSE Append(r.protocol, "://")) \o RestOf(r)
    BY <1>2 DEF LaidOut
  <2> HIDE DEF s
  <2> QED BY <1>2, <1>3, <2>1, FrontIsCut
<1> HIDE DEF p, s
<1>5. Before(s, prot) = r.protocol /\ rest = RestOf(r)
  BY <1>4 DEF FrontOf
<1> HIDE DEF prot, rest
<1>6. server = ServerOf(r) /\ tail = TailOf(r)
  <2>1. FreeText(U, ServerOf(r), "/") /\ ServerOf(r) \in Seq(U) /\ TailOf(r) \in Seq(U)
    BY <1>2 DEF LaidOut
  <2>2. IsCut(ServerOf(r) \o <<"/">> \o TailOf(r), "/", ServerOf(r), TailOf(r))
    BY <1>2, <2>1, FirstMark
  <2>3. IsCut(rest, "/", ServerOf(r), TailOf(r))
    BY <1>5, <2>2 DEF RestOf
  <2>4. slash \in Nat /\ Part(rest, 0, slash) = ServerOf(r) /\ Rest(rest, slash + 1) = TailOf(r)
    BY <2>3 DEF IsCut
  <2> HIDE DEF slash
  <2>5. Before(rest, slash) = ServerOf(r) /\ Behind(rest, slash) = TailOf(r)
    BY <2>4 DEF Before, Behind, NotFound
  <2>6. ServerOf(r) # NONE /\ TailOf(r) # NONE
    BY <1>2, <2>1
  <2> QED BY <2>5, <2>6 DEF Or
<1> HIDE DEF slash, server, tail
<1>7. login = LoginOf(r) /\ host = HostPortOf(r)
  <2>1. /\ LoginOf(r) = NONE \/ FreeText(U, LoginOf(r), "@")
        /\ HostPortOf(r) \in Seq(U) /\ (LoginOf(r) = NONE => FreeText(U, HostPortOf(r), "@"))
    BY <1>2 DEF LaidOut
  <2>2. FrontOf(server, "@", LoginOf(r), HostPortOf(r))
    BY <1>2, <1>6, <2>1, FrontIsCut DEF ServerOf
  <2> QED BY <2>2 DEF FrontOf
<1> HIDE DEF at, login, host
<1>8. ASSUME r.user # NONE
      PROVE  login # NONE /\ Or(Before(login, sep), login) = r.user /\ Behind(login, sep) = r.pass
  <2>1. FreeText(U, r.user, ":") /\ (r.pass = NONE \/ r.pass \in Seq(U))
    <3>1. r.pass = NONE \/ FreeText(U, r.pass, "@")
      BY DEF PlainParts, Separators
    <3> QED BY <1>8, <3>1 DEF PlainParts, Separators, FreeText
  <2>2. BackOf(r.user \o Marked(":", r.pass), ":", r.user, r.pass)
    BY <1>2, <2>1, BackIsCut
  <2>3. login = r.user \o Marked(":", r.pass)
    BY <1>7, <1>8 DEF LoginOf
  <2>4. login # NONE
    <3>1. Marked(":", r.pass) \in Seq(U)
      BY <1>2, <2>1 DEF Marked
    <3>2. login \in Seq(U)
      BY <2>1, <2>3, <3>1 DEF FreeText
    <3> QED BY <1>2, <3>2
  <2>5. BackOf(login, ":", r.user, r.pass) /\ sep = pos(login, 0, <<":">>)
    BY <2>2, <2>3, <2>4
  <2> HIDE DEF sep
  <2> QED BY <2>4, <2>5 DEF BackOf
<1> HIDE DEF sep
<1>9. p.user = r.user /\ p.pass = IF r.user = NONE THEN NONE ELSE Or(r.pass, <<>>)
  <2>1. CASE r.user = NONE
    BY <1>1, <1>7, <2>1 DEF LoginOf
  <2>2. CASE r.user # NONE
    BY <1>1, <1>8, <2>2
  <2> QED BY <2>1, <2>2
<1>10. p.host = r.host /\ p.port = r.port
  <2>1. FreeText(U, r.host, ":") /\ (r.port = NONE \/ r.port \in Seq(U))
    BY DEF PlainParts, Separators, FreeText
  <2>2. BackOf(host, ":", r.host, r.port)
    BY <1>2, <1>7, <2>1, BackIsCut DEF HostPortOf
  <2> QED BY <1>1, <2>2 DEF BackOf
<1>11. p.path = r.path /\ p.query = r.query
  <2>1. FreeText(U, r.path, "?") /\ (r.query = NONE \/ r.query \in Seq(U))
    BY DEF PlainParts
  <2>2. BackOf(tail, "?", r.path, r.query)
    BY <1>2, <1>6, <2>1, BackIsCut DEF TailOf
  <2> QED BY <1>1, <2>2 DEF BackOf
<1>12. PiecesAre(p, r)
  BY <1>1, <1>5, <1>9, <1>10, <1>11 DEF PiecesAre
<1> QED BY <1>12 DEF p, s

(***************************************************************************)
(* What a thread's URI has of the text it was parsed from                   *)
(***************************************************************************)

\* What an URI has of a text: all but its host and its port,
PartsSaid(u, r) ==
  /\ u.protocol = Or(r.protocol, <<>>) /\ u.user = Or(r.user, <<>>)
  /\ u.pass = (IF r.user = NONE THEN <<>> ELSE Or(r.pass, <<>>))
  /\ u.path = r.path /\ u.query = Or(r.query, <<>>)

\* and these, as soon as the lookup of the host is over.
HostSaid(u, r) ==
  IF r.port # NONE THEN u.port = Head(r.port) /\ u.host.name = r.host
  ELSE u.port = DefaultPorts[r.protocol] /\ u.host.name \in {r.host, <<>>}

\* Parsed with bClearVars, an URI has nothing of what was parsed before.
LEMMA parsedSays ==
  ASSUME NEW u, IsUri(u), NEW p, NEW r, PiecesAre(p, r), r.port # NONE => r.port \in Numbers
  PROVE  LET w == parsed(u, p, TRUE) IN
         PartsSaid(w, r) /\ (r.port # NONE => HostSaid(w, r))
<1> DEFINE a == [u EXCEPT !.protocol = Or(p.protocol, <<>>)]
           b == [a EXCEPT !.user = Or(p.user, <<>>)]
           c == [b EXCEPT !.pass = Or(p.pass, <<>>)]
           d == [c EXCEPT !.path = p.path]
           named == [d EXCEPT !.query = Or(p.query, <<>>)]
           ported == [named EXCEPT !.port = asInteger(p.port)]
           hosted == [ported EXCEPT !.host.name = p.host]
<1>1. parsed(u, p, TRUE) = IF p.port = NONE THEN named ELSE hosted
  BY DEF parsed
<1>2. IsUri(a) /\ a.protocol = Or(p.protocol, <<>>)
  BY OtherField DEF IsUri
<1> HIDE DEF a
<1>3. IsUri(b) /\ b.protocol = a.protocol /\ b.user = Or(p.user, <<>>)
  <2>1. IsUri(b)
    BY <1>2, OtherField
  <2> QED BY <1>2, <2>1 DEF IsUri
<1> HIDE DEF b
<1>4. IsUri(c) /\ c.protocol = a.protocol /\ c.user = b.user /\ c.pass = Or(p.pass, <<>>)
  <2>1. IsUri(c)
    BY <1>3, OtherField
  <2> QED BY <1>3, <2>1 DEF IsUri
<1> HIDE DEF c
<1>5. IsUri(d) /\ d.protocol = a.protocol /\ d.user = b.user /\ d.pass = c.pass /\ d.path = p.path
  <2>1. IsUri(d)
    BY <1>4, OtherField
  <2> QED BY <1>4, <2>1 DEF IsUri
<1> HIDE DEF d
<1>6. /\ IsUri(named) /\ named.protocol = a.protocol /\ named.user = b.user /\ named.pass = c.pass
      /\ named.path = d.path /\ named.query = Or(p.query, <<>>)
  <2>1. IsUri(named)
    BY <1>5, OtherField
  <2> QED BY <1>5, <2>1 DEF IsUri
<1> HIDE DEF named
<1>7. PartsSaid(named, r)
  <2>1. named.pass = IF r.user = NONE THEN <<>> ELSE Or(r.pass, <<>>)
    <3>1. CASE r.user = NONE
      BY <1>4, <1>6, <3>1 DEF PiecesAre, Or
    <3>2. CASE r.user # NONE
      <4>1. Or(Or(r.pass, <<>>), <<>>) = Or(r.pass, <<>>)
        BY DEF Or
      <4> QED BY <1>4, <1>6, <3>2, <4>1 DEF PiecesAre
    <3> QED BY <3>1, <3>2
  <2> QED BY <1>2, <1>3, <1>5, <1>6, <2>1 DEF PartsSaid, PiecesAre
<1>8. ASSUME r.port # NONE PROVE PartsSaid(hosted, r) /\ HostSaid(hosted, r)
  <2> DEFINE h == [ported.host EXCEPT !.name = p.host]
  <2>1. hosted = [ported EXCEPT !.host = h]
    OBVIOUS
  <2>2. IsUri(ported) /\ PartsSaid(ported, r) /\ ported.port = asInteger(p.port)
    <3>1. IsUri(ported)
      BY <1>6, OtherField
    <3> QED BY <1>6, <1>7, <3>1 DEF IsUri, PartsSaid
  <2> HIDE DEF ported
  <2>3. h.name = r.host
    BY <2>2 DEF IsUri, IsHost, PiecesAre
  <2> HIDE DEF h, hosted
  <2>4. hosted.host = h /\ hosted.port = ported.port /\ PartsSaid(hosted, r)
    BY <2>1, <2>2 DEF IsUri, PartsSaid
  <2>5. asInteger(p.port) = Head(r.port)
    <3>1. r.port = <<Head(r.port)>> /\ r.port \in Numbers /\ p.port = r.port
      BY <1>8, PortsAssumption DEF PiecesAre
    <3> DEFINE x == Head(r.port)
    <3> HIDE DEF x
    <3>2. r.port = <<x>>
      BY <3>1 DEF x
    <3>3. r.port[1] = x
      BY <3>2
    <3> QED BY <3>1, <3>3 DEF asInteger, x
  <2> QED BY <1>8, <2>2, <2>3, <2>4, <2>5 DEF HostSaid
<1> HIDE DEF hosted
<1> QED BY <1>1, <1>7, <1>8 DEF PiecesAre

\* The host that was found, or none, and the port of the protocol.
LEMMA withHostSays ==
  ASSUME NEW u, IsUri(u), NEW r, PartsSaid(u, r), r.port = NONE, r.protocol \in DOMAIN DefaultPorts,
         NEW obj, obj = NONE \/ (IsHost(obj) /\ obj.name = r.host), NEW nonValid
  PROVE  LET w == withHost(u, obj, nonValid, TRUE) IN PartsSaid(w, r) /\ HostSaid(w, r)
<1> DEFINE valid == obj # NONE /\ ~firstAddressEqualsOneOf(obj, nonValid)
           h == IF valid THEN obj ELSE NoUri.host
           v == [u EXCEPT !.host = h]
           w == [v EXCEPT !.port = DefaultPorts[r.protocol]]
<1>1. u.protocol = r.protocol
  BY PortsAssumption DEF PartsSaid, Or
<1>2. withHost(u, obj, nonValid, TRUE) = w
  BY <1>1 DEF withHost
<1>3. IsHost(h) /\ h.name \in {r.host, <<>>}
  BY NoUriIsUri DEF IsUri, NoUri, LookupObject
<1> HIDE DEF h
<1>4. IsUri(v) /\ PartsSaid(v, r) /\ v.host = h
  <2>1. IsUri(v) /\ v.host = h
    BY <1>3, HostField
  <2> QED BY <2>1 DEF IsUri, PartsSaid
<1> HIDE DEF v
<1>5. IsUri(w) /\ PartsSaid(w, r) /\ w.host = h /\ w.port = DefaultPorts[r.protocol]
  <2>1. IsUri(w) /\ w.host = h
    BY <1>4, OtherField
  <2> QED BY <1>4, <2>1 DEF IsUri, PartsSaid
<1> HIDE DEF w
<1> QED BY <1>2, <1>3, <1>5 DEF HostSaid

\* The URI of a text with another port, and host.
LEMMA PortField ==
  ASSUME NEW r \in Uris, NEW port, NEW host
  PROVE  LET v == [r EXCEPT !.port = port]
             w == [v EXCEPT !.host = host] IN
         /\ v.port = port /\ v.host = r.host /\ v.protocol = r.protocol /\ v.user = r.user
         /\ v.pass = r.pass /\ v.path = r.path /\ v.query = r.query
         /\ w.port = port /\ w.host = host /\ w.protocol = r.protocol /\ w.user = r.user
         /\ w.pass = r.pass /\ w.path = r.path /\ w.query = r.query
<1> DEFINE R == [protocol |-> r.protocol, user |-> r.user, pass |-> r.pass, host |-> r.host,
                 port |-> r.port, path |-> r.path, query |-> r.query]
           V == [protocol |-> r.protocol, user |-> r.user, pass |-> r.pass, host |-> r.host,
                 port |-> port, path |-> r.path, query |-> r.query]
           W == [protocol |-> r.protocol, user |-> r.user, pass |-> r.pass, host |-> host,
                 port |-> port, path |-> r.path, query |-> r.query]
<1>1. r = R
  BY PartsAssumption
<1>2. [R EXCEPT !.port = port] = V
  OBVIOUS
<1>3. [V EXCEPT !.host = host] = W
  OBVIOUS
<1>4. [r EXCEPT !.port = port] = V
  <2> HIDE DEF R, V
  <2> QED BY <1>1, <1>2
<1>5. [[r EXCEPT !.port = port] EXCEPT !.host = host] = W
  <2> HIDE DEF V, W
  <2> QED BY <1>3, <1>4
<1> QED BY <1>4, <1>5

\* getUri() writes the parts out as they were read, a port that was left out as well.
LEMMA SaidComesBack ==
  ASSUME NEW r \in Uris, IsPlain(r), r.path # NONE, r.port # NONE \/ r.protocol \in DOMAIN DefaultPorts,
         NEW u, PartsSaid(u, r), HostSaid(u, r)
  PROVE  getUri(u) \in {textOf(withPort(r)), textOf([withPort(r) EXCEPT !.host = <<>>])}
<1> DEFINE a == IF r.protocol = NONE THEN <<>> ELSE Append(r.protocol, "://")
           b == IF r.user = NONE THEN <<>> ELSE Append(r.user \o Marked(":", r.pass), "@")
           d == <<":", u.port>>
           e == <<"/">> \o r.path
           g == Marked("?", r.query)
           port == IF r.port = NONE THEN <<DefaultPorts[r.protocol]>> ELSE r.port
           v == withPort(r)
           w == [v EXCEPT !.host = <<>>]
<1>1. PlainParts(SymbolsOf(r), r)
  BY PlainPartsAre
<1>2. /\ r.protocol # NONE => r.protocol # <<>>
      /\ r.user # NONE => r.user # <<>>
      /\ r.pass # NONE => r.pass # <<>>
      /\ r.path # <<>> /\ (r.query # NONE => r.query # <<>>)
  BY <1>1 DEF PlainParts
<1>3. port = <<u.port>> /\ u.port # "0" /\ u.host.name \in {r.host, <<>>}
  <2>1. CASE r.port # NONE
    <3>1. r.port \in Numbers
      BY <2>1 DEF IsPlain
    <3>2. r.port = <<Head(r.port)>> /\ Head(r.port) # "0"
      BY <3>1, PortsAssumption
    <3> QED BY <2>1, <3>2 DEF HostSaid
  <2>2. CASE r.port = NONE
    <3>1. u.port = DefaultPorts[r.protocol] /\ <<u.port>> \notin {<<"0">>, NONE}
      BY <2>2, PortsAssumption DEF HostSaid
    <3> QED BY <2>2, <3>1 DEF HostSaid
  <2> QED BY <2>1, <2>2
<1>4. port # NONE
  <2>1. CASE r.port # NONE
    BY <2>1
  <2>2. CASE r.port = NONE
    BY <2>2, PortsAssumption
  <2> QED BY <2>1, <2>2
<1>5. getUri(u) = a \o b \o u.host.name \o d \o e \o g
  <2>1. a = IF u.protocol = <<>> THEN <<>> ELSE Append(u.protocol, "://")
    BY <1>2 DEF PartsSaid, Or
  <2>2. b = IF u.user = <<>> THEN <<>>
            ELSE Append(u.user \o (IF u.pass = <<>> THEN <<>> ELSE <<":">> \o u.pass), "@")
    BY <1>2 DEF PartsSaid, Or, Marked
  <2>3. d = IF u.port = "0" THEN <<>> ELSE <<":", u.port>>
    BY <1>3
  <2>4. e = IF u.path = <<>> THEN <<>> ELSE <<"/">> \o u.path
    BY <1>2 DEF PartsSaid
  <2>5. g = IF u.query = <<>> THEN <<>> ELSE <<"?">> \o u.query
    BY <1>2 DEF PartsSaid, Or, Marked
  <2> HIDE DEF a, b, d, e, g
  <2> QED BY <2>1, <2>2, <2>3, <2>4, <2>5 DEF getUri
<1>6. d = Marked(":", port)
  <2> DEFINE x == u.port
  <2>1. d = <<":", x>> /\ port = <<x>>
    BY <1>3
  <2> HIDE DEF x, d, port
  <2>2. <<":">> \o <<x>> = <<":", x>>
    BY PairJoined
  <2> QED BY <1>4, <2>1, <2>2 DEF Marked
<1>7. e = Marked("/", r.path)
  BY DEF Marked
<1>8. v = [r EXCEPT !.port = port]
  BY DEF withPort
<1> HIDE DEF a, b, d, e, g, port
<1>9. /\ v.port = port /\ v.host = r.host /\ v.protocol = r.protocol /\ v.user = r.user
      /\ v.pass = r.pass /\ v.path = r.path /\ v.query = r.query
      /\ w.port = port /\ w.host = <<>> /\ w.protocol = r.protocol /\ w.user = r.user
      /\ w.pass = r.pass /\ w.path = r.path /\ w.query = r.query
  BY <1>8, PortField
<1> HIDE DEF v, w
<1>10. textOf(v) = a \o b \o r.host \o d \o e \o g /\ textOf(w) = a \o b \o <<>> \o d \o e \o g
  BY <1>6, <1>7, <1>9 DEF textOf, a, b, g
<1>11. getUri(u) \in {textOf(v), textOf(w)}
  BY <1>3, <1>5, <1>10
<1> QED BY <1>11 DEF v, w

\* An URI that comes back when its text is parsed with bClearVars.
PlainGiven(g) ==
  /\ g # NONE /\ g.clear /\ g.uri.path # NONE
  /\ g.uri.port # NONE \/ g.uri.protocol \in DOMAIN DefaultPorts
  /\ IsPlain(g.uri)

\* How far a thread has come with it: at the lookup of its host, at that of the name
\* that does not exist, or beyond both.
Said(u, r, at, name, obj) ==
  /\ PartsSaid(u, r)
  /\ at \in {"host", "nonvalid"} => r.port = NONE
  /\ at = "host" => name = r.host
  /\ at = "nonvalid" /\ obj # NONE => obj.name = r.host
  /\ at \notin {"host", "nonvalid"} => HostSaid(u, r)

TextInv ==
  \A t \in LookupThreads :
    PlainGiven(given[t]) => Said(uri[t], given[t].uri, step[t], looking[t].name, found[t])

\* A step of one thread leaves the texts of the others alone.
LEMMA TextElsewhere ==
  ASSUME TextInv, NEW t \in LookupThreads,
         \A u \in LookupThreads \ {t} :
           /\ uri'[u] = uri[u] /\ given'[u] = given[u] /\ step'[u] = step[u]
           /\ looking'[u].name = looking[u].name /\ found'[u] = found[u],
         PlainGiven(given'[t]) => Said(uri'[t], given'[t].uri, step'[t], looking'[t].name, found'[t])
  PROVE  TextInv'
BY DEF TextInv

\* Nor does it touch its own where it waits for neither lookup.
LEMMA TextStays ==
  ASSUME TextInv, NEW t \in LookupThreads, UNCHANGED <<uri, given>>,
         step[t] \notin {"host", "nonvalid"}, step'[t] \notin {"host", "nonvalid"},
         \A u \in LookupThreads \ {t} :
           step'[u] = step[u] /\ looking'[u].name = looking[u].name /\ found'[u] = found[u]
  PROVE  TextInv'
<1>1. PlainGiven(given[t]) => PartsSaid(uri[t], given[t].uri) /\ HostSaid(uri[t], given[t].uri)
  BY DEF TextInv, Said
<1>2. PlainGiven(given'[t]) => Said(uri'[t], given'[t].uri, step'[t], looking'[t].name, found'[t])
  BY <1>1 DEF Said
<1> QED BY <1>2, TextElsewhere

\* What the text says is kept by parseUri(),
LEMMA ParseUriText ==
  ASSUME UriInv, TextInv, NEW t \in LookupThreads, ParseUri(t)
  PROVE  TextInv'
<1> PICK r \in Uris, bClearVars \in BOOLEAN :
      LET p == pieces(textOf(r)) IN
      /\ given' = [given EXCEPT ![t] = [uri |-> r, clear |-> bClearVars,
                                        stale |-> StaleNow(t, p, bClearVars)]]
      /\ uri' = [uri EXCEPT ![t] = parsed(@, p, bClearVars)]
      /\ IF p.port = NONE THEN LookUp(t, p.host, "host") ELSE UNCHANGED <<looking, step>>
  BY DEF ParseUri
<1> DEFINE p == pieces(textOf(r))
           w == parsed(uri[t], p, bClearVars)
           g == [uri |-> r, clear |-> bClearVars, stale |-> StaleNow(t, p, bClearVars)]
<1>1. /\ given' = [given EXCEPT ![t] = g] /\ uri' = [uri EXCEPT ![t] = w]
      /\ IF p.port = NONE THEN LookUp(t, p.host, "host") ELSE UNCHANGED <<looking, step>>
      /\ UNCHANGED <<list, resolverVars, found>> /\ step[t] = "idle"
  BY DEF ParseUri, Called
<1>2. p.host \in DOMAIN Answers
  BY UrisAssumption
<1>3. IsPlain(r) /\ r.path # NONE => PiecesAre(p, r)
  BY PlainPartsAre, PiecesOfText
<1>4. g.uri = r /\ g.clear = bClearVars
  OBVIOUS
<1>5. IsPlain(r) /\ r.path # NONE /\ bClearVars => PartsSaid(w, r) /\ (r.port # NONE => HostSaid(w, r))
  <2> SUFFICES ASSUME IsPlain(r), r.path # NONE, bClearVars
               PROVE  PartsSaid(w, r) /\ (r.port # NONE => HostSaid(w, r))
    OBVIOUS
  <2>1. IsUri(uri[t]) /\ PiecesAre(p, r) /\ (r.port # NONE => r.port \in Numbers)
    BY <1>3 DEF UriInv, UriTypeInv, IsPlain
  <2>2. w = parsed(uri[t], p, TRUE)
    OBVIOUS
  <2> HIDE DEF p, w
  <2> QED BY <2>1, <2>2, parsedSays
<1> HIDE DEF p, w, g
<1>6. uri'[t] = w /\ \A u \in LookupThreads \ {t} : uri'[u] = uri[u]
  BY <1>1, OneChanged DEF UriInv, UriTypeInv
<1>7. given'[t] = g /\ \A u \in LookupThreads \ {t} : given'[u] = given[u]
  BY <1>1 DEF UriInv, UriTypeInv
<1>8. /\ p.port = NONE => step'[t] = "host" /\ looking'[t].name = p.host
      /\ p.port # NONE => step'[t] = "idle"
      /\ \A u \in LookupThreads \ {t} : step'[u] = step[u] /\ looking'[u] = looking[u]
  <2>1. CASE p.port = NONE
    BY <1>1, <1>2, <2>1, LookUpLooks DEF UriInv
  <2>2. CASE p.port # NONE
    BY <1>1, <2>2
  <2> QED BY <2>1, <2>2
<1>9. PlainGiven(g) => Said(w, g.uri, step'[t], looking'[t].name, found'[t])
  <2> SUFFICES ASSUME PlainGiven(g) PROVE Said(w, r, step'[t], looking'[t].name, found'[t])
    BY <1>4
  <2>1. IsPlain(r) /\ r.path # NONE /\ bClearVars
    BY <1>4 DEF PlainGiven
  <2>2. p.port = r.port /\ p.host = r.host
    BY <1>3, <2>1 DEF PiecesAre
  <2> QED BY <1>5, <1>8, <2>1, <2>2 DEF Said
<1> QED BY <1>1, <1>6, <1>7, <1>8, <1>9, TextElsewhere

\* by the end of the lookup of a host,
LEMMA HostFoundText ==
  ASSUME UriInv, TextInv, NEW t \in LookupThreads, NEW obj \in LookupObjects \union {NONE}, NEW nonValid,
         step[t] \in {"host", "nonvalid"}, HostFound(t, obj, nonValid),
         UNCHANGED <<list, resolverVars, historyVars>>,
         PlainGiven(given[t]) /\ obj # NONE => obj.name = given[t].uri.host
  PROVE  TextInv'
<1> DEFINE w == withHost(uri[t], obj, nonValid, given[t].clear)
           r == given[t].uri
<1>1. uri' = [uri EXCEPT ![t] = w] /\ Finished(t) /\ UNCHANGED <<list, resolverVars, given>>
  BY DEF HostFound, historyVars
<1>2. PlainGiven(given[t]) => PartsSaid(w, r) /\ HostSaid(w, r)
  <2> SUFFICES ASSUME PlainGiven(given[t]) PROVE PartsSaid(w, r) /\ HostSaid(w, r)
    OBVIOUS
  <2>1. IsUri(uri[t]) /\ PartsSaid(uri[t], r) /\ r.port = NONE /\ r.protocol \in DOMAIN DefaultPorts
    BY DEF UriInv, UriTypeInv, TextInv, Said, PlainGiven
  <2>2. obj = NONE \/ (IsHost(obj) /\ obj.name = r.host)
    BY ObjectIsHost
  <2>3. given[t] \in Given /\ given[t].clear
    BY DEF UriInv, UriTypeInv, PlainGiven
  <2>4. given[t].clear = TRUE
    BY <2>3 DEF Given
  <2>5. w = withHost(uri[t], obj, nonValid, TRUE)
    BY <2>4
  <2> HIDE DEF w, r
  <2> QED BY <2>1, <2>2, <2>5, withHostSays
<1> HIDE DEF w
<1>3. uri'[t] = w /\ \A u \in LookupThreads \ {t} : uri'[u] = uri[u]
  BY <1>1, OneChanged DEF UriInv, UriTypeInv
<1>4. /\ step'[t] = "idle"
      /\ \A u \in LookupThreads \ {t} :
           step'[u] = step[u] /\ looking'[u] = looking[u] /\ found'[u] = found[u]
  <2>1. step'[t] = "idle" /\ \A u \in LookupThreads \ {t} : step'[u] = step[u] /\ looking'[u] = looking[u]
    BY <1>1, FinishedIsIdle DEF UriInv
  <2>2. \A u \in LookupThreads \ {t} : found'[u] = found[u]
    BY <1>1 DEF Finished, UriInv, UriTypeInv
  <2> QED BY <2>1, <2>2
<1>5. PlainGiven(given'[t]) => Said(uri'[t], given'[t].uri, step'[t], looking'[t].name, found'[t])
  BY <1>1, <1>2, <1>3, <1>4 DEF Said
<1> QED BY <1>1, <1>3, <1>4, <1>5, TextElsewhere

\* by the answer for a host,
LEMMA HostAnsweredText ==
  ASSUME UriInv, TextInv, NEW t \in LookupThreads, HostAnswered(t)
  PROVE  TextInv'
<1> DEFINE obj == looking[t].obj
<1>1. step[t] = "host" /\ UNCHANGED <<list, resolverVars, historyVars>>
  BY DEF HostAnswered, Answered
<1>2. CASE obj = NONE
  BY <1>1, <1>2, HostFoundText DEF HostAnswered
<1>3. CASE obj # NONE
  <2>1. /\ found' = [found EXCEPT ![t] = obj]
        /\ LookUp(t, sNonValidHostName, "nonvalid") /\ UNCHANGED <<uri, given>>
    BY <1>1, <1>3 DEF HostAnswered, historyVars
  <2>2. obj.name = looking[t].name
    BY <1>3 DEF UriInv, CacheInv, LookingInv
  <2> HIDE DEF obj
  <2>3. found'[t] = obj /\ \A u \in LookupThreads \ {t} : found'[u] = found[u]
    BY <2>1 DEF UriInv, UriTypeInv
  <2>4. /\ step'[t] = "nonvalid"
        /\ \A u \in LookupThreads \ {t} : step'[u] = step[u] /\ looking'[u] = looking[u]
    BY <1>1, <2>1, LookUpLooks, AnswersAssumption DEF UriInv
  <2>5. PlainGiven(given[t]) => Said(uri[t], given[t].uri, step'[t], looking'[t].name, found'[t])
    BY <1>1, <2>2, <2>3, <2>4 DEF TextInv, Said
  <2> QED BY <2>1, <2>3, <2>4, <2>5, TextElsewhere
<1> QED BY <1>2, <1>3

\* by the answer for the name that does not exist,
LEMMA NonValidAnsweredText ==
  ASSUME UriInv, TextInv, NEW t \in LookupThreads, NonValidAnswered(t)
  PROVE  TextInv'
<1>1. /\ found[t] \in LookupObjects \union {NONE} /\ step[t] = "nonvalid"
      /\ HostFound(t, found[t], looking[t].obj) /\ UNCHANGED <<list, resolverVars, historyVars>>
  BY DEF NonValidAnswered, Answered, UriInv, UriTypeInv
<1>2. PlainGiven(given[t]) /\ found[t] # NONE => found[t].name = given[t].uri.host
  BY <1>1 DEF TextInv, Said
<1> QED BY <1>1, <1>2, HostFoundText

\* by get() and its answer, and by clearing the cache and the end of that,
LEMMA OtherCallsText ==
  ASSUME UriInv, TextInv, NEW t \in LookupThreads,
         Get(t) \/ GetAnswered(t) \/ Clear(t) \/ ClearAnswered(t)
  PROVE  TextInv'
<1>1. UNCHANGED <<uri, given>> /\ step[t] \in {"idle", "get", "clear"}
  BY DEF Get, GetAnswered, Clear, ClearAnswered, Called, Answered, historyVars
<1>2. \/ /\ UNCHANGED found
         /\ \/ UNCHANGED <<looking, step>>
            \/ \E sHost, next : LookUp(t, sHost, next) /\ next \in {"get", "clear"}
      \/ Finished(t)
  BY DEF Get, GetAnswered, Clear, ClearAnswered
<1>3. /\ step \in [LookupThreads -> {"idle", "host", "nonvalid", "get", "clear"}]
      /\ found \in [LookupThreads -> LookupObjects \union {NONE}]
      /\ looking \in [LookupThreads -> [name : Names, obj : LookupObjects \union {NONE}, at : LookupPlaces]]
  BY DEF UriInv, UriTypeInv, CacheInv, LookupTypeInv
<1>4. /\ step'[t] \notin {"host", "nonvalid"}
      /\ \A u \in LookupThreads \ {t} :
           step'[u] = step[u] /\ looking'[u] = looking[u] /\ found'[u] = found[u]
  BY <1>1, <1>2, <1>3 DEF LookUp, Finished
<1> QED BY <1>1, <1>4, TextStays

\* by the steps of a lookup,
LEMMA LookupStepText ==
  ASSUME UriInv, TextInv, NEW t \in LookupThreads, LookupStep(t), UNCHANGED <<uri, step, found, historyVars>>
  PROVE  TextInv'
<1>1. \A u \in LookupThreads : looking'[u].name = looking[u].name
  BY LookupStepInv DEF UriInv
<1> QED BY <1>1 DEF TextInv, historyVars

\* and by every step.
LEMMA TextNextInv == UriInv /\ TextInv /\ [UriNext]_uriVars => TextInv'
<1> SUFFICES ASSUME UriInv, TextInv, [UriNext]_uriVars PROVE TextInv'
  OBVIOUS
<1>1. ASSUME NEW t \in LookupThreads,
             \/ ParseUri(t) \/ HostAnswered(t) \/ NonValidAnswered(t) \/ Get(t) \/ GetAnswered(t)
             \/ Clear(t) \/ ClearAnswered(t)
             \/ LookupStep(t) /\ UNCHANGED <<uri, step, found, historyVars>>
      PROVE  TextInv'
  BY <1>1, ParseUriText, HostAnsweredText, NonValidAnsweredText, OtherCallsText, LookupStepText
<1>2. CASE UNCHANGED uriVars
  BY <1>2 DEF uriVars, lookupVars, historyVars, TextInv
<1> QED BY <1>1, <1>2 DEF UriNext

\* URI.h: what parseUri() makes of a text with bClearVars, getUri() writes as that
\* text, or as the text without its host, for any plain parts, whatever was parsed
\* before and however the lookups of the threads cross.
THEOREM UrisComeBack == UriSpec => []UriComesBack
<1>1. UriInit => TextInv
  BY DEF UriInit, TextInv, PlainGiven
<1>2. UriInv /\ TextInv => UriComesBack
  <2> SUFFICES ASSUME UriInv, TextInv, NEW t \in LookupThreads, step[t] = "idle", PlainGiven(given[t])
               PROVE  LET r == given[t].uri IN
                      getUri(uri[t]) \in {textOf(withPort(r)), textOf([withPort(r) EXCEPT !.host = <<>>])}
    BY DEF UriComesBack, PlainGiven
  <2> DEFINE r == given[t].uri
             u == uri[t]
  <2>1. PartsSaid(u, r) /\ HostSaid(u, r)
    BY DEF TextInv, Said
  <2>2. /\ r \in Uris /\ IsPlain(r) /\ r.path # NONE
        /\ r.port # NONE \/ r.protocol \in DOMAIN DefaultPorts
    BY DEF UriInv, UriTypeInv, Given, PlainGiven
  <2> HIDE DEF r, u
  <2>3. getUri(u) \in {textOf(withPort(r)), textOf([withPort(r) EXCEPT !.host = <<>>])}
    BY <2>1, <2>2, SaidComesBack
  <2> QED BY <2>3 DEF r, u
<1> QED BY <1>1, <1>2, TextNextInv, UriSpecInv, PTL DEF UriSpec
=============================================================================
