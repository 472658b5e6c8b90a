---------------------------- MODULE LookupCache ----------------------------
(***************************************************************************)
(* Jumpropes::LookupCache: several threads look up hosts in a list that     *)
(* they share.  The mutex is held while the list is searched and while an   *)
(* object is added to it, not in between, where the name is resolved; each  *)
(* of these is a step.                                                      *)
(*                                                                         *)
(* JRresolveAll() (Jumpropes/Functions.cpp:361) copies the addresses from   *)
(* the hostent that gethostbyname() returns, one after the other.  There is *)
(* one hostent for all threads: who calls next overwrites what another may  *)
(* not have copied yet.  Every address is a step (here with its text, which *)
(* the code copies right behind it), and a call is one.                     *)
(*                                                                         *)
(* A LookupObject is a name with its addresses.  Those in the list are      *)
(* never changed, so that a pointer to one is the object itself; clear()    *)
(* deletes them, and is called here only while nobody looks for a host,     *)
(* which nothing in the code sees to.                                       *)
(***************************************************************************)
EXTENDS Integers, FiniteSets, SequencesExt

CONSTANTS
  LookupThreads,
  sNonValidHostName,  \* a name that does not exist
  Answers,            \* of the system, for each name: sequences of addresses, <<>> if it fails
  Leftovers,          \* what a gethostbyname() that fails may leave in its hostent
  Beyond,             \* the addresses that may stand behind the end of a list
  MaxBeyond,          \* bound: how many of them are copied
  NONE

ASSUME ThreadsAssumption == IsFiniteSet(LookupThreads) /\ LookupThreads # {}

AddressesOf(sHost) == UNION {Range(answer) : answer \in Answers[sHost]}
Addresses == UNION {AddressesOf(sHost) : sHost \in DOMAIN Answers}

ASSUME AnswersAssumption ==
  /\ sNonValidHostName \in DOMAIN Answers
  /\ \A sHost \in DOMAIN Answers : Answers[sHost] \subseteq Seq(AddressesOf(sHost))
  /\ Leftovers \subseteq Seq(Addresses)
  /\ Beyond \subseteq Addresses
  /\ NONE \notin Addresses /\ MaxBeyond \in Nat

VARIABLES
  list,               \* the LookupObjects, in the order in which they were added
  looking,            \* the lookupHost() each thread is in: the name, the object found
                      \* or NONE, and the step that is next, "done" at the end
  hostent,            \* h_addr_list of the hostent of gethostbyname(), without its NULL
  mixed               \* history: the names of which a hostent was overwritten while it
                      \* was copied

resolverVars == <<hostent, mixed>>
lookupVars == <<list, looking, resolverVars>>

LookupObject(name, addresses) == [name |-> name, addresses |-> addresses]

LookupObjects == [name : DOMAIN Answers, addresses : Seq(Addresses)]

ASSUME NoneIsNoObject == NONE \notin LookupObjects

NotLooking == [name |-> NONE, obj |-> NONE, at |-> "idle"]

\* Mutant: the last object is taken, its name is not compared.
findLast(sHost) == IF list = <<>> THEN NONE ELSE Last(list)

findObj(sHost) ==
  IF \E i \in DOMAIN list : list[i].name = sHost
  THEN list[SelectInSeq(list, LAMBDA obj : obj.name = sHost)] ELSE NONE

firstAddressEqualsOneOf(obj, other) ==
  IF other = NONE THEN obj.addresses = <<>>
  ELSE IF obj.addresses = <<>> THEN other.addresses = <<>>
  ELSE Head(obj.addresses) \in Range(other.addresses)

-----------------------------------------------------------------------------

lookupOf(sHost) == [name |-> sHost, obj |-> NONE, at |-> "find"]

\* Mutant: what is in the list is not looked at.
FindNothing(t) ==
  /\ looking[t].at = "find"
  /\ looking' = [looking EXCEPT ![t].at = "gethostbyname"]
  /\ UNCHANGED <<list, resolverVars>>

FindObj(t) ==
  /\ looking[t].at = "find"
  /\ LET obj == findObj(looking[t].name)
     IN  looking' = [looking EXCEPT ![t].obj = obj,
                                    ![t].at = IF obj = NONE THEN "gethostbyname" ELSE "done"]
  /\ UNCHANGED <<list, resolverVars>>

\* The names of those who have not copied all of their hostent yet.
Copying(t) == {looking[u].name : u \in {u \in LookupThreads \ {t} : looking[u].at = "copy"}}

\* A call that fails leaves something in the hostent, too.
gethostbyname(t) ==
  /\ looking[t].at = "gethostbyname"
  /\ \E answer \in Answers[looking[t].name] :
       IF answer = <<>>
       THEN /\ looking' = [looking EXCEPT ![t].at = "getaddrinfo"]
            /\ hostent' \in Leftovers
       ELSE /\ looking' = [looking EXCEPT ![t].obj = LookupObject(looking[t].name, <<>>),
                                          ![t].at = "copy"]
            /\ hostent' = answer
  /\ mixed' = mixed \union Copying(t)
  /\ UNCHANGED list

\* h_addr_list[i], NONE for its NULL.  What stands behind that is not defined: it may
\* be an address of a longer list that was there, or another NULL.
addressAt(i) ==
  IF i <= Len(hostent) THEN {hostent[i]}
  ELSE IF i = Len(hostent) + 1 \/ i > Len(hostent) + 1 + MaxBeyond THEN {NONE}
  ELSE {NONE} \union Beyond

\* The loop of JRresolveAll() goes on until it finds NULL; without an address there is
\* getaddrinfo().
CopyAddress(t) ==
  LET addresses == looking[t].obj.addresses IN
  /\ looking[t].at = "copy"
  /\ \E address \in addressAt(Len(addresses) + 1) :
       looking' = IF address # NONE
                  THEN [looking EXCEPT ![t].obj.addresses = Append(addresses, address)]
                  ELSE IF addresses = <<>>
                  THEN [looking EXCEPT ![t].obj = NONE, ![t].at = "getaddrinfo"]
                  ELSE [looking EXCEPT ![t].at = "add"]
  /\ UNCHANGED <<list, resolverVars>>

\* JRresolveAllWithGetAddrInfo(): its list is the thread's own.
getaddrinfo(t) ==
  /\ looking[t].at = "getaddrinfo"
  /\ \E answer \in Answers[looking[t].name] :
       looking' = IF answer = <<>> THEN [looking EXCEPT ![t].at = "done"]
                  ELSE [looking EXCEPT ![t].obj = LookupObject(looking[t].name, answer),
                                       ![t].at = "add"]
  /\ UNCHANGED <<list, resolverVars>>

\* addObject(): another thread may have added one of that name since.
AddObject(t) ==
  /\ looking[t].at = "add"
  /\ list' = Append(list, looking[t].obj)
  /\ looking' = [looking EXCEPT ![t].at = "done"]
  /\ UNCHANGED resolverVars

\* Both lookupHost(): the one that is given an object copies what was found into it.
LookupStep(t) ==
  FindObj(t) \/ gethostbyname(t) \/ CopyAddress(t) \/ getaddrinfo(t) \/ AddObject(t)
=============================================================================
