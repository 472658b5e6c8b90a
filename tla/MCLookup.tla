------------------------------ MODULE MCLookup ------------------------------
(***************************************************************************)
(* Lockable and what a mutex is used for in LookupCache, model-checked:     *)
(* threads lock, try and wait, or threads parse URIs and connect to them.   *)
(* The cache takes its mutex for a moment only and without a timeout, so    *)
(* that the two are checked side by side: one starts only where the other   *)
(* has not.                                                                 *)
(***************************************************************************)
EXTENDS Lockable, Uri

vars == <<lockVars, uriVars>>

Parts(protocol, user, pass, host, port, path, query) ==
  [protocol |-> protocol, user |-> user, pass |-> pass, host |-> host,
   port |-> port, path |-> path, query |-> query]

\* With and without each part; a protocol without a port of its own; marks where they
\* are not separators; nothing but a host.
MCUris ==
  {Parts(<<"http">>, NONE, NONE, <<"a">>, NONE, <<"p">>, NONE),
   Parts(<<"http">>, <<"u">>, <<"w">>, <<"b">>, <<"8080">>, <<"p">>, <<"q">>),
   Parts(<<"foo">>, <<"u">>, NONE, <<"a">>, <<"80">>, <<"p", "/", "p">>, <<"q", "?">>),
   Parts(NONE, NONE, NONE, <<"b">>, NONE, NONE, NONE)}

\* A host with two addresses, and one that answers, fails, or is answered for like
\* the one that does not exist.
MCAnswers ==
  (<<"a">> :> {<<1, 2>>}) @@ (<<"b">> :> {<<3>>, <<>>, <<9>>})
    @@ (<<"nonvalid">> :> {<<>>, <<9>>}) @@ (<<>> :> {<<>>})

MCNonValid     == <<"nonvalid">>
MCLeftovers    == {<<>>, <<3>>}
MCNumbers      == {<<"80">>, <<"8080">>}
MCDefaultPorts == <<"http">> :> "80"

\* Nothing tells the threads from one another.
MCSymmetry == Permutations(Threads \union LookupThreads)

\* The address that is answered for names that do not exist.
Hoax == 9

Held ==
  LET objs == Range(list) \union {looking[t].obj : t \in LookupThreads}
                \union Range(found) \union {uri[t].host : t \in LookupThreads}
  IN  Range(hostent) \union UNION {Range(obj.addresses) : obj \in objs \ {NONE}}

AtWork == {t \in LookupThreads : step[t] # "idle" \/ given[t] # NONE}

\* Bound: two threads cross in one call less than one thread alone may make, and without
\* answers for names that do not exist.
Room == Cardinality(AtWork) <= 1 \/ (calls < MaxCalls /\ Hoax \notin Held)

Init == LockInit /\ UriInit

\* LockInit and UriInit say here that nothing has been done yet; when the one or with
\* what list the other begins is nothing to the other.
LocksOnly == UriInit /\ list = <<>> /\ LockNext /\ UNCHANGED uriVars
UrisOnly  == LockInit /\ now = 0 /\ UriNext /\ Room' /\ UNCHANGED lockVars

Next == LocksOnly \/ UrisOnly

Spec == Init /\ [][Next]_vars
=============================================================================
