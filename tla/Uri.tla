-------------------------------- MODULE Uri --------------------------------
(***************************************************************************)
(* Jumpropes::URI and what HttpClient::get() makes of one: threads with an  *)
(* URI each parse one text after the other, look up the host in the cache   *)
(* they share and connect to it (URI.cpp, LookupCache.cpp, HttpClient.cpp). *)
(*                                                                         *)
(* A text is a sequence of symbols: names, numbers, "://", "/", "@", ":",   *)
(* "?".  The names of Answers are texts of one symbol, or none.             *)
(***************************************************************************)
EXTENDS LookupCache, Strings

CONSTANTS
  Uris,            \* records of the parts of an URI; a part left out is NONE
  Numbers,         \* the texts that are numbers, without 0
  DefaultPorts,    \* getservbyname(): the ports of the protocols the system knows
  MaxCalls         \* bound: the calls of all threads

VARIABLES
  uri,             \* the URI of each thread
  step,            \* where each thread is: "idle", or for what it waits
  found,           \* the host it found and has not taken yet, or NONE
  calls,           \* how many calls were made
  given,           \* history: the Uri it parsed last, whether with bClearVars, and
                   \* whether addresses of an earlier host may have stayed (stale)
  connection       \* history: what get() connected to since then and asked for, or NONE

historyVars == <<calls, given, connection>>
uriVars == <<lookupVars, uri, step, found, historyVars>>

NoUri == [protocol |-> <<>>, user |-> <<>>, pass |-> <<>>, host |-> LookupObject(<<>>, <<>>),
          port |-> "0", path |-> <<>>, query |-> <<>>]

Or(part, default) == IF part = NONE THEN default ELSE part

Separators == {"://", "/", "@", ":", "?"}

\* The symbols of the parts.
SymbolsOf(r) ==
  Separators \union UNION {Range(r[part]) : part \in {field \in DOMAIN r : r[field] # NONE}}

ASSUME PartsAssumption ==
  \A r \in Uris :
    /\ r = [protocol |-> r.protocol, user |-> r.user, pass |-> r.pass, host |-> r.host,
            port |-> r.port, path |-> r.path, query |-> r.query]
    /\ NONE \notin Seq(SymbolsOf(r))

\* Ports are numbers, and 0 is the port of an URI that has none.
ASSUME PortsAssumption ==
  /\ \A number \in Numbers : number = <<Head(number)>> /\ Head(number) \notin Separators \union {"0"}
  /\ NONE \notin DOMAIN DefaultPorts
  /\ \A protocol \in DOMAIN DefaultPorts : <<DefaultPorts[protocol]>> \notin {<<"0">>, NONE}

\* What stands behind the mark, and the mark, or nothing.
Marked(mark, part) == IF part = NONE THEN <<>> ELSE <<mark>> \o part

textOf(r) ==
  (IF r.protocol = NONE THEN <<>> ELSE Append(r.protocol, "://"))
    \o (IF r.user = NONE THEN <<>> ELSE Append(r.user \o Marked(":", r.pass), "@"))
    \o r.host \o Marked(":", r.port) \o Marked("/", r.path) \o Marked("?", r.query)

-----------------------------------------------------------------------------
(* parseUri()                                                               *)

Before(s, p) == IF p = NotFound THEN NONE ELSE Part(s, 0, p)
Behind(s, p) == IF p = NotFound THEN NONE ELSE Rest(s, p + 1)

\* Without a slash, what stands for the host is the path as well.
pieces(sUri) ==
  LET first(s, mark) == pos(s, 0, <<mark>>)
      prot   == first(sUri, "://")
      rest   == Or(Behind(sUri, prot), sUri)
      slash  == first(rest, "/")
      server == Or(Before(rest, slash), rest)
      tail   == Or(Behind(rest, slash), rest)
      at     == first(server, "@")
      login  == Before(server, at)
      host   == Or(Behind(server, at), server)
      sep    == IF login = NONE THEN NotFound ELSE first(login, ":")
      colon  == first(host, ":")
      query  == first(tail, "?")
  IN  [protocol |-> Before(sUri, prot),
       user |-> IF login = NONE THEN NONE ELSE Or(Before(login, sep), login),
       pass |-> IF login = NONE THEN NONE ELSE Or(Behind(login, sep), <<>>),
       host |-> Or(Before(host, colon), host), port |-> Behind(host, colon),
       path |-> Or(Before(tail, query), tail), query |-> Behind(tail, query)]

\* The system answers for every host that may be looked up.
ASSUME UrisAssumption ==
  /\ <<>> \in DOMAIN Answers
  /\ \A r \in Uris : pieces(textOf(r)).host \in DOMAIN Answers
  /\ NONE \notin [uri : Uris, clear : BOOLEAN, stale : BOOLEAN]

\* BValue: a text that is no number is 0.
asInteger(s) == IF s \in Numbers THEN s[1] ELSE "0"

\* Mutant: the user of the URI that was parsed before is kept.
parsedOver(u, p, bClearVars) ==
  LET part(field) == Or(p[field], IF bClearVars THEN <<>> ELSE u[field])
      named == [u EXCEPT !.protocol = part("protocol"), !.user = Or(p.user, @),
                         !.pass = Or(p.pass, @), !.path = p.path, !.query = Or(p.query, <<>>)]
  IN  IF p.port = NONE THEN named
      ELSE [named EXCEPT !.port = asInteger(p.port), !.host.name = p.host]

\* Everything but a host that has to be looked up.  With a port the host is only
\* named: the addresses of the one before stay.
parsed(u, p, bClearVars) ==
  LET part(field) == Or(p[field], IF bClearVars THEN <<>> ELSE u[field])
      named == [u EXCEPT !.protocol = part("protocol"), !.user = part("user"),
                         !.pass = part("pass"), !.path = p.path, !.query = Or(p.query, <<>>)]
  IN  IF p.port = NONE THEN named
      ELSE [named EXCEPT !.port = asInteger(p.port), !.host.name = p.host]

\* Mutant: an URI that is parsed anew keeps the host it had if there is none.
withHostKept(u, obj, nonValid, bClearVars) ==
  LET valid == obj # NONE /\ ~firstAddressEqualsOneOf(obj, nonValid)
      default == u.protocol \in DOMAIN DefaultPorts
  IN  [u EXCEPT !.host = IF valid THEN obj ELSE @,
                !.port = IF bClearVars /\ default THEN DefaultPorts[u.protocol] ELSE @]

\* A host that is not there, or is answered for as one that does not exist, is none.
withHost(u, obj, nonValid, bClearVars) ==
  LET valid == obj # NONE /\ ~firstAddressEqualsOneOf(obj, nonValid)
      default == u.protocol \in DOMAIN DefaultPorts
  IN  [u EXCEPT !.host = IF valid THEN obj ELSE IF bClearVars THEN NoUri.host ELSE @,
                !.port = IF bClearVars /\ default THEN DefaultPorts[u.protocol] ELSE @]

getUri(u) ==
  (IF u.protocol = <<>> THEN <<>> ELSE Append(u.protocol, "://"))
    \o (IF u.user = <<>> THEN <<>>
        ELSE Append(u.user \o (IF u.pass = <<>> THEN <<>> ELSE <<":">> \o u.pass), "@"))
    \o u.host.name
    \o (IF u.port = "0" THEN <<>> ELSE <<":", u.port>>)
    \o (IF u.path = <<>> THEN <<>> ELSE <<"/">> \o u.path)
    \o (IF u.query = <<>> THEN <<>> ELSE <<"?">> \o u.query)

-----------------------------------------------------------------------------
(* The threads                                                              *)

UriInit ==
  /\ list \in {<<>>} \union {<<LookupObject(sNonValidHostName, answer)>> :
                               answer \in Answers[sNonValidHostName] \ {<<>>}}
  /\ looking = [t \in LookupThreads |-> NotLooking]
  /\ hostent = <<>> /\ mixed = {}
  /\ uri = [t \in LookupThreads |-> NoUri]
  /\ step = [t \in LookupThreads |-> "idle"]
  /\ found = [t \in LookupThreads |-> NONE]
  /\ calls = 0
  /\ given = [t \in LookupThreads |-> NONE]
  /\ connection = [t \in LookupThreads |-> NONE]

Called(t) ==
  /\ step[t] = "idle" /\ calls < MaxCalls
  /\ calls' = calls + 1

LookUp(t, sHost, next) ==
  /\ looking' = [looking EXCEPT ![t] = lookupOf(sHost)]
  /\ step' = [step EXCEPT ![t] = next]

Answered(t, at) == step[t] = at /\ looking[t].at = "done"

Finished(t) ==
  /\ step' = [step EXCEPT ![t] = "idle"]
  /\ looking' = [looking EXCEPT ![t] = NotLooking]
  /\ found' = [found EXCEPT ![t] = NONE]

\* Addresses that a port given with the host leaves where they are.
StaleNow(t, p, bClearVars) ==
  IF p.port # NONE THEN uri[t].host.addresses # <<>>
  ELSE given[t] # NONE /\ given[t].stale /\ ~bClearVars

ParseUri(t) ==
  /\ Called(t)
  /\ \E r \in Uris, bClearVars \in BOOLEAN :
       LET p == pieces(textOf(r)) IN
       /\ given' = [given EXCEPT ![t] = [uri |-> r, clear |-> bClearVars,
                                         stale |-> StaleNow(t, p, bClearVars)]]
       /\ uri' = [uri EXCEPT ![t] = parsed(@, p, bClearVars)]
       /\ IF p.port = NONE THEN LookUp(t, p.host, "host") ELSE UNCHANGED <<looking, step>>
  /\ connection' = [connection EXCEPT ![t] = NONE]
  /\ UNCHANGED <<list, resolverVars, found>>

HostFound(t, obj, nonValid) ==
  /\ uri' = [uri EXCEPT ![t] = withHost(@, obj, nonValid, given[t].clear)]
  /\ Finished(t)

\* equalsNonValidHostResponse() looks up the name that does not exist each time.
HostAnswered(t) ==
  /\ Answered(t, "host")
  /\ IF looking[t].obj = NONE THEN HostFound(t, NONE, NONE)
     ELSE /\ found' = [found EXCEPT ![t] = looking[t].obj]
          /\ LookUp(t, sNonValidHostName, "nonvalid")
          /\ UNCHANGED uri
  /\ UNCHANGED <<list, resolverVars, historyVars>>

NonValidAnswered(t) ==
  /\ Answered(t, "nonvalid")
  /\ HostFound(t, found[t], looking[t].obj)
  /\ UNCHANGED <<list, resolverVars, historyVars>>

\* What HttpClient asks the first address of a host for.
requestOf(u) ==
  (IF u.path # <<>> /\ Head(u.path) = "/" THEN u.path ELSE <<"/">> \o u.path)
    \o (IF u.query = <<>> THEN <<>> ELSE <<"?">> \o u.query)

connected(u, addresses) ==
  IF addresses = <<>> THEN NONE
  ELSE [host |-> u.host.name, address |-> Head(addresses), port |-> u.port, request |-> requestOf(u)]

\* HttpClient::get() looks the host up if the URI has no address.
Get(t) ==
  /\ Called(t) /\ given[t] # NONE
  /\ IF uri[t].host.addresses = <<>>
     THEN LookUp(t, uri[t].host.name, "get") /\ connection' = [connection EXCEPT ![t] = NONE]
     ELSE /\ connection' = [connection EXCEPT ![t] = connected(uri[t], uri[t].host.addresses)]
          /\ UNCHANGED <<looking, step>>
  /\ UNCHANGED <<list, resolverVars, uri, found, given>>

GetAnswered(t) ==
  /\ Answered(t, "get")
  /\ connection' = [connection EXCEPT ![t] =
       connected(uri[t], IF looking[t].obj = NONE THEN <<>> ELSE looking[t].obj.addresses)]
  /\ Finished(t)
  /\ UNCHANGED <<list, resolverVars, uri, calls, given>>

\* LookupCache::clear(), with the name that does not exist looked up anew.
Clear(t) ==
  /\ Called(t) /\ \A other \in LookupThreads : step[other] = "idle"
  /\ list' = <<>>
  /\ LookUp(t, sNonValidHostName, "clear")
  /\ UNCHANGED <<resolverVars, uri, found, given, connection>>

ClearAnswered(t) ==
  /\ Answered(t, "clear")
  /\ Finished(t)
  /\ UNCHANGED <<list, resolverVars, uri, historyVars>>

UriNext ==
  \E t \in LookupThreads :
    \/ ParseUri(t) \/ HostAnswered(t) \/ NonValidAnswered(t) \/ Get(t) \/ GetAnswered(t)
    \/ Clear(t) \/ ClearAnswered(t)
    \/ LookupStep(t) /\ UNCHANGED <<uri, step, found, historyVars>>

UriSpec == UriInit /\ [][UriNext]_uriVars

-----------------------------------------------------------------------------
(* Properties.                                                              *)

\* The URI with the port its protocol has, which getUri() writes out.
withPort(r) == [r EXCEPT !.port = IF @ = NONE THEN <<DefaultPorts[r.protocol]>> ELSE @]

FreeOf(part, marks) == \A i \in DOMAIN part : part[i] \notin marks

\* The parts an URI has are not empty, its port is a number, and no part holds a mark
\* that would end it, or begin another.
IsPlain(r) ==
  LET plain(part, marks) == part = NONE \/ (part \in Seq(SymbolsOf(r)) \ {<<>>} /\ FreeOf(part, marks))
  IN  /\ r.host \in Seq(SymbolsOf(r)) /\ FreeOf(r.host, Separators)
      /\ plain(r.protocol, Separators) /\ plain(r.user, Separators) /\ plain(r.pass, Separators \ {":"})
      /\ r.port # NONE => r.port \in Numbers
      /\ plain(r.path, IF r.protocol = NONE THEN {"://", "?"} ELSE {"?"})
      /\ plain(r.query, IF r.protocol = NONE THEN {"://"} ELSE {})

\* URI.h: an URI that is parsed with bClearVars is what its text says, whatever was
\* parsed before, as getUri() writes it, or has no host if there is none of that
\* name.  Not so without a path, which getUri() leaves out with its slash and parseUri()
\* takes the host for, with a protocol without a port of its own, and where a part
\* holds a mark at which the text is cut elsewhere.
UriComesBack ==
  \A t \in LookupThreads :
    LET r == given[t].uri
        hasPort == r.port # NONE \/ r.protocol \in DOMAIN DefaultPorts
    IN  step[t] = "idle" /\ given[t] # NONE /\ given[t].clear /\ r.path # NONE /\ hasPort /\ IsPlain(r) =>
          getUri(uri[t]) \in {textOf(withPort(r)), textOf([withPort(r) EXCEPT !.host = <<>>])}

\* HttpClient.h:107-110, get() requests an URI: the address connected to is one that
\* was answered for the host of the URI, whichever thread resolved it, however searches,
\* lookups and additions cross.  Not so for a host whose addresses another thread's
\* gethostbyname() replaced while they were copied, and for an URI with a port that is
\* parsed where another host was before.
RequestsGoToTheirHost ==
  \A t \in LookupThreads :
    step[t] = "idle" /\ given[t] # NONE /\ ~given[t].stale =>
      /\ uri[t].host.name \notin mixed =>
           Range(uri[t].host.addresses) \subseteq AddressesOf(uri[t].host.name)
      /\ connection[t] # NONE /\ connection[t].host \notin mixed =>
           connection[t].address \in AddressesOf(connection[t].host)

\* LookupCache.cpp:68-97: between the search and the addition other threads may add
\* the same host; each does so at most once until the cache is cleared.
CachedOncePerThread ==
  \A name \in DOMAIN Answers :
    Cardinality({i \in DOMAIN list : list[i].name = name}) <= Cardinality(LookupThreads)
=============================================================================
