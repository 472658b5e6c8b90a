# Crosscables in TLA+

A verification development of the Crosscables libraries: TLA+ modules translated
from the source, TLC configurations that check them on small instances, and
theorems that the TLA+ proof system checks for every instance. Paths are those
of the repository. `PROJECT.json` lists the components, the runs, the mutants,
the source lines behind every definition, the hazards and the theorems.

## 1. What the repository is

C++98 libraries for programs that run on Windows, Linux and macOS.

| Library | Parts | State and behaviour |
|---|---|---|
| Groundfloor/Atoms | `Lockable`, `Freeable`, `Callable`, memory functions | the recursive mutex everything uses, with try, infinite and timed waits |
| Groundfloor/Molecules | `Vector`, `String`, `StringVector`, `Property`, `Callbacks` | containers with NULL slots, text in chunks, lists of callbacks |
| Groundfloor/Materials | `Thread`, `CallbackThread`, `FifoVector`, `ThreadedBuffer`, `FileWriter`, `GarbageCollector`, `StringLookup`, `Functions` and others | threads controlled by flags, queues between threads, deferred work |
| Groundfloor/Bookshelfs | `BNode`, `BTable`, `BFunctions`, `AbstractSquirrel` | trees and tables, CSV and XML in and out, the interface to databases |
| Jumpropes | sockets, `ThreadedConnection`, `ThreadedSender`, `ThreadedServer`, `LookupCache`, `URI`, `HttpClient`, `HttpDownloader` | connections served by threads of their own |
| Jumpknots | sockets over OpenSSL | as the sockets, with a handshake |
| MySQLBooks | `TMySQLSquirrel` | a query that reconnects, a cursor over its result |
| Chalkboard | controls, three window-system drivers, XML interface, message loop | a tree of controls, and a loop that executes events of other threads |

How they interact, and what is hard about it:

* **Mutexes and indices.** `FifoVector` guards its slots with two `Lockable`s,
  but `isEmpty()` and `isFull()` read its indices without either, and the
  message loop and `ThreadedBuffer` decide by them.
* **Flags instead of condition variables.** A `Thread` is started, stopped and
  waited for through five plain flags. Every class with a thread derives from
  it, so every destructor, stop and restart in the libraries depends on the
  order in which those flags are written.
* **Work that may fail.** `ThreadedBuffer::execute()` looks at the oldest
  object, lets a derived class process it with the mutex held, and takes it out
  only if that succeeded. Derived: `FileWriter`, `StringWriter`, `ThreadedSender`.
* **Two threads and a user.** `HttpClient` scans what `HttpConnection` receives,
  ends the connection's thread from its own, and is waited for by the user.
* **Events.** Any thread may call `CBAppAddEvent()`, the main thread included;
  only `CBAppRun()` takes events out, executes and deletes them.
* **Sockets that are not there any more.** `send()` splits a message and waits for
  room in a loop, on a socket that dies, is closed or connected anew by others.
* **A shared cache.** `LookupCache` holds its mutex to search and to add, not while
  a host is resolved in between, when addresses are copied from storage that all threads
  share; an `URI` is parsed over the one before.
* **Two sides of a control.** What a control holds and what the window system shows
  are kept alike by single messages, before and after there is a widget, while the
  user changes one side and the program the other; three drivers do it three ways.

What makes each part correct:

| Part | Properties wanted |
|---|---|
| Lockable | excludes other threads, waits neither longer nor shorter than it was told |
| Vector | order and contents after each operation, capacity covers the size |
| FifoVector | first in first out, nothing lost or doubled, true answers without a mutex, no producer held up |
| Thread | one native thread at a time, every call returns, stopAndWait() has waited, no handle lost |
| ThreadedBuffer | every object processed once and in order whatever fails, drained before it stops by itself, nothing processed after destruction |
| Message loop | executed once and in order, deleted only afterwards, everything executed some time |
| HttpClient, HttpDownloader | content in order and complete however it arrives, file complete, the download ends |
| StringVector | a search or copy over chunks is that over the whole text |
| Bookshelfs, XML interface | what is written as XML or CSV, or turned into a table, comes back |
| Squirrel | the query is sent again after a lost connection, the cursor sees each row once, parameters take their values |
| Sockets, sender, server | messages accepted once and in order, whole on a whole connection, and they arrive |
| LookupCache, URI | an URI is what its text says, a request goes to an address of its host, a host is cached once per thread |
| Chalkboard | one parent for each control, shown just when visible, margins kept, both sides of a control alike, clicks heard by what was clicked |
| GarbageCollector | each object deleted once and not before its time |

## 2. The modules

| Module | Models | Built on |
|---|---|---|
| `Vector` | every method of `Vector` as an operator from vector to vector | |
| `FifoVector` | `FifoVector`, in steps between which other threads run, and how it implements `FifoQueue` | `Vector`, instantiates `FifoQueue` |
| `FifoQueue` | the abstract queue: one action per method | |
| `MessageLoop` | `CBAppRun()` and `CBAppAddEvent()` | extends `FifoVector` |
| `MessageLoop_proofs` | theorems about `FifoVector` and about the message loop | `MessageLoop` |
| `Lockable` | the mutex and its timed wait | |
| `Thread` | `Thread`: controllers on one side, `executionloop()` on the other | |
| `ThreadedBuffer` | `ThreadedBuffer`, refining the one step `execute` of `Thread` | extends `Thread` |
| `ThreadedBuffer_proofs` | theorems about `Thread` with one owner and about `ThreadedBuffer` | `ThreadedBuffer` |
| `HttpClient` | `HttpClient` with its `HttpConnection` | |
| `HttpDownloader` | `HttpDownloader` and its `FileWriter` | extends `HttpClient` |
| `Http_proofs` | theorems about both | `HttpDownloader`, `SequenceLemmas` |
| `Strings` | `pos`, `lastpos`, `replace`, `remove`, `split`, the trims, as functions of texts, the loops as recursive functions | |
| `StringVector` | `StringVector`: places, searches and copies over chunks | `Strings` |
| `Codecs` | HTML entities, hexadecimal, Base64 and Huffman | `Strings` |
| `StringObject` | the memory of a `String` through any sequence of calls | `Strings` |
| `StringObject_proofs` | theorem about it | `StringObject`, `SequenceLemmas` |
| `Bookshelf` | trees of `BNode`, written as XML and read again | extends `Codecs` |
| `Tables` | `BTable`, made of nodes and nodes of it, CSV out and in by blocks | extends `Bookshelf` |
| `XMLInterface` | the controls of a screen as nodes, through XML, and made again | extends `Bookshelf` |
| `StringLookup` | `SimpleStringLookup` as operators | extends `Vector` |
| `Squirrel` | a query with parameters, `open()` with its retries, the cursor | `Strings`, `StringLookup` |
| `Squirrel_proofs` | theorems about `Squirrel` | `Squirrel`, `SequenceLemmas` |
| `Sockets` | sockets, `ThreadedSender`, `ThreadedServer`, `ThreadedConnection` over TCP | |
| `Sockets_proofs` | theorems about `Sockets` | `Sockets`, `SequenceLemmas` |
| `SequenceLemmas` | lemmas about numbers, sequences, `FlattenSeq` and the searches, which several proofs need | `Strings` |
| `LookupCache` | the list of hosts, and lookups of several threads | |
| `Uri` | `parseUri()`, `getUri()`, and what `HttpClient::get()` connects to | extends `LookupCache`, `Strings` |
| `Lookup_proofs` | theorems about `Lockable`, `LookupCache` and `Uri` | `Lockable`, `Uri`, `SequenceLemmas` |
| `Magnets` | the data of controls and of widgets, and the tree of magnets | `Vector` |
| `DriverGTK`, `DriverWin32`, `DriverCocoa` | the three drivers: operators from state to state | extend `Magnets` |
| `Board` | `TCBMagnet`, `TCBCollector` and notebooks over the driver a screen has | extends `Magnets`, instantiates the drivers |
| `Chalkboard` | windows: shown, hidden, attached, moved, resized, closed, pages turned | extends `Board` |
| `Controls` | lists, grids, trees, bars, buttons, texts, menus, with their user | extends `Board` |
| `MCFifoVector`, `MCHttp`, `MCText`, `MCSquirrel`, `MCSockets`, `MCLookup`, `MCChalkboard`, `MCControls` | constants for TLC; `MCText` also states what the texts are compared with, `MCLookup` puts `Lockable` and `Uri` side by side; `MCHttpTooMuch.cfg` is another instance of `MCHttp` | |

The names are those of the source: a variable is the field of that name, an
action is the method or the part of a method named in its comment. Variables
marked "history" in the declarations are not in the code; properties use them.
Operators marked "Mutant" are not part of a specification either: each is a
plausible mistake in the definition below it, and shows that a property can fail.

**FifoVector.** A thread has a program counter; a step lies between two points
at which another thread can observe the queue. The unordered accesses to the two
indices (plain `int`s, no barrier) are taken in both orders. Whatever the method
does under a mutex in one go is one step.

**MessageLoop** runs the steps of `FifoVector` unchanged: a thread that called a
method of the queue goes on when the queue has it back at "idle". The main thread
calls `CBAppAddEvent()` from an event it executes and from the handlers of the window
system that `mainloop_iteration()` runs (`Iterate`).

**Thread.** Each flag access another thread can see is a step. `execute()` is
left open: it may call `stop()`, return or throw.

**ThreadedBuffer** uses the queue as `FifoQueue` describes it, since all accesses
but `isEmpty()` are under `lockBuffer`; that `FifoVector` implements `FifoQueue`
and that its `isEmpty()` is true is checked by run `fifo` and proved. `processObject()` is
left open too: true, false, an exception, more objects added, a call of `stop()`.

**HttpClient.** A response is a sequence of tokens that the server cuts into
messages anywhere. Searching and copying work on `receivedData` as one text;
that `StringVector` does the same over chunks is checked by run `text`. Of the flags
of the two threads only `bRunning` and `bShouldTerminate` are kept; the rest of
what `start()` and `stop()` do is in `Thread`. A chunk has at least one token, as an
empty one would be the end (`IsResponse`). `DeliveredInOrder` says which tokens of the
response onContent has had: those of the content up to the last one, in order. `bWaitForChunk` is left out: after
the search it says the same as `iChunkScanLastSize = -1`.

**Texts.** A text is a sequence of symbols. An entity is two, "&" and the rest of
it, so that what reads like an entity can be put together from pieces. `Strings`
states the loops of `String::pos` and the others as they run; `MCText` compares
them with the first occurrence as one would define it. `StringObject` keeps the
memory itself, byte by byte, with the marks nobody wrote; its `replace()` is the loop of
the code, round by round (`ReplaceNext`), with what is behind a needle kept meanwhile in
a String of its own, that of `Strings` puts a new text together; `remove()` copies
overlapping ranges with `memcpy`, which is taken to move them. The unsigned
numbers of `StringVector` are kept modulo `ULongModulus`.

**Squirrel.** Each round of the loop in `open()` is a step; the MySQL client and
the server are external: at any time the connection may be lost, a query is
executed or refused, or executed without the answer coming through. Other calls
come in any order between two calls of `open()`. A caller of `open()` that passed
no `errData` may have the program crash, which is a state with no way on. A
value that is put in is searched for the names that follow, as in the code;
`ParametersTakeTheirValues` is stated for the values that cannot be taken for, or
complete, the name of a later parameter (`ValuesStandApart`), and without that premise
TLC finds `:ab` given the string `:a` sent as the value of `:a`.

**Bookshelfs.** A tree is the sequence of its nodes, each naming its parent. Writing
is a recursive operator, reading goes symbol by symbol through the loops of
`BXmlImport_FromString`, `parseNode` and `parseAttributes`, whose flags are the state
of a fold. A CSV file is read in blocks of any of the sizes, the flag that is kept
over values and lines included. The properties of the files hold for what the readers
understand: `readable` values, trees whose nodes have children or a content of their
own, separators of a file in one piece or of one character; what falls outside is
listed in section 3.

**Sockets.** TCP is external: what was written and not read yet, in order, up to
`Room`; a connection may die at any time, what is written to a closed end is lost until
the reset comes back. A `send()` is one step for each piece, the test for room
included: in between there can only be more of it. The threads are the loops of
`Thread` and `ThreadedBuffer`, with `execute()` as a step.

**Lookups.** A text of an URI is a sequence of names and separators. Searching the
cache and adding are steps of a thread, and so is each call of the resolver and each
address that `JRresolveAll()` copies. `gethostbyname()` answers in one `hostent` for all
threads, which the next call overwrites, also one that fails: what a thread then copies is
another's host, or what stands behind the end of a shorter list. `mixed` (history)
remembers the names to which that happened. `getaddrinfo()`, which is asked when the other
failed, answers with a list of the thread's own. An answer of the system may be
addresses, none, or that of a name that does not exist. `clear()` deletes what
`findObj()` returned to others and is called while nobody looks. `given` and
`connection` remember what was parsed and where the client went.

**Chalkboard.** A method is an operator from the state of all magnets and widgets to
the one after it, since all of it runs in the thread of the message loop; the
actions are the calls of the program and what the user does. `Board` calls the driver
the screen has been given. A widget keeps what the user sees of it: its text, rows,
columns, selection, mark, place and size, and whether it is shown. What the window
systems do with a widget is modelled in `Magnets` and marked external; so is, in
`DriverGTK`, that a notebook turns to another page when the one on top is hidden, and
may do so when its window is hidden and shown again. A menu pops up by the
flags of the control: its own, the one of the window system, or none (`popupMenu`).

A program may show and hide what it likes, whatever page is on top. Three history
variables say where the properties cannot hold, for reasons that are findings:
`unheard` are the magnets last shown or hidden while their page was not on top, of which
the driver of GTK is not told; `misnumbered` the notebooks with tabs that were hidden when
their page was to be made, from when on the number of a page and the index of a tab are
not the same; `late` what was made with GTK in a parent the user had resized, until the next
resize. On Win32 the program selects a page before the notebook is shown, since
afterwards the old page stays on display.

## 3. The runs

Runs that pass:

| Run | Instance | Shows |
|---|---|---|
| `fifo` | 2 threads, 3 objects, 2 slots preallocated, threads and objects symmetric | order, dead branches of `push()`, true `isEmpty()`, refinement of `FifoQueue` |
| `message_loop` | the main thread and another, 3 events, 1 slot | events executed once, in order, deleted afterwards; each is executed, `CBAppAddEvent()` returns |
| `thread` | an owner and a second controller, 4 native threads | one native thread at a time, handles kept, clean destruction, `stopAndWait()` has waited, calls return |
| `threaded_buffer` | an owner that starts the thread twice, a producer, 2 objects | processed once and in order, drained, nothing lost or used after destruction, still a `Thread`; `add()` returns, what is added is processed, the thread stops when empty |
| `lookup` | `Lockable`: 2 threads, a second of 4 ticks, 12 ticks, timeouts of 1 to 3 milliseconds. `Uri`: 2 threads with 3 calls, or one with 4 and names that are answered for though they do not exist; 4 URIs, hosts that answer, fail or do not exist | no wait too long, none too short but by the second the carry loses; an URI comes back, a request goes to an address of its host unless the shared `hostent` was overwritten, each host cached once per thread |
| `http` | 2 downloads, 5 kinds of response of up to 14 tokens | exactly the content, in order and complete, file complete, the download ends |
| `text` | texts of up to 4 symbols of 4 kinds in up to 3 chunks, needles of up to 3; up to 5 bytes of 5 kinds, one of them above 127; a `String` of up to 5 characters with memory for 4; trees of up to 4 nodes of 6 kinds, tables of up to 2 records, designs of up to 4 controls | searches and copies do not depend on the cuts; what was encoded, split, or written as XML or CSV comes back; a `String` holds its text |
| `squirrel` | 2 parameters, one whose name starts with the other's, 3 rounds in `open()` (10 in the code), 2 successful queries of up to 2 rows, 2 calls of `next()` | parameters take their values; a query is executed again only if the answer was lost; `open()` fails only for a reason; the rows come in order |
| `net` | 2 messages, one of two pieces, that end with a piece not full and with an empty one; room for 3 units; 2 connections | messages accepted once and in order, whole on whole connections; with fair threads they arrive |
| `chalkboard` | 3 windows - panels in panels, stretched contents, a notebook whose tabs and controls come and go - on 3 toolkits | shown just when visible, told so, sound tree, margins kept |
| `controls` | one window for each kind of control, on 3 toolkits, lists and tables of up to 2 rows, menus of the window and menus that pop up | both sides alike, selections follow, values read back, clicks reach what was clicked |

A run that shows the code to differ from what its documentation says:

| Run | The documentation | The code |
|---|---|---|
| `http_too_much` | Thread.h:54, `stopAndWait()` waits until the loop has exited | waits with the mutex the loop needs, for ever |

The other disagreements met while modelling are the findings of `PROJECT.json`, each
at its line: a stop request lost during `start()`, derived parts destroyed before
their thread is stopped, the carry of a timed lock, quotes and separators in CSV
files, backslashes and comments in XML, bytes above 127 in the Huffman code, short writes that leave a hole in the
stream, a sender that waits on a closed socket, the `hostent` that all threads resolve
through, URIs without a slash or with a port, pages of notebooks that are hidden or not on top,
magnets stretched after a resize, and what else the drivers of Chalkboard do
differently. The models do what the code does; the properties say for what part of
the inputs they hold.

Smaller observations, with no run of their own:

* `FifoVector` is documented to loop in a fixed size (FifoVector.h:10-11). It
  appends, and starts from the front again only when the queue has run empty.
  `NeverWrapsNorWaits` and its theorem show the branches that would loop to be dead.
* `StringVector::copyStringBetween()` lowers the end of the range as an unsigned
  number, also where the needle starts a chunk or lies at the very front; the copy
  then runs on to the end of the text. `translatePosToChunkedIndex()` gives for the
  first character of a chunk the place behind the previous one; `fixPos` puts that
  right in the searches and copies.
* `StrToBase64()` encodes what the previous group left in its third byte when one
  byte remains; decoders ignore it.
* The Huffman tables of a text with a single kind of character are empty, so that
  the text is lost. A byte of 128 or above is a negative index into the table of
  occurrences (Functions.cpp:318): it is counted in front of the table, gets no code of its
  own and is read back as another; `CodesDecode` says so by its premise.
* `String::replace()` returns true also when it ran out of memory half-way.
* `isFirst()` and `isLast()` count on from the first result of a squirrel, and
  `getCurrentQuery()` points to a query nobody sets. `open()` never sends a query
  with autoreconnect off, makes a lost connection again only if it was given
  `errData`, and uses `errData` unchecked where the first connection fails.
  `disconnect()` leaves `isConnected()` true. A second `open()` without
  `setQuery()` sends the old values of the parameters. A value that holds the colon and
  the name of a later parameter has that replaced in turn.
* `isFull()` compares `iLastAdded + 1` with `iCurrent`, which is never so between
  calls; it can answer true only while a `pop()` resets the indices, when the
  queue is empty. `CBAppAddEvent()` copes, because it asks again.
* `start()` shortly after `stop()` does nothing while the old native thread still
  runs; no thread runs afterwards (Thread.cpp:59-60).
* If the connection ends between two rounds of the client before the header was
  looked for, `done()` reports `JRHTTPSTATUS_DONE` and hands nothing on; chunks
  that were received but not scanned are dropped likewise (HttpClient.cpp:631-632).
* With a Content-Length the client hands on what it received beyond it.
* GarbageCollector.h:47 gives the default time to live as 5 seconds, the
  constructor sets 60.

### Bounds

Each bound is a constant or a finite set in the module. Three objects are enough
for the queues of `fifo` and `message_loop`: to see two objects swapped takes two, and a third to have the
queue run empty and fill again in between. One or two preallocated slots make
the vector grow. Two native threads show a restart; four exercise the handles.
`threaded_buffer` has two objects: its buffer is a sequence without indices. One
of its threads starts, stops and destroys; two that do are in `thread`.
Twelve ticks pass the end of a second three times. Two downloads show what a
client keeps of the previous one, and the responses have chunks with content
that looks like a line end, no content, and tokens behind the end. Every object
is pushed once at most, so that objects tell their place. In `text`, a needle of
three symbols can start inside a broken-off match and lie across all three chunks;
Base64 breaks its lines after one group (`Base64Line`; 19 in the code), so that
five bytes have a break, a full group and a remainder; memory for four characters
lets a call fail (0x3FFFFFFF in the code); 64 is above every length there is. Four nodes
make a child of a child next to another; two records show a value that must land in a column that came later. Blocks
of one and three symbols cut a file everywhere, one of a hundred nowhere. Two
connections show a message that begins on one and is sent again on the other, and a room
for three units lets both a piece and a part of one be taken. Three calls of two
threads parse, parse over it and connect, or cross two lookups and clear the cache; where one
thread is alone there is room for a fourth call and for answers to names that do not exist
(`Room` in `MCLookup`). A
host has two addresses, so that a `hostent` can be overwritten between them, by a list as
long, a shorter one or none (`Leftovers`), and one address behind the end of a list
(`Beyond`, `MaxBeyond`) is enough for one that is not the host's. The
forms of `chalkboard` and `controls` are as small as their question: two levels of
panels, three pages of which two come and go, two or three menus; the sizes of windows leave
room for the margins; `WindowLimit` and `ListLimit` stop windows of
Win32, which grow with each `update()`, and lists.

`CHECK_DEADLOCK FALSE` stands where the system really comes to rest: the loop was
left, the object was destroyed, the clock or the requests have run out, the program
crashed.

### Fairness

The code has no scheduler of its own; its threads are native and each keeps
running, which is weak fairness of a thread's steps. Strong fairness is assumed
where a thread waits for a mutex that another takes again and again
(`AddLock` of `ThreadedBuffer`, the connection of `HttpClient`): the other
sleeps between two rounds without it (Thread.cpp:117). Calls are never forced: no
property rests on somebody calling `add()`, `stop()` or closing the window. That
`execute()` ends is assumed in `Thread`. `Willing` in
`ThreadedBuffer`, that `processObject()` accepts an object some time, stands in
the properties that need it, as ThreadedBuffer.h:41 recommends it. A server ends
its response in `http`; it may close the connection at any time. In `net` the loop of
the sender, `accept()` and each `receive()` are weakly fair, being threads that
keep running; nobody has to connect, to send or to close.

## 4. What is proved

Each theorem holds for every value of the constants that the assumption of its module
and, where named, its own allow. All safety invariants and action properties of the
runs are theorems, but for some about texts and those about Chalkboard; see the end of this
section.

| Component | Theorems about the properties of its run |
|---|---|
| `FifoVector` | `FifoInv`, `FifoOrder`, `NeverWrapsNorWaits`, `ImplementsQueue`, `EmptyAnswerIsTrue` |
| Message loop | `ExecutedThenDeleted` |
| `Thread` | `AtMostOneLoop`, `DestroyedCleanly`, `StopAndWaitHasWaited` |
| `ThreadedBuffer` | `ThreadSpec`, `ProcessedOnceInOrder`, `EndsCleanly` |
| `HttpClient`, `HttpDownloader` | `DeliveredInOrder`, `FileIsComplete` |
| Sockets, sender, server | `StreamIsWhole` |
| Squirrel | `ExecutedOnceUnlessAnswerLost`, `GivesUpOnlyInTrouble`, `CursorIsOnTheRow`, `ParametersTakeTheirValues` |
| `Lockable` | `NeverOverdue`, `GivesUpInTime` |
| `LookupCache`, `URI` | `CachedOncePerThread`, `RequestsGoToTheirHost`, `UriComesBack` |
| `String` | `HoldsItsText` |

### FifoVector

`MessageLoop_proofs`, for any sets of threads and objects and any preallocation
above zero (`FifoAssumption`):

* `FifoInvHolds`: the inductive invariant `FifoInv`; `TypeCorrect`: the types;
* `FirstInFirstOut`: what was pushed is what was popped followed by what is in the slots;
* `PushNeverWraps`: the branches of `push()` that wrap and wait are unreachable;
* `ImplementsAQueue`: every behaviour is one of `FifoQueue`, with `Contents` for its
  queue and `Results` for what its methods returned;
* `EmptyAnswerHolds`: `isEmpty()` says empty only if what was in the queue when the
  call began is out, not empty only if something was in it.

`FifoOrder` is not inductive: a `pop()` moves `iCurrent` and resets both indices
in later steps, during which the indices alone do not tell what is in the queue,
and `push()` picks one of four ways to store an object. The invariant adds what
makes those steps safe:

* `LockInv`: a mutex is held exactly by the thread in the part of a method it guards;
* `IndexInv`: the indices are ordered and inside the vector, and equal only when
  reset or about to be, by the phase of the thread that holds `aReadLock`;
* `SlotInv`: the slots behind `iCurrent` up to `iLastAdded` hold what was pushed
  and not popped, all others are NULL.

With `SlotInv` the insertion in `push()` shifts nothing (`StoredIsWritten`), the
object `pop()` takes is the oldest (`FrontIsOldest`), and everything but
`PushStore`, `PopTake` and the steps that settle the indices leaves the two last
parts alone (`QuietStepsKeep`). TLC checks `FifoInv` in run `fifo` as well.

For the refinement, `ContentsAreTheRest` says that the slots hold what was pushed and
not popped; a `push()` takes effect in `PushStore`, a `pop()` in `PopTake` or
`PopNothing`, a `trypop()` in `TryPopLook`, and all other steps are stutters.
`EmptyAnswerHolds` needs an invariant of its own, `AskInv`, over the indices read so
far: an index that was set tells that something was in the queue, and `iLastAdded`,
once reset, that all is out, whichever of the two was read first. `Told` is what
`FifoInv` gives for that at one moment.

### MessageLoop

`MessageLoop_proofs`, for any threads of which one is the main thread
(`MainAssumption`):

* `LoopUsesTheQueue`: a behaviour of the loop is one of `FifoVector`, so the theorems
  above hold of `mainMessageQueue`;
* `DeletedIsExecuted`: an event is deleted only after it was executed itself, once and
  in the order of adding.

The event executed is what `trypop()` saw, the one deleted what `pop()` returned a whole
`execute()` later. `LoopInv` says why they are the same: only the main thread takes
from the queue, where `CBAppRun()` does (`MainInv`), executed and deleted events are
prefixes of the pushed ones (`PrefixInv`), and the event in the hands of the main thread
is the next one (`ProgressInv`), for which `FifoInv` gives that the slot taken holds the
oldest object.

### Thread

`ThreadedBuffer_proofs`, for any controllers and any number of starts (`ThreadAssumption`),
with one owner (`OneOwner`): others may call `stop()`, but one thread alone starts, waits and
destroys. With two owners `stopAndWait()` may return to one while the other is in
`start()`; nothing in the code prevents that and nothing promises it.

* `ThreadInvHolds`: the inductive invariant;
* `NeverTwoLoops`: no two native threads use the object at once;
* `DestructionIsClean`: after the destructor none uses it, and each handle was detached;
* `StopAndWaitWaits`: when `stopAndWait()` returns, no native thread uses the object.

Five plain flags stand between two threads, and none of the properties is inductive.
`LoopInv`: only the native thread created last can be alive, and `bRunning` is true
exactly while one is beyond its first step. `StartInv`: until a native thread has
announced itself, the owner waits for it in `start()`, which is why `bRunning` may still
be false then without a second thread being created. `HandleInv`: each handle but
the kept one was detached. `CallInv`: only the owner is inside a call. `DestroyInv`:
after the destructor it calls nothing any more.

### ThreadedBuffer

`ThreadedBuffer_proofs`, for any producers, controllers, objects, starts and policies of
destruction (`BufferAssumption`):

* `ImplementsThread`: a `ThreadedBuffer` is a `Thread`, so the theorems above hold of it;
* `OnceInOrder`: objects are processed once and in order whatever `processObject()` does,
  with any number of owners;
* `EndsWell`, with one owner that destroys the object only when it has stopped or its
  buffer is empty: a thread that stopped by itself has processed all there was, an
  owner that was told "empty" loses nothing, and nothing is processed on a half
  destroyed object.

`BufferInv` holds the order: who is beyond the first step of `execute()` has the mutex
(`MutexInv`), the buffer is what was added without what was popped (`OrderInv`), and what
was processed is what was popped, and one more between the moment `processObject()`
accepts the first object and its `pop()` (`StageInv`, `OnceInv`). `EndInv` adds which
step of `execute()` a native thread may be in (`BodyInv`), what stopping by itself
promises (`StopInv`) and when the derived object is whole (`WholeInv`); it uses
`ThreadInv` through the refinement.

### HttpClient and HttpDownloader

`Http_proofs`, for any responses, with any chunks, tokens behind the end and cuts into
messages, and any number of requests (`HttpAssumption`):

* `HttpCorrect`: the inductive invariant `HttpInv`;
* `ContentInOrder`: onContent gets the content of the response in order, nothing twice,
  nothing left out and nothing of the framing; when the client is done it has had all
  that was received, and all there is unless the server closed the connection;
* `FileHasAll`: when `waitToFinish()` returns, the file has what onContent got, and
  neither the client nor the writer runs.

`DeliveredInOrder` says nothing of the offsets the client works with. The invariant is
that onContent has had all content up to a place that the client remembers: `lastSend`
where the length is known (`PlainSent`); in chunks the place where one of them ends, and
`lastChunkRange` and `iChunkScanLastSize` say whether the size of the next one was read
(`ChunksSent`, `ChunkState`). Where chunks end follows from the server's side:
`LaidExists` shows for every response in chunks that its stream is laid out so, chunk by
chunk. `HeaderKnown` ties the mode of the client to the response and its step to the
mode, `Threads` says who runs when, and `StopsWhenDone` that the client stops the
connection only when nothing is left to send on. TLC checks that invariant as well (on
the instance of run `http`, the places of the chunks computed).

For the file, `FileKnown`: what onContent had is the file followed by the pieces the
writer has not written, which are none when the user is told to go on.

### Sockets

`Sockets_proofs`, for any messages and lengths, sizes of pieces and reads, room in TCP and
number of connections (`SocketsAssumption`):

* `SocketsCorrect`: the inductive invariant `SocketsInv`;
* `StreamArrivesWhole`: what `send()` accepted was begun once and in the order of `add()`;
  on a connection that no write was short on and no message changed to or from there are
  whole messages, with all of every accepted one; what is read is what was written.

`WholeInv` is what makes it inductive: as long as such a connection can be written to,
it has all messages that were begun on it but the rest of the one in hand (`Remaining`); once
it cannot, it stays a beginning of them. `BufferInv` says that the message in hand is the
oldest in the buffer, `BegunInv` which messages were begun one after the other, and
`AcceptedInv` on which connection an accepted one is.

### Squirrel

`Squirrel_proofs`, for any queries, parameters and values, any number of rounds, rows,
calls of `open()` and of `next()` (`AttemptsAssumption`, `MaxRowsAssumption`,
`NullAssumption`, and `TextsAssumption`: queries, names and values are texts):

* `SpecInv`, `QueryIsReady`: the inductive invariants;
* `ExecutedOnce`: a query that `open()` says was executed was executed once, one it gave up
  was not, but for the answers lost on the way;
* `GivesUp`: FALSE only after a refusal, an unreachable server, or a connection lost in
  all rounds but one;
* `CursorOnRow`: `next()` leaves the next row, and `isFirst()` and `isLast()` tell where it is;
* `ParametersInPlace`: what `open()` prepares, one parameter after the other, is the query
  with each value in the place of its name, of several names the longest, in whatever order
  they were first named, under `ValuesStandApart`: no name holds a colon, and no value holds
  or completes the token of a parameter that comes later.

`RoundsInv` counts: each round of an `open()` without trouble made a connection, so one was
lost before it, in this `open()` or once before. `ResultInv` and `RowInv` keep the client's
place in the result and `iCurrentRecord` together.

`ListInv` says that the longest names come first and none twice: `insertObjectSortedByLength()`
puts a name behind the longer ones (`InsertedWhereItBelongs`), and `findOrAddParam()` has asked
for it before (`FoundOrNew`). The query, read from the front with the values of the first `k`
parameters put in, is a walk. Replacing the next parameter in what the walk leaves is the walk
with one more (`OneMore`): its token is left whole where no longer one stands, because no name
holds a colon (`TokenIsCopied`) and the shorter names come later (`LongerWins`), no value holds
it (`NotInValue`), and none is made where a value follows what the query has (`NotMade`).
By induction over the parameters `prepareQuery()` is the walk with all of
them, which is `WithValues` (`PreparedIsWithValues`).

### Lockable, LookupCache and URI

`Lookup_proofs`, for any threads, timeouts, clocks, answers of the system, texts of URIs
and numbers of calls (`LockableAssumption`, `ThreadsAssumption`, `AnswersAssumption`,
`UrisAssumption`, `PartsAssumption`, `PortsAssumption`, `NoneIsNoObject`):

* `TimedLockInTime`: a thread does not wait longer than it asked to. The carry of
  `lockWhenAvailable()` may lose a second and never adds one (`DivMod` and arithmetic);
* `TimedLockNotTooSoon`: it does not give up before it asked to, or a second before where
  the carry is lost, or any time where the deadline has exactly a second of nanoseconds;
  that the deadline is the one computed when the call was made is part of the invariant;
* `CachedAtMostOnce`: a host is in the list at most once for each thread. `CountInv`: the
  entries and the threads that searched in vain and have not added yet are no more than
  the threads there are, as nobody joins them once an entry is there;
* `GetGoesToTheHost`: `get()` connects to an address that was answered for the host of its
  URI, whatever other threads resolve meanwhile, unless the `hostent` of that host was
  overwritten while it was copied (`mixed`). `HonestInv`: who copies the answer to a name
  that is not mixed finds in the `hostent` the list of that name still, and no less than it
  has copied (`CopiesItsOwn`), so that what is found and what is cached are addresses of
  their names. `HostInv`: the addresses an URI holds are those of its host, but while a
  lookup is under way that will replace them;
* `UrisComeBack`: an URI that is parsed with bClearVars is written as its text, or as the
  text without its host, whatever the object held before, for every URI whose parts are
  plain (`IsPlain`): not empty, and free of the marks that would cut them. Others may be
  read as other parts, and `UriComesBack` says nothing of them. `TextInv`: the
  fields of a thread's URI are those of the text from the start, its host and port from
  the end of the lookups on, and what is looked up until then is the host of the text.

`PartsAssumption` says that the URIs are records of parts and that a part left out is no
text; `PortsAssumption` that the texts of ports are numbers, none of which is 0, which
`getUri()` takes for no port. That `pieces` takes the text apart again (`PiecesOfText`)
follows from what `pos` finds: each cut is at the first mark, and the part before it is
free of that mark (`FirstMark`, `NoMark`), the pieces behind it being put together again
in another order (`TextIsLaidOut`).

### String

`StringObject_proofs`, for any texts, any bound on the memory there is to be had
(`SizeAssumption`, `ValuesAssumption`) and any sequence of calls:

* `StringHoldsItsText`: the object holds the text the calls stand for, inside its memory,
  with a zero behind it.

`HoldsItsText` says nothing of what else is in the memory, which `setLength()` shows and
`trimzero()` searches. The invariant `IInv` is that the object is one as the code keeps it
(`IsString`) and shows the text character by character (`Shows`). One lemma for each
operation says what it does to any such object and any text: `SetSizeHolds`,
`AppendHolds`, `RemoveRangeHolds` and so on. Two operations take more.

* The trims take the last or first character that stays, by a maximum or a minimum over
  the memory; the text has it one place further on.
* `replace()` loops, growing or shrinking the memory in each round and moving what is
  behind the needle. `OnTheWay` says what the object shows after n rounds: what the answer
  begins with, and what is left of the old text from its n-th character on, or a later one.
  `RoundReplaces` is what a round does to the memory, `PosBehind` that the search in the
  object finds what the search in the old text would, `ReplaceGrows` that the text never
  gets longer on the way than the old text or the answer is, so that memory for the answer
  is memory for every round. A round takes a character of the old text at least, so after
  as many rounds as it has characters nothing is left.

### Lemmas

`SequenceLemmas` has what these proofs share. The induction theorems of the library take
an operator, which the provers cannot instantiate; `SetInduction` says the same of a set of
numbers, and follows from their being well founded (`LeastExists`). With it
`FlattenSteps` shows what the fold `FlattenSeq` computes for every sequence of sequences:
the last of a row of steps, each of which puts the next one behind. `FlattenAppend`,
`FlattenHead`, `FlattenHasAll` and `StepsBegin` follow from that, and from them what the
stream of a response or of a connection is made of.

The recursive functions of `Strings` are treated there as well. TLA+ defines such a function
as some function that is its own loop: that there is one (`PosLoopExists`,
`UnrolledExists`) is shown by unrolling the loop from its end. `PosFindsFirst` then is what
`String::pos` is for: for every text, needle and start it answers the first place where
the needle occurs, or that there is none, although its loop walks through the text once
and goes back after a partial match. `ReplaceIsTheLoop` says that `replace` is the loop it is
written as, and so what is put in is not searched again; `ReplacePasses` and `ReplaceFirst`
tell what it makes of a text that is put together.

### Only model-checked

* Liveness and everything under fairness, `CallsReturn` and the other leads-to
  properties: the prover knows no ENABLED.
* `IgnoresTheCuts`, `CodesDecode`, `FilesComeBack`, and everything about
  `chalkboard` and `controls`: their modules declare RECURSIVE operators (chunks, trees of
  nodes, trees of magnets), which the prover does not take.

## 5. What is not modelled, and why

* What window systems, TCP, the resolver and MySQL do inside: they are external, and
  modelled by what the code is told of them. Windows smaller than the margins in them, of which
  a negative width would be asked, are among the things left to them.
* `GarbageCollector`, `CallbackThread`, `Timer`: their state is that of `Thread` and of a
  `Vector` without a mutex, on which two threads have no defined behaviour.
* `Property`, `Callbacks`: getters, setters and a loop over listeners; where they matter the
  modules call the setters in the order of the code.
* `Resources`, `Logger`, `Directory`, `FileCommunicator`: input, output and formatting; the
  blocks of a file that is read are in `Tables`.
* `Jumpknots`: the sockets over OpenSSL.
* Formatting, character sets, memory growth, logging; fonts, the focus and the
  clipboard of Chalkboard, and destructors of attached controls.
* Windows and macOS variants of `Lockable` and `Thread`; failing allocation and
  failing `pthread_create()`.
* `Vector`'s copy constructor, `Thread::join()`, `HttpClient` calls that do not
  block, `post()`, which differs from `get()` in what it sends; an `URI` without a
  `LookupBase`.
* `singleheader.h`, generated from the headers.

## 6. Plan

What could come next, in this order; a run checks several modules' questions where it can, as the
number of runs is kept small:

1. `RunnableFunction` and `Timer` over `Thread`, and `FileWriter` with its file.
2. The searches and paths of `BNode`, `BValue`'s conversions, dates.
3. The destructors of controls, and what the default edit menu does: cut, copy, paste.
4. The sockets over OpenSSL: a read that wants to write, a handshake that goes on.
5. Proofs: the laws of the operators of `Vector` that `FifoVector` does not use.
