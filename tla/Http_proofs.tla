---------------------------- MODULE Http_proofs ----------------------------
(***************************************************************************)
(* Theorems about HttpClient and HttpDownloader, for any responses and any *)
(* number of requests.                                                     *)
(*                                                                         *)
(* The argument: onContent has had all content up to a place that the      *)
(* client remembers.  With a length it is lastSend; in chunks it is the    *)
(* place where a chunk ends, and where the chunks end follows from how the *)
(* server laid them out.  The client stops the connection only when that   *)
(* place is the end of the content.  What onContent had is in the file, or *)
(* in the pieces the writer has not written yet.                           *)
(***************************************************************************)
EXTENDS HttpDownloader, SequenceLemmas

Tokens == [kind : {"header", "empty line", "size", "crlf", "text"}, size : Nat, content : BOOLEAN]

\* The tokens of the content, and those that may be behind the header.
Contents == {Content("text"), Content("crlf")}
Bodies   == Contents \union {Token("crlf", 0)} \union {Token("size", n) : n \in Nat}

\* How many chunks a response has.
Chunks(r) == Len(r.chunks)

\* The framed chunk from one place of a stream to another.
ChunkAt(s, from, length, to) ==
  /\ to = from + length + 3 /\ to <= Len(s)
  /\ length # 0
  /\ s[from + 1] = Token("size", length)
  /\ s[from + 2] = Token("crlf", 0)
  /\ \A n \in 1 .. length : s[from + 2 + n] \in Contents
  /\ s[to] = Token("crlf", 0)

\* What is behind the last chunk.
EndAt(s, from) ==
  /\ from + 3 <= Len(s)
  /\ s[from + 1] = Token("size", 0)
  /\ s[from + 2] = Token("crlf", 0)

\* p[k] is the place where the first k chunks of a response end, e[k] the
\* length of their content.
Laid(r, p, e) ==
  /\ p \in [0 .. Chunks(r) -> Nat] /\ p[0] = iHeaderSize
  /\ e \in [0 .. Chunks(r) -> Nat] /\ e[0] = 0
  /\ \A k \in 1 .. Chunks(r) : /\ ChunkAt(Stream(r), p[k - 1], Len(r.chunks[k]), p[k])
                               /\ e[k] = e[k - 1] + Len(r.chunks[k])
  /\ EndAt(Stream(r), p[Chunks(r)])
  /\ e[Chunks(r)] = Len(Entity(r))

(***************************************************************************)
(* Streams.                                                                *)
(***************************************************************************)
\* The tokens of a stream,
LEMMA ContentsType == Contents \subseteq Tokens
<1>1. Content("text") \in Tokens /\ Content("crlf") \in Tokens
  BY DEF Tokens, Content
<1> QED
  BY <1>1 DEF Contents

\* of one token,
LEMMA TokenType ==
  ASSUME NEW kind \in {"header", "empty line", "size", "crlf"}, NEW size \in Nat
  PROVE  Token(kind, size) \in Tokens
BY DEF Tokens, Token

\* of what is behind the header,
LEMMA BodiesType == Bodies \subseteq Tokens
<1>1. \A n \in Nat : Token("size", n) \in Tokens
  BY TokenType
<1>2. Token("crlf", 0) \in Tokens
  BY TokenType
<1> QED
  BY <1>1, <1>2, ContentsType, Zenon DEF Bodies

\* what they are,
LEMMA KindsOf ==
  /\ \A t \in Bodies : t.kind # "empty line"
  /\ \A kind, size : Token(kind, size).kind = kind /\ Token(kind, size).size = size
<1>1. Content("text").kind = "text" /\ Content("crlf").kind = "crlf"
  BY DEF Content
<1>2. \A t \in Contents : t.kind # "empty line"
  BY <1>1 DEF Contents
<1>3. \A kind, size : Token(kind, size).kind = kind /\ Token(kind, size).size = size
  BY DEF Token
<1>4. \A n \in Nat : Token("size", n).kind # "empty line"
  BY DEF Token
<1>5. Token("crlf", 0).kind # "empty line"
  BY DEF Token
<1>6. \A t \in Bodies : t.kind # "empty line"
  BY <1>2, <1>4, <1>5, Zenon DEF Bodies
<1> QED
  BY <1>3, <1>6, Zenon

\* and whether they are content.
LEMMA ContentOf ==
  /\ \A t \in Contents : t.content
  /\ \A kind, size : ~Token(kind, size).content
<1>1. Content("text").content /\ Content("crlf").content
  BY DEF Content
<1>2. \A t \in Contents : t.content
  BY <1>1, Zenon DEF Contents
<1>3. \A kind, size : ~Token(kind, size).content
  BY DEF Token
<1> QED
  BY <1>2, <1>3, Zenon

\* Chunks are not empty.
LEMMA ChunkType ==
  ASSUME NEW r \in Responses
  PROVE  /\ r.mode \in {"length", "chunked", "close"} /\ r.extra \in Nat
         /\ r.chunks \in Seq(Seq({"text", "crlf"})) /\ Chunks(r) \in Nat
         /\ \A k \in 1 .. Chunks(r) : /\ r.chunks[k] \in Seq({"text", "crlf"})
                                      /\ Len(r.chunks[k]) \in Nat \ {0}
<1>1. IsResponse(r)
  BY HttpAssumption
<1>2. r.chunks \in Seq(Seq({"text", "crlf"}) \ {<<>>})
  BY <1>1 DEF IsResponse
<1>3. \A k \in 1 .. Chunks(r) : r.chunks[k] \in Seq({"text", "crlf"}) \ {<<>>}
  BY <1>2 DEF Chunks
<1>4. r.chunks \in Seq(Seq({"text", "crlf"})) /\ Chunks(r) \in Nat
  BY <1>2 DEF Chunks
<1>5. \A c \in Seq({"text", "crlf"}) \ {<<>>} : Len(c) \in Nat \ {0}
  BY EmptySeq
<1>6. r.mode \in {"length", "chunked", "close"} /\ r.extra \in Nat
  BY <1>1 DEF IsResponse
<1> QED
  BY <1>3, <1>4, <1>5, <1>6

\* The type of a piece of content.
LEMMA PlainType ==
  ASSUME NEW chunk \in Seq({"text", "crlf"})
  PROVE  Plain(chunk) \in Seq(Contents) /\ Len(Plain(chunk)) = Len(chunk)
BY DEF Plain, Contents

\* The content is nothing but content.
LEMMA EntityType ==
  ASSUME NEW r \in Responses
  PROVE  Entity(r) \in Seq(Contents)
<1> DEFINE ss == [k \in 1 .. Chunks(r) |-> Plain(r.chunks[k])]
<1>1. \A k \in 1 .. Chunks(r) : Plain(r.chunks[k]) \in Seq(Contents)
  BY ChunkType, PlainType
<1>2. ss \in Seq(Seq(Contents))
  BY <1>1, ChunkType
<1>3. Entity(r) = FlattenSeq(ss)
  BY DEF Entity, Chunks
<1> HIDE DEF ss
<1>4. FlattenSeq(ss) \in Seq(Contents)
  BY <1>2, FlattenType
<1> QED
  BY <1>3, <1>4

\* A framed chunk, token by token.
LEMMA FramedIs ==
  ASSUME NEW chunk \in Seq({"text", "crlf"})
  PROVE  /\ Framed(chunk) \in Seq(Bodies) /\ Len(chunk) \in Nat
         /\ Len(Framed(chunk)) = Len(chunk) + 3
         /\ Framed(chunk)[1] = Token("size", Len(chunk))
         /\ Framed(chunk)[2] = Token("crlf", 0)
         /\ \A n \in 1 .. Len(chunk) : Framed(chunk)[2 + n] \in Contents
         /\ Framed(chunk)[Len(chunk) + 3] = Token("crlf", 0)
<1> DEFINE a == Token("size", Len(chunk))
           b == Token("crlf", 0)
           c == Plain(chunk)
<1>1. a \in Bodies /\ b \in Bodies
  <2>1. Len(chunk) \in Nat
    OBVIOUS
  <2> QED
    BY <2>1 DEF Bodies
<1>2. c \in Seq(Contents) /\ Len(c) = Len(chunk) /\ Len(chunk) \in Nat
  BY PlainType
<1>3. c \in Seq(Bodies)
  BY <1>2 DEF Bodies
<1>4. Framed(chunk) = <<a>> \o <<b>> \o c \o <<b>>
  BY DEF Framed, Crlf
<1> HIDE DEF a, b, c
<1>5. /\ Framed(chunk) \in Seq(Bodies) /\ Len(Framed(chunk)) = Len(c) + 3
      /\ Framed(chunk)[1] = a /\ Framed(chunk)[2] = b /\ Framed(chunk)[Len(c) + 3] = b
      /\ \A i \in 1 .. Len(c) : Framed(chunk)[2 + i] = c[i]
  BY <1>1, <1>3, <1>4, Between
<1>6. \A i \in 1 .. Len(c) : c[i] \in Contents
  BY <1>2
<1> QED
  BY <1>2, <1>5, <1>6 DEF a, b

\* The response that is not in chunks: behind the header is content only.
LEMMA PlainStream ==
  ASSUME NEW r \in Responses, r.mode # "chunked"
  PROVE  /\ Stream(r) \in Seq(Tokens) /\ 2 <= Len(Stream(r))
         /\ Stream(r)[1] = Token("header", 0) /\ Stream(r)[2] = Token("empty line", 0)
         /\ \A n \in 3 .. Len(Stream(r)) : Stream(r)[n] \in Contents
<1> DEFINE a == Header
           b == Entity(r)
           c == Extra(r)
           s == Stream(r)
<1>1. Contents \subseteq Tokens
  BY ContentsType
<1>2. /\ a \in Seq(Tokens) /\ Len(a) = 2
      /\ a[1] = Token("header", 0) /\ a[2] = Token("empty line", 0)
  <2>1. Token("header", 0) \in Tokens /\ Token("empty line", 0) \in Tokens
    BY TokenType
  <2> DEFINE x == Token("header", 0)
             y == Token("empty line", 0)
  <2>2. a = <<x, y>> /\ x \in Tokens /\ y \in Tokens
    BY <2>1 DEF Header
  <2> HIDE DEF x, y, a
  <2>3. a \in Seq(Tokens) /\ Len(a) = 2 /\ a[1] = x /\ a[2] = y
    BY <2>2
  <2> QED
    BY <2>3 DEF x, y
<1>3. b \in Seq(Contents)
  BY EntityType
<1>4. c \in Seq(Contents)
  BY ChunkType DEF Extra, Contents
<1>5. s = a \o b \o c
  BY DEF Stream
<1> HIDE DEF a, b, c, s
<1>6. b \in Seq(Tokens) /\ c \in Seq(Tokens)
  BY <1>1, <1>3, <1>4
<1>7. /\ s \in Seq(Tokens) /\ Len(s) = Len(a) + Len(b) + Len(c)
      /\ \A i \in 1 .. Len(a) : s[i] = a[i]
      /\ \A i \in 1 .. Len(b) : s[Len(a) + i] = b[i]
      /\ \A i \in 1 .. Len(c) : s[Len(a) + Len(b) + i] = c[i]
  <2>1. a \in Seq(Tokens)
    BY <1>2
  <2> QED
    BY <1>5, <1>6, <2>1, JoinedThree
<1>8. /\ Len(b) \in Nat /\ \A i \in 1 .. Len(b) : b[i] \in Contents
      /\ Len(c) \in Nat /\ \A i \in 1 .. Len(c) : c[i] \in Contents
  BY <1>3, <1>4
<1>0. Len(a) = 2 /\ Len(b) \in Nat /\ Len(c) \in Nat /\ Len(s) = 2 + Len(b) + Len(c)
  BY <1>2, <1>7, <1>8
<1>9. \A n \in 3 .. Len(s) : s[n] \in Contents
  <2> TAKE n \in 3 .. Len(s)
  <2>1. CASE n <= 2 + Len(b)
    <3> DEFINE i == n - 2
    <3>1. i \in 1 .. Len(b) /\ n = Len(a) + i
      BY <1>0, <2>1
    <3> HIDE DEF i
    <3> QED
      BY <1>7, <1>8, <3>1
  <2>2. CASE n > 2 + Len(b)
    <3> DEFINE i == n - 2 - Len(b)
    <3>1. i \in 1 .. Len(c) /\ n = Len(a) + Len(b) + i
      BY <1>0, <2>2
    <3> HIDE DEF i
    <3> QED
      BY <1>7, <1>8, <3>1
  <2> QED
    BY <1>8, <2>1, <2>2
<1>10. s[1] = a[1] /\ s[2] = a[2] /\ 2 <= Len(s)
  BY <1>0, <1>7
<1> QED
  BY <1>2, <1>7, <1>9, <1>10 DEF s

\* The response in chunks: what is behind the header.
LEMMA ChunkedStream ==
  ASSUME NEW r \in Responses, r.mode = "chunked",
         NEW q, q = FlattenSeq([k \in 1 .. Chunks(r) |-> Framed(r.chunks[k])])
  PROVE  /\ Stream(r) \in Seq(Tokens) /\ q \in Seq(Bodies) /\ Len(q) + 5 <= Len(Stream(r))
         /\ Stream(r)[1] = Token("header", 0) /\ Stream(r)[2] = Token("empty line", 0)
         /\ \A n \in 1 .. Len(q) : Stream(r)[2 + n] = q[n]
         /\ Stream(r)[Len(q) + 3] = Token("size", 0)
         /\ Stream(r)[Len(q) + 4] = Token("crlf", 0)
         /\ \A n \in 3 .. Len(Stream(r)) : Stream(r)[n] \in Bodies
<1> DEFINE ss == [k \in 1 .. Chunks(r) |-> Framed(r.chunks[k])]
           x == Token("size", 0)
           y == Token("crlf", 0)
           h == Token("header", 0)
           l == Token("empty line", 0)
           a == <<h, l>>
           b == q \o <<x>> \o <<y>> \o <<y>>
           c == Extra(r)
           s == Stream(r)
<1>1. q \in Seq(Bodies)
  <2>1. \A k \in 1 .. Chunks(r) : Framed(r.chunks[k]) \in Seq(Bodies)
    BY ChunkType, FramedIs
  <2>2. ss \in Seq(Seq(Bodies))
    BY <2>1, ChunkType
  <2> HIDE DEF ss
  <2>3. FlattenSeq(ss) \in Seq(Bodies)
    BY <2>2, FlattenType
  <2> QED
    BY <2>3 DEF ss
<1>2. x \in Bodies /\ y \in Bodies
  BY DEF Bodies
<1>3. h \in Tokens /\ l \in Tokens
  BY TokenType
<1>4. c \in Seq(Contents)
  BY ChunkType DEF Extra, Contents
<1>5. s = a \o (q \o <<x>> \o <<y>> \o <<y>>) \o c
  BY DEF Stream, Header, Crlf, Chunks
<1> HIDE DEF x, y, h, l, c, s
<1>6. a \in Seq(Tokens) /\ Len(a) = 2 /\ a[1] = h /\ a[2] = l
  BY <1>3
<1> HIDE DEF a
<1>7. s = a \o b \o c
  BY <1>5
<1>8. /\ b \in Seq(Bodies) /\ Len(b) = Len(q) + 3
      /\ \A i \in 1 .. Len(q) : b[i] = q[i]
      /\ b[Len(q) + 1] = x /\ b[Len(q) + 2] = y
  BY <1>1, <1>2, ThreeMore
<1> HIDE DEF b
<1>9. b \in Seq(Tokens) /\ c \in Seq(Tokens) /\ c \in Seq(Bodies)
  BY <1>4, <1>8, BodiesType DEF Bodies
<1>10. /\ s \in Seq(Tokens) /\ Len(s) = Len(a) + Len(b) + Len(c)
       /\ \A i \in 1 .. Len(a) : s[i] = a[i]
       /\ \A i \in 1 .. Len(b) : s[Len(a) + i] = b[i]
       /\ \A i \in 1 .. Len(c) : s[Len(a) + Len(b) + i] = c[i]
  <2>1. a \in Seq(Tokens)
    BY <1>6
  <2> QED
    BY <1>7, <1>9, <2>1, JoinedThree
<1>11. /\ Len(a) = 2 /\ Len(q) \in Nat /\ Len(b) = Len(q) + 3 /\ Len(c) \in Nat
       /\ Len(s) = 5 + Len(q) + Len(c)
  BY <1>1, <1>4, <1>6, <1>8, <1>10
<1>12. \A n \in 3 .. Len(s) : s[n] \in Bodies
  <2> TAKE n \in 3 .. Len(s)
  <2>1. CASE n <= 2 + Len(b)
    <3> DEFINE i == n - 2
    <3>1. i \in 1 .. Len(b) /\ n = Len(a) + i
      BY <1>11, <2>1
    <3> HIDE DEF i
    <3>2. b[i] \in Bodies
      BY <1>8, <3>1
    <3> QED
      BY <1>10, <3>1, <3>2
  <2>2. CASE n > 2 + Len(b)
    <3> DEFINE i == n - 2 - Len(b)
    <3>1. i \in 1 .. Len(c) /\ n = Len(a) + Len(b) + i
      BY <1>11, <2>2
    <3> HIDE DEF i
    <3>2. c[i] \in Bodies
      BY <1>9, <3>1
    <3> QED
      BY <1>10, <3>1, <3>2
  <2> QED
    BY <1>11, <2>1, <2>2
<1>13. s[1] = h /\ s[2] = l
  BY <1>6, <1>10
<1>14. \A n \in 1 .. Len(q) : s[2 + n] = q[n]
  <2> TAKE n \in 1 .. Len(q)
  <2>1. n \in 1 .. Len(b)
    BY <1>11
  <2> QED
    BY <1>8, <1>10, <1>11, <2>1
<1>15. s[Len(q) + 3] = x /\ s[Len(q) + 4] = y
  <2> DEFINE i == Len(q) + 1
             j == Len(q) + 2
  <2>1. i \in 1 .. Len(b) /\ j \in 1 .. Len(b)
    BY <1>11
  <2>2. b[i] = x /\ b[j] = y
    BY <1>8
  <2>3. s[Len(a) + i] = b[i] /\ s[Len(a) + j] = b[j]
    BY <1>10, <2>1
  <2> QED
    BY <1>11, <2>2, <2>3
<1>16. s \in Seq(Tokens) /\ Len(q) + 5 <= Len(s)
  BY <1>10, <1>11
<1> QED
  BY <1>1, <1>12, <1>13, <1>14, <1>15, <1>16, Zenon DEF s, x, y, h, l

\* A response begins with the header and the empty line.
LEMMA StreamHead ==
  ASSUME NEW r \in Responses
  PROVE  /\ Stream(r) \in Seq(Tokens) /\ 2 <= Len(Stream(r))
         /\ Stream(r)[1] = Token("header", 0) /\ Stream(r)[2] = Token("empty line", 0)
         /\ \A n \in 3 .. Len(Stream(r)) : Stream(r)[n] \in Bodies
<1>1. CASE r.mode # "chunked"
  BY <1>1, PlainStream DEF Bodies
<1>2. CASE r.mode = "chunked"
  <2> DEFINE q == FlattenSeq([k \in 1 .. Chunks(r) |-> Framed(r.chunks[k])])
             s == Stream(r)
  <2>1. /\ s \in Seq(Tokens) /\ q \in Seq(Bodies) /\ Len(q) + 5 <= Len(s)
        /\ s[1] = Token("header", 0) /\ s[2] = Token("empty line", 0)
        /\ \A n \in 3 .. Len(s) : s[n] \in Bodies
    BY <1>2, ChunkedStream
  <2>0. s \in Seq(Tokens) /\ q \in Seq(Bodies)
    BY <2>1
  <2> HIDE DEF q, s
  <2>2. 2 <= Len(s)
    <3>1. Len(q) \in Nat /\ Len(s) \in Nat
      BY <2>0
    <3>2. Len(q) + 5 <= Len(s)
      BY <2>1
    <3> QED
      BY <3>1, <3>2
  <2> QED
    BY <2>1, <2>2 DEF s
<1> QED
  BY <1>1, <1>2

\* A response in chunks has places where they end.
LEMMA LaidExists ==
  ASSUME NEW r \in Responses, r.mode = "chunked"
  PROVE  \E p, e : Laid(r, p, e)
<1> DEFINE n  == Chunks(r)
           ss == [k \in 1 .. n |-> Framed(r.chunks[k])]
           tt == [k \in 1 .. n |-> Plain(r.chunks[k])]
           q  == FlattenSeq(ss)
           s  == Stream(r)
<1>1. /\ s \in Seq(Tokens) /\ q \in Seq(Bodies) /\ Len(q) + 5 <= Len(s)
      /\ \A k \in 1 .. Len(q) : s[2 + k] = q[k]
      /\ s[Len(q) + 3] = Token("size", 0)
      /\ s[Len(q) + 4] = Token("crlf", 0)
  BY ChunkedStream
<1>2. /\ n \in Nat
      /\ \A k \in 1 .. n : r.chunks[k] \in Seq({"text", "crlf"}) /\ Len(r.chunks[k]) \in Nat \ {0}
  BY ChunkType
<1>3. ss \in Seq(Seq(Bodies)) /\ Len(ss) = n /\ \A k \in 1 .. n : ss[k] = Framed(r.chunks[k])
  BY <1>2, FramedIs
<1>4. tt \in Seq(Seq(Contents)) /\ Len(tt) = n /\ \A k \in 1 .. n : tt[k] = Plain(r.chunks[k])
  BY <1>2, PlainType
<1>5. Entity(r) = FlattenSeq(tt)
  BY DEF Entity, Chunks
<1> HIDE DEF ss, tt, s
<1>6. PICK f \in [0 .. n -> Seq(Bodies)] : Steps(f, ss) /\ q = f[n]
  BY <1>3, FlattenSteps
<1>7. PICK g \in [0 .. n -> Seq(Contents)] : Steps(g, tt) /\ Entity(r) = g[n]
  BY <1>4, <1>5, FlattenSteps
<1> DEFINE p == [k \in 0 .. n |-> 2 + Len(f[k])]
           e == [k \in 0 .. n |-> Len(g[k])]
<1>8. p \in [0 .. n -> Nat] /\ p[0] = iHeaderSize
  <2>1. f[0] = <<>> /\ \A k \in 0 .. n : Len(f[k]) \in Nat
    BY <1>6 DEF Steps
  <2> QED
    BY <1>2, <2>1 DEF iHeaderSize
<1>9. e \in [0 .. n -> Nat] /\ e[0] = 0
  <2>1. g[0] = <<>> /\ \A k \in 0 .. n : Len(g[k]) \in Nat
    BY <1>7 DEF Steps
  <2> QED
    BY <1>2, <2>1
<1>10. e[n] = Len(Entity(r))
  BY <1>2, <1>7
<1>11. EndAt(s, p[n])
  <2>1. p[n] = 2 + Len(q) /\ Len(q) \in Nat /\ Len(s) \in Nat
    BY <1>1, <1>2, <1>6
  <2>2. p[n] + 1 = Len(q) + 3 /\ p[n] + 2 = Len(q) + 4 /\ p[n] + 3 <= Len(s)
    BY <1>1, <2>1
  <2> HIDE DEF p, q
  <2> QED
    BY <1>1, <2>2 DEF EndAt
<1>12. ASSUME NEW k \in 1 .. n
       PROVE  ChunkAt(s, p[k - 1], Len(r.chunks[k]), p[k]) /\ e[k] = e[k - 1] + Len(r.chunks[k])
  <2> DEFINE c == r.chunks[k]
             l == Len(c)
             x == f[k - 1]
             y == f[k]
             z == Framed(c)
             u == g[k - 1]
             v == g[k]
             w == Plain(c)
             i == k - 1
             a == Len(x)
  <2>0. i \in 0 .. n /\ k \in 0 .. n /\ k \in i .. n
    BY <1>2
  <2>1. /\ x \in Seq(Bodies) /\ y \in Seq(Bodies)
        /\ u \in Seq(Contents) /\ v \in Seq(Contents)
    BY <2>0
  <2>2. y = x \o z /\ v = u \o w
    BY <1>3, <1>4, <1>6, <1>7 DEF Steps
  <2>3. p[k - 1] = 2 + Len(x) /\ p[k] = 2 + Len(y) /\ e[k - 1] = Len(u) /\ e[k] = Len(v)
    BY <2>0
  <2>4. c \in Seq({"text", "crlf"}) /\ l \in Nat \ {0}
    BY <1>2
  <2>5. /\ z \in Seq(Bodies) /\ Len(z) = l + 3
        /\ z[1] = Token("size", l) /\ z[2] = Token("crlf", 0) /\ z[l + 3] = Token("crlf", 0)
        /\ \A m \in 1 .. l : z[2 + m] \in Contents
    BY <2>4, FramedIs
  <2>6. w \in Seq(Contents) /\ Len(w) = l
    BY <2>4, PlainType
  <2>7. Begins(y, q)
    <3>1. /\ ss \in Seq(Seq(Bodies)) /\ f \in [0 .. Len(ss) -> Seq(Bodies)] /\ Steps(f, ss)
          /\ k \in 0 .. Len(ss) /\ n \in k .. Len(ss)
      BY <1>2, <1>3, <1>6, <2>0
    <3> HIDE DEF n
    <3>2. Begins(f[k], f[n])
      BY <3>1, StepsBegin
    <3> QED
      BY <1>6, <3>2
  <2> HIDE DEF p, e, c, x, y, z, u, v, w, i, l, q
  <2>8. e[k] = e[k - 1] + l
    <3>1. Len(v) = Len(u) + Len(w)
      BY <2>1, <2>2, <2>6, Joined
    <3> QED
      BY <2>3, <2>6, <3>1
  <2>9. /\ Len(y) = Len(x) + Len(z) /\ Len(x) \in Nat
        /\ \A m \in 1 .. Len(z) : y[Len(x) + m] = z[m]
    <3>1. z \in Seq(Bodies)
      BY <2>5
    <3> QED
      BY <2>1, <2>2, <3>1, Joined
  <2>10. Len(y) <= Len(q) /\ Len(q) \in Nat /\ Len(s) \in Nat /\ \A m \in 1 .. Len(y) : q[m] = y[m]
    BY <1>1, <2>7 DEF Begins
  <2>11. a \in Nat /\ Len(z) = l + 3 /\ Len(y) = a + l + 3 /\ l \in Nat \ {0}
    BY <2>4, <2>5, <2>9
  <2>12. \A m \in 1 .. Len(z) : s[2 + a + m] = z[m]
    <3> TAKE m \in 1 .. Len(z)
    <3>1. a + m \in 1 .. Len(y) /\ a + m \in 1 .. Len(q) /\ 2 + a + m = 2 + (a + m)
      BY <2>10, <2>11
    <3>2. y[a + m] = z[m]
      BY <2>9
    <3>3. q[a + m] = y[a + m]
      BY <2>10, <3>1
    <3>4. s[2 + (a + m)] = q[a + m]
      BY <1>1, <3>1
    <3> QED
      BY <3>1, <3>2, <3>3, <3>4
  <2>13. p[k - 1] = 2 + a /\ p[k] = a + l + 5
    BY <2>3, <2>11
  <2> HIDE DEF a
  <2>14. p[k] = p[k - 1] + l + 3 /\ p[k] <= Len(s)
    BY <1>1, <2>10, <2>11, <2>13
  <2>15. s[p[k - 1] + 1] = Token("size", l) /\ s[p[k - 1] + 2] = Token("crlf", 0)
    BY <2>5, <2>11, <2>12, <2>13
  <2>16. \A m \in 1 .. l : s[p[k - 1] + 2 + m] \in Contents
    <3> TAKE m \in 1 .. l
    <3>1. 2 + m \in 1 .. Len(z) /\ p[k - 1] + 2 + m = 2 + a + (2 + m)
      BY <2>11, <2>13
    <3> QED
      BY <2>5, <2>12, <3>1
  <2>17. s[p[k]] = Token("crlf", 0)
    <3>1. l + 3 \in 1 .. Len(z) /\ p[k] = 2 + a + (l + 3)
      BY <2>11, <2>13
    <3> QED
      BY <2>5, <2>12, <3>1
  <2>18. ChunkAt(s, p[k - 1], l, p[k])
    BY <2>11, <2>14, <2>15, <2>16, <2>17 DEF ChunkAt
  <2> QED
    BY <2>8, <2>18 DEF l, c
<1> HIDE DEF p, e
<1>13. Laid(r, p, e)
  BY <1>8, <1>9, <1>10, <1>11, <1>12 DEF Laid, s
<1> QED
  BY <1>13

(***************************************************************************)
(* The invariant of DownloaderSpec.  onContent has had all content up to   *)
(* a place that the client remembers: lastSend if the length is known, the *)
(* end of a chunk in chunks.                                               *)
(***************************************************************************)
\* Where the content of a response is.
Places(r) == {n \in DOMAIN Stream(r) : Stream(r)[n].content}

\* From one offset to another there are none of the places, or no others.
Bare(places, from, to) == \A n \in from + 1 .. to : n \notin places
Full(places, from, to) == \A n \in from + 1 .. to : n \in places

\* d is all of the places up to a bound, in order.
InOrder(d, places, bound) ==
  /\ d \in Seq(Nat)
  /\ \A i, j \in DOMAIN d : i < j => d[i] < d[j]
  /\ Range(d) = {n \in places : n <= bound}

HttpTypes ==
  /\ response \in Responses
  /\ sent \in Nat /\ sent <= Len(Stream(response))
  /\ received \in Nat /\ message \in Nat /\ received + message <= sent
  /\ contentlength \in Int /\ lastSend \in Nat /\ chunkPos \in Nat
  /\ iChunkScanLastSize \in Nat \union {None}
  /\ delivered \in Seq(Nat)

\* Who runs when.
Threads ==
  /\ connRunning = (conn # "done")
  /\ running = (client # "done")
  /\ user = "connected" => status = "none" /\ client = "done"
  /\ client \in {"finish", "status"} => ~connRunning
  /\ status = "done" => client \in {"test", "done"} /\ stop /\ ~connRunning
  /\ client # "done" => status # "error"
  /\ ~connRunning /\ ~closed => connStop

AtEnd == client = "status" \/ status = "done"

\* What the client knows of the header, and what it does accordingly.
HeaderKnown ==
  /\ ~bHeaderParsed => delivered = <<>> /\ iChunkScanLastSize = None
  /\ bHeaderParsed =>
       /\ received >= iHeaderSize
       /\ chunked = (response.mode = "chunked")
       /\ response.mode = "length" => contentlength = Len(Entity(response))
       /\ response.mode = "chunked" => contentlength = None
       /\ response.mode = "close" => contentlength = None \/ AtEnd
  /\ client = "header" => ~bHeaderParsed
  /\ client \in {"length", "length stop", "length wait", "length send"} =>
       bHeaderParsed /\ response.mode = "length"
  /\ client \in {"length stop", "length wait"} => received - iHeaderSize >= Len(Entity(response))
  /\ client \in {"chunk", "stop", "wait"} => bHeaderParsed /\ response.mode = "chunked"
  /\ client = "chunk" => iChunkScanLastSize # 0
  /\ client \in {"stop", "wait"} => iChunkScanLastSize = 0

\* Content that is not in chunks.
PlainSent ==
  bHeaderParsed =>
    /\ response.mode = "length" =>
         /\ iHeaderSize <= lastSend /\ lastSend <= received
         /\ delivered = Copy(iHeaderSize, lastSend)
         /\ AtEnd => lastSend = received
    /\ response.mode = "close" =>
         delivered = IF AtEnd THEN Copy(iHeaderSize, received) ELSE <<>>

\* The client has k chunks, and perhaps the size of the next.
ChunkState(p, e, k) ==
  /\ InOrder(delivered, Places(response), p[k])
  /\ Len(delivered) = e[k]
  /\ \/ iChunkScanLastSize = None /\ chunkPos = p[k]
     \/ iChunkScanLastSize = 0 /\ k = Chunks(response)
     \/ /\ k < Chunks(response) /\ iChunkScanLastSize = Len(response.chunks[k + 1])
        /\ chunkPos = p[k] + 2

ChunksSent ==
  bHeaderParsed /\ response.mode = "chunked" =>
    \A p, e : Laid(response, p, e) => \E k \in 0 .. Chunks(response) : ChunkState(p, e, k)

\* The client stops the connection when it has all.
StopsWhenDone ==
  connStop /\ ~closed /\ status # "error" =>
    /\ bHeaderParsed /\ response.mode # "close"
    /\ response.mode = "length" => received - iHeaderSize >= Len(Entity(response))
    /\ response.mode = "chunked" => iChunkScanLastSize = 0

HttpInv == HttpTypes /\ Threads /\ HeaderKnown /\ PlainSent /\ ChunksSent /\ StopsWhenDone

(***************************************************************************)
(* The steps.                                                              *)
(***************************************************************************)
\* The user goes on: see WaitStopped.
GoesOn ==
  /\ user' = "idle"
  /\ UNCHANGED <<serverVars, received, bufferlock, connVars, clientVars, scanVars, requests,
                 delivered, status>>

\* The steps that touch HttpClient.
HttpStep ==
  \/ \E r \in Responses : Connect(r)
  \/ ConnectFails \/ Start \/ sendGet \/ GetReturn
  \/ \E n \in Offsets : Send(n)
  \/ Close
  \/ ConnTest \/ ReceiveNothing \/ ReceiveFails \/ newMessageReceived
  \/ \E n \in Offsets : ReceiveMessage(n)
  \/ ClientTest \/ Execute \/ locateAndParseHeader
  \/ LengthLock \/ LengthStop \/ LengthStopped \/ LengthSend
  \/ ChunkSize \/ ChunkData \/ ChunkedStop \/ ChunkedStopped
  \/ parseReceivedData \/ Done
  \/ GoesOn
  \/ UNCHANGED httpVars

\* Every step is one of these.
LEMMA DownloaderSteps ==
  ASSUME [DownloaderNext]_dlVars
  PROVE  HttpStep
<1>1. CASE download
  BY <1>1 DEF download, HttpStep
<1>2. CASE get
  BY <1>2 DEF get, HttpStep
<1>3. CASE \E n \in Offsets : Send(n)
  BY <1>3 DEF HttpStep
<1>4. CASE Close
  BY <1>4 DEF HttpStep
<1>5. CASE Connection
  BY <1>5 DEF Connection, HttpStep
<1>6. CASE Client
  BY <1>6 DEF Client, HttpStep
<1>7. CASE WritePiece \/ WriterLeaves \/ WaitClient \/ WaitEmpty
  BY <1>7 DEF WritePiece, WriterLeaves, WaitClient, WaitEmpty, HttpStep
<1>8. CASE WaitStopped
  BY <1>8 DEF WaitStopped, GoesOn, HttpStep
<1>9. CASE UNCHANGED dlVars
  BY <1>9 DEF dlVars, HttpStep
<1> QED
  BY <1>1, <1>2, <1>3, <1>4, <1>5, <1>6, <1>7, <1>8, <1>9
     DEF DownloaderNext, clientThread, waitToFinish

\* A piece of the response, by its places.
LEMMA CopyIs ==
  ASSUME NEW a \in Nat, NEW b \in Nat, a <= b
  PROVE  /\ Copy(a, b) \in Seq(Nat) /\ Len(Copy(a, b)) = b - a
         /\ \A n \in 1 .. b - a : Copy(a, b)[n] = a + n
BY DEF Copy

\* What is received begins the response.
LEMMA ReceivedIs ==
  ASSUME HttpTypes
  PROVE  \A n \in 1 .. received : receivedData[n] = Stream(response)[n]
<1> DEFINE s == Stream(response)
<1>1. s \in Seq(Tokens) /\ received <= Len(s)
  <2>1. s \in Seq(Tokens) /\ Len(s) \in Nat
    <3>1. s \in Seq(Tokens)
      BY StreamHead DEF HttpTypes
    <3> QED
      BY <3>1
  <2> HIDE DEF s
  <2>2. received <= Len(s)
    BY <2>1 DEF HttpTypes, s
  <2> QED
    BY <2>1, <2>2
<1>2. received \in Nat
  BY DEF HttpTypes
<1> HIDE DEF s
<1>3. \A n \in 1 .. received : SubSeq(s, 1, received)[n] = s[n]
  BY <1>1, <1>2
<1> QED
  BY <1>3 DEF s, receivedData

\* The first token of a kind behind an offset.
LEMMA BehindIs ==
  ASSUME HttpTypes, NEW kind, NEW offset \in Nat
  PROVE  \/ Behind(kind, offset) = 0 /\ \A n \in offset + 1 .. received : Stream(response)[n].kind # kind
         \/ /\ Behind(kind, offset) \in offset + 1 .. received
            /\ Stream(response)[Behind(kind, offset)].kind = kind
            /\ \A n \in offset + 1 .. Behind(kind, offset) - 1 : Stream(response)[n].kind # kind
<1> DEFINE found == {n \in offset + 1 .. received : receivedData[n].kind = kind}
           S == Stream(response)
           end == Behind(kind, offset)
<1>0. received \in Nat
  BY DEF HttpTypes
<1>1. \A n \in offset + 1 .. received : receivedData[n] = S[n]
  BY <1>0, ReceivedIs
<1> HIDE DEF S
<1>2. found = {n \in offset + 1 .. received : S[n].kind = kind}
  BY <1>1
<1>3. found \in SUBSET Nat
  BY <1>0
<1>4. CASE found = {}
  BY <1>2, <1>4 DEF Behind, S
<1>5. CASE found # {}
  <2>1. PICK m \in found : \A k \in found : m <= k
    BY <1>3, <1>5, LeastExists
  <2>2. end = CHOOSE n \in found : \A k \in found : n <= k
    BY <1>5 DEF Behind
  <2> HIDE DEF end
  <2>3. end \in found /\ \A k \in found : end <= k
    BY <2>1, <2>2, Zenon
  <2>4. end \in offset + 1 .. received /\ S[end].kind = kind
    BY <1>2, <2>3
  <2>5. \A n \in offset + 1 .. end - 1 : S[n].kind # kind
    <3> SUFFICES ASSUME NEW n \in offset + 1 .. end - 1, S[n].kind = kind
                 PROVE  FALSE
      OBVIOUS
    <3>1. n \in offset + 1 .. received
      BY <1>0, <2>4
    <3>2. n \in found
      BY <1>2, <3>1
    <3> QED
      BY <1>0, <2>3, <2>4, <3>2
  <2> QED
    BY <2>4, <2>5 DEF S, end
<1> QED
  BY <1>4, <1>5

\* Lengths are numbers.
LEMMA LengthsAre ==
  ASSUME HttpTypes
  PROVE  /\ received \in Nat /\ Len(Stream(response)) \in Nat
         /\ received <= Len(Stream(response)) /\ Len(Entity(response)) \in Nat
<1>1. Stream(response) \in Seq(Tokens) /\ Entity(response) \in Seq(Contents)
  BY StreamHead, EntityType DEF HttpTypes
<1>2. Len(Stream(response)) \in Nat /\ Len(Entity(response)) \in Nat
  BY <1>1
<1> QED
  BY <1>2 DEF HttpTypes

\* The types.
LEMMA TypesKept ==
  ASSUME HttpTypes, HttpStep
  PROVE  HttpTypes'
<1>0. Len(Stream(response)) \in Nat
  <2>1. Stream(response) \in Seq(Tokens)
    BY StreamHead DEF HttpTypes
  <2> QED
    BY <2>1
<1>1. ASSUME NEW r \in Responses, Connect(r) PROVE HttpTypes'
  <2>1. Len(Stream(r)) \in Nat
    <3>1. Stream(r) \in Seq(Tokens)
      BY StreamHead
    <3> QED
      BY <3>1
  <2> QED
    BY <1>1, <2>1 DEF HttpTypes, Connect, Request, reset, None
<1>2. CASE ConnectFails
  BY <1>2 DEF HttpTypes, ConnectFails, Request, reset, None, serverVars, connVars
<1>3. ASSUME NEW n \in Offsets, Send(n) PROVE HttpTypes'
  <2>1. n \in Nat
    <3>1. Stream(response) \in Seq(Tokens)
      BY StreamHead DEF HttpTypes
    <3> QED
      BY <3>1 DEF Offsets
  <2> QED
    BY <1>0, <1>3, <2>1 DEF HttpTypes, Send, connVars, scanVars
<1>4. ASSUME NEW n \in Offsets, ReceiveMessage(n) PROVE HttpTypes'
  <2>1. n \in Nat
    <3>1. Stream(response) \in Seq(Tokens)
      BY StreamHead DEF HttpTypes
    <3> QED
      BY <3>1 DEF Offsets
  <2> QED
    BY <1>4, <2>1 DEF HttpTypes, ReceiveMessage, ConnGoto, serverVars, scanVars
<1>5. CASE newMessageReceived
  BY <1>5 DEF HttpTypes, newMessageReceived, ConnGoto, serverVars, scanVars
<1>6. CASE locateAndParseHeader
  <2> DEFINE end == Behind("empty line", 0)
  <2>1. end \in Nat
    <3>1. end = 0 \/ end \in 0 + 1 .. received
      BY BehindIs
    <3>2. received \in Nat
      BY DEF HttpTypes
    <3> HIDE DEF end
    <3> QED
      BY <3>1, <3>2
  <2>2. Len(Entity(response)) \in Nat
    <3>1. Entity(response) \in Seq(Contents)
      BY EntityType DEF HttpTypes
    <3> QED
      BY <3>1
  <2>3. /\ UNCHANGED <<response, sent, received, message, iChunkScanLastSize, delivered>>
        /\ contentlength' = contentlength \/ contentlength' = Len(Entity(response))
           \/ contentlength' = None
        /\ lastSend' = lastSend \/ lastSend' = end
        /\ chunkPos' = chunkPos \/ chunkPos' = end
    BY <1>6 DEF locateAndParseHeader, ClientGoto, serverVars, scanVars
  <2> HIDE DEF end
  <2>4. contentlength' \in Int /\ lastSend' \in Nat /\ chunkPos' \in Nat
    BY <2>1, <2>2, <2>3 DEF HttpTypes, None
  <2> QED
    BY <2>3, <2>4 DEF HttpTypes
<1>7. CASE SendOn /\ UNCHANGED <<serverVars, received, message>>
  <2>1. received > lastSend => delivered \o Copy(lastSend, received) \in Seq(Nat)
    <3> SUFFICES ASSUME received > lastSend PROVE delivered \o Copy(lastSend, received) \in Seq(Nat)
      OBVIOUS
    <3>1. Copy(lastSend, received) \in Seq(Nat) /\ delivered \in Seq(Nat)
      BY CopyIs DEF HttpTypes
    <3> HIDE DEF Copy
    <3> QED
      BY <3>1
  <2> QED
    BY <1>7, <2>1 DEF HttpTypes, SendOn, serverVars
<1>8. CASE LengthSend
  BY <1>7, <1>8 DEF LengthSend, ClientGoto
<1>9. CASE parseReceivedData
  <2>1. CASE UNCHANGED <<delivered, scanVars>>
    BY <1>9, <2>1 DEF HttpTypes, parseReceivedData, ClientGoto, serverVars, scanVars
  <2>2. CASE SendOn
    BY <1>7, <1>9, <2>2 DEF parseReceivedData, ClientGoto
  <2>3. CASE /\ contentlength' = received - iHeaderSize
             /\ delivered' = delivered \o Copy(iHeaderSize, received)
             /\ UNCHANGED <<bHeaderParsed, chunked, lastSend, chunkPos, iChunkScanLastSize>>
    <3>1. Copy(iHeaderSize, received) \in Seq(Nat)
      BY DEF HttpTypes, Copy, iHeaderSize
    <3>2. delivered \o Copy(iHeaderSize, received) \in Seq(Nat)
      BY <3>1 DEF HttpTypes
    <3> QED
      BY <1>9, <2>3, <3>2 DEF HttpTypes, parseReceivedData, ClientGoto, serverVars, iHeaderSize
  <2> QED
    BY <1>9, <2>1, <2>2, <2>3 DEF parseReceivedData
<1>10. CASE ChunkSize
  <2> DEFINE end == Behind("crlf", chunkPos)
             size == receivedData[chunkPos + 1].size
  <2>1. CASE end = 0
    BY <1>10, <2>1 DEF HttpTypes, ChunkSize, ClientGoto, serverVars, scanVars
  <2>2. CASE end # 0
    <3>1. end \in chunkPos + 1 .. received
      BY <2>2, BehindIs DEF HttpTypes
    <3>2. chunkPos + 1 \in 1 .. received
      BY <3>1 DEF HttpTypes
    <3>3. size \in Nat
      <4>1. receivedData[chunkPos + 1] = Stream(response)[chunkPos + 1]
        BY <3>2, ReceivedIs
      <4>2. Stream(response) \in Seq(Tokens) /\ chunkPos + 1 \in 1 .. Len(Stream(response))
        <5>1. Stream(response) \in Seq(Tokens)
          BY StreamHead DEF HttpTypes
        <5> QED
          BY <1>0, <3>2, <5>1 DEF HttpTypes
      <4>3. Stream(response)[chunkPos + 1] \in Tokens
        BY <4>2
      <4> QED
        BY <4>1, <4>3 DEF Tokens
    <3> HIDE DEF end, size
    <3>4. /\ iChunkScanLastSize' = size /\ chunkPos' = end
          /\ UNCHANGED <<bHeaderParsed, contentlength, chunked, lastSend>>
      BY <1>10, <2>2 DEF ChunkSize, end, size
    <3>5. UNCHANGED <<serverVars, received, message, delivered>>
      BY <1>10, <2>2 DEF ChunkSize, ClientGoto, end
    <3> QED
      BY <3>1, <3>3, <3>4, <3>5 DEF HttpTypes, serverVars
  <2> QED
    BY <2>1, <2>2
<1>11. CASE ChunkData
  <2>1. CASE received - chunkPos >= iChunkScanLastSize
    <3>1. Copy(chunkPos, chunkPos + iChunkScanLastSize) \in Seq(Nat)
      BY DEF HttpTypes, Copy
    <3>2. delivered \o Copy(chunkPos, chunkPos + iChunkScanLastSize) \in Seq(Nat)
      BY <3>1 DEF HttpTypes
    <3>3. iChunkScanLastSize # None /\ chunkPos' = chunkPos + iChunkScanLastSize + 1
      BY <1>11, <2>1 DEF ChunkData, AfterChunk, Crlf
    <3>4. chunkPos' \in Nat
      BY <3>3 DEF HttpTypes
    <3>5. /\ delivered' \in Seq(Nat) /\ iChunkScanLastSize' = None
          /\ UNCHANGED <<response, sent, received, message, contentlength, lastSend>>
      BY <1>11, <2>1, <3>2 DEF ChunkData, ClientGoto, serverVars
    <3> QED
      BY <3>4, <3>5 DEF HttpTypes
  <2>2. CASE ~(received - chunkPos >= iChunkScanLastSize)
    BY <1>11, <2>2 DEF HttpTypes, ChunkData, ClientGoto, serverVars, scanVars
  <2> QED
    BY <2>1, <2>2
<1>12. CASE UNCHANGED <<response, sent, received, message, contentlength, lastSend, chunkPos,
                        iChunkScanLastSize, delivered>>
  BY <1>12 DEF HttpTypes
<1>13. CASE Start \/ sendGet \/ GetReturn \/ Close \/ GoesOn \/ UNCHANGED httpVars
  BY <1>12, <1>13 DEF Start, sendGet, GetReturn, Close, GoesOn, httpVars, userOnly, serverVars,
                      connVars, scanVars
<1>14. CASE ConnTest \/ ReceiveNothing \/ ReceiveFails
  BY <1>12, <1>14 DEF ConnTest, ReceiveNothing, ReceiveFails, ConnGoto, serverVars, scanVars
<1>15. CASE ClientTest \/ Execute \/ Done \/ ChunkedStop \/ ChunkedStopped
  BY <1>12, <1>15 DEF ClientTest, Execute, Done, ChunkedStop, ChunkedStopped, ClientGoto,
                      serverVars, scanVars
<1>16. CASE LengthLock \/ LengthStop \/ LengthStopped
  BY <1>12, <1>16 DEF LengthLock, LengthStop, LengthStopped, ClientGoto, serverVars, scanVars
<1> QED
  BY <1>1, <1>2, <1>3, <1>4, <1>5, <1>6, <1>8, <1>9, <1>10, <1>11, <1>13, <1>14, <1>15, <1>16
     DEF HttpStep

\* Who runs when.
LEMMA ThreadsKept ==
  ASSUME Threads, HttpStep
  PROVE  Threads'
<1>1. ASSUME NEW r \in Responses, Connect(r) PROVE Threads'
  BY <1>1 DEF Threads, Connect, Request, clientVars
<1>2. CASE ConnectFails
  BY <1>2 DEF Threads, ConnectFails, Request, clientVars, connVars, serverVars
<1>3. CASE Start
  BY <1>3 DEF Threads, Start, serverVars, connVars
<1>4. CASE sendGet \/ GetReturn \/ GoesOn
  BY <1>4 DEF Threads, sendGet, GetReturn, GoesOn, userOnly, serverVars, connVars, clientVars
<1>5. CASE Close
  BY <1>5 DEF Threads, Close, connVars, clientVars
<1>6. CASE ConnTest
  BY <1>6 DEF Threads, ConnTest, ConnGoto, serverVars, clientVars
<1>7. CASE ReceiveFails \/ ReceiveNothing \/ newMessageReceived
  BY <1>7 DEF Threads, ReceiveFails, ReceiveNothing, newMessageReceived, ConnGoto, serverVars,
              clientVars
<1>8. ASSUME NEW n \in Offsets, ReceiveMessage(n) PROVE Threads'
  BY <1>8 DEF Threads, ReceiveMessage, ConnGoto, serverVars, clientVars
<1>9. ASSUME NEW n \in Offsets, Send(n) PROVE Threads'
  BY <1>9 DEF Threads, Send, connVars, clientVars
<1>10. CASE ClientTest
  BY <1>10 DEF Threads, ClientTest, ClientGoto, serverVars
<1>11. CASE Execute
  BY <1>11 DEF Threads, Execute, Task, ClientGoto, serverVars
<1>12. CASE locateAndParseHeader
  <2>1. /\ client = "header" /\ client' = "test" /\ status' \in {status, "header"}
        /\ UNCHANGED <<closed, conn, connRunning, connStop, running, stop, user>>
    BY <1>12 DEF locateAndParseHeader, ClientGoto, serverVars
  <2> QED
    BY <2>1 DEF Threads
<1>13. CASE LengthLock \/ LengthSend
  BY <1>13 DEF Threads, LengthLock, LengthSend, ClientGoto, serverVars
<1>14. CASE LengthStop \/ LengthStopped \/ ChunkedStop \/ ChunkedStopped
  BY <1>14 DEF Threads, LengthStop, LengthStopped, ChunkedStop, ChunkedStopped, ClientGoto,
               serverVars
<1>15. CASE ChunkSize
  <2>1. /\ client = "chunk" /\ client' \in {"test", "stop", "chunk"}
        /\ UNCHANGED <<closed, conn, connRunning, connStop, running, stop, user, status>>
    BY <1>15 DEF ChunkSize, ClientGoto, serverVars
  <2> QED
    BY <2>1 DEF Threads
<1>16. CASE ChunkData
  BY <1>16 DEF Threads, ChunkData, ClientGoto, serverVars
<1>17. CASE parseReceivedData
  BY <1>17 DEF Threads, parseReceivedData, ClientGoto, serverVars
<1>18. CASE Done
  BY <1>18 DEF Threads, Done, ClientGoto, serverVars
<1>19. CASE UNCHANGED httpVars
  BY <1>19 DEF Threads, httpVars, serverVars, connVars, clientVars
<1> QED
  BY <1>1, <1>2, <1>3, <1>4, <1>5, <1>6, <1>7, <1>8, <1>9, <1>10, <1>11, <1>12, <1>13, <1>14,
     <1>15, <1>16, <1>17, <1>18, <1>19 DEF HttpStep

\* The empty line is the second token.
LEMMA EmptyLineIs ==
  ASSUME HttpTypes, NEW end, end = Behind("empty line", 0), end # 0
  PROVE  end = iHeaderSize /\ received >= iHeaderSize
<1> DEFINE s == Stream(response)
<1>0. PICK kind : kind = "empty line"
  BY Zenon
<1>1. received \in Nat /\ received <= Len(s) /\ Len(s) \in Nat
  BY LengthsAre
<1>2. /\ s[1] = Token("header", 0) /\ s[2] = Token("empty line", 0)
      /\ \A n \in 3 .. Len(s) : s[n] \in Bodies
  BY StreamHead DEF HttpTypes
<1>3. s[1].kind # kind
  <2>1. Token("header", 0).kind # "empty line"
    BY DEF Token
  <2> QED
    BY <1>0, <1>2, <2>1, Zenon
<1>4. s[2].kind = kind
  BY <1>0, <1>2, KindsOf, Zenon
<1>5. \A n \in 3 .. Len(s) : s[n].kind # kind
  BY <1>0, <1>2, KindsOf, Zenon
<1> HIDE DEF s
<1>6. end \in 0 + 1 .. received /\ s[end].kind = kind
  BY <1>0, BehindIs, Zenon DEF s
<1>7. end \in 1 .. Len(s)
  BY ONLY <1>1, <1>6
<1>8. end # 1
  BY <1>3, <1>6
<1>9. ~(end \in 3 .. Len(s))
  BY <1>5, <1>6, Zenon
<1> QED
  BY ONLY <1>1, <1>6, <1>7, <1>8, <1>9 DEF iHeaderSize

\* What the client knows of the header.
LEMMA HeaderKept ==
  ASSUME HttpTypes, Threads, HeaderKnown, HttpStep
  PROVE  HeaderKnown'
<1> USE DEF AtEnd
<1>1. ASSUME NEW r \in Responses, Connect(r) PROVE HeaderKnown'
  BY <1>1 DEF Threads, HeaderKnown, Connect, Request, reset, clientVars
<1>2. CASE ConnectFails
  BY <1>2 DEF Threads, HeaderKnown, ConnectFails, Request, reset, clientVars
<1>3. CASE Start
  BY <1>3 DEF Threads, HeaderKnown, Start, serverVars, scanVars
<1>4. CASE UNCHANGED <<response, received, client, bHeaderParsed, contentlength, chunked,
                       iChunkScanLastSize, delivered, status>>
  BY <1>4 DEF HeaderKnown
<1>5. CASE sendGet \/ GetReturn \/ GoesOn \/ Close \/ UNCHANGED httpVars
  BY <1>4, <1>5 DEF sendGet, GetReturn, GoesOn, Close, userOnly, serverVars, clientVars, scanVars,
                    httpVars
<1>6. CASE ConnTest \/ ReceiveFails \/ ReceiveNothing
  BY <1>4, <1>6 DEF ConnTest, ReceiveFails, ReceiveNothing, ConnGoto, serverVars, clientVars,
                    scanVars
<1>7. ASSUME NEW n \in Offsets, ReceiveMessage(n) \/ Send(n) PROVE HeaderKnown'
  BY <1>4, <1>7 DEF ReceiveMessage, Send, ConnGoto, serverVars, clientVars, scanVars
<1>8. CASE newMessageReceived
  <2>1. received' >= received /\ received' \in Nat
    BY <1>8 DEF HttpTypes, newMessageReceived
  <2>2. UNCHANGED <<response, client, bHeaderParsed, contentlength, chunked, iChunkScanLastSize,
                    delivered, status>>
    BY <1>8 DEF newMessageReceived, ConnGoto, serverVars, clientVars, scanVars
  <2>3. received \in Nat /\ Len(Entity(response)) \in Nat
    BY LengthsAre
  <2>4. received >= iHeaderSize => received' >= iHeaderSize
    BY <2>1, <2>3 DEF iHeaderSize
  <2>5. received - iHeaderSize >= Len(Entity(response)) =>
          received' - iHeaderSize >= Len(Entity(response))
    BY <2>1, <2>3 DEF iHeaderSize
  <2> QED
    BY <2>1, <2>2, <2>3, <2>4, <2>5 DEF HeaderKnown
<1>9. CASE ClientTest
  BY <1>9 DEF Threads, HeaderKnown, ClientTest, ClientGoto, serverVars, scanVars
<1>10. CASE Execute
  <2>1. UNCHANGED <<response, received, bHeaderParsed, contentlength, chunked, iChunkScanLastSize,
                    delivered, status>>
    BY <1>10 DEF Execute, ClientGoto, serverVars, scanVars
  <2>2. client = "execute" /\ client' = Task
    BY <1>10 DEF Execute, ClientGoto
  <2>3. response.mode \in {"length", "chunked", "close"}
    BY ChunkType DEF HttpTypes
  <2>4. ~AtEnd
    BY <2>2 DEF Threads
  <2>5. Len(Entity(response)) # None
    <3>1. Entity(response) \in Seq(Contents)
      BY EntityType DEF HttpTypes
    <3> QED
      BY <3>1 DEF None
  <2>6. client' \in {"finish", "header", "length", "stop", "chunk", "test"}
    BY <2>2 DEF Task
  <2>7. /\ client' = "header" => ~bHeaderParsed
        /\ client' = "length" => bHeaderParsed /\ contentlength # None
        /\ client' = "stop" => bHeaderParsed /\ chunked /\ iChunkScanLastSize = 0
        /\ client' = "chunk" => bHeaderParsed /\ chunked /\ iChunkScanLastSize # 0
    BY <2>2 DEF Task
  <2> QED
    BY <2>1, <2>3, <2>4, <2>5, <2>6, <2>7 DEF HeaderKnown
<1>11. CASE locateAndParseHeader
  <2> DEFINE end == Behind("empty line", 0)
  <2>1. client' = "test" /\ UNCHANGED <<response, received, delivered>>
    BY <1>11 DEF locateAndParseHeader, ClientGoto, serverVars
  <2>2. client = "header" /\ ~bHeaderParsed
    BY <1>11 DEF locateAndParseHeader, ClientGoto, HeaderKnown
  <2>3. CASE end = 0
    <3>1. UNCHANGED <<scanVars, status>>
      BY <1>11, <2>3 DEF locateAndParseHeader
    <3> QED
      BY <2>1, <2>2, <3>1 DEF HeaderKnown, scanVars
  <2>4. CASE end # 0
    <3>1. /\ bHeaderParsed' = TRUE
          /\ chunked' = (response.mode = "chunked")
          /\ contentlength' = IF response.mode = "length" THEN Len(Entity(response)) ELSE None
          /\ UNCHANGED iChunkScanLastSize
      BY <1>11, <2>4 DEF locateAndParseHeader
    <3>2. received >= iHeaderSize
      BY <2>4, EmptyLineIs
    <3> QED
      BY <2>1, <2>2, <3>1, <3>2 DEF HeaderKnown
  <2> QED
    BY <2>3, <2>4
<1>12. CASE LengthLock
  <2>1. /\ client = "length"
        /\ client' = IF received - iHeaderSize >= contentlength THEN "length stop" ELSE "length send"
        /\ UNCHANGED <<response, received, bHeaderParsed, contentlength, chunked,
                       iChunkScanLastSize, delivered, status>>
    BY <1>12 DEF LengthLock, ClientGoto, serverVars, scanVars
  <2> QED
    BY <2>1 DEF HeaderKnown, Threads
<1>13. CASE LengthStop
  BY <1>13 DEF HeaderKnown, Threads, LengthStop, ClientGoto, serverVars, scanVars
<1>14. CASE LengthStopped
  BY <1>14 DEF HeaderKnown, Threads, LengthStopped, ClientGoto, serverVars, scanVars
<1>15. CASE LengthSend
  <2>1. /\ client = "length send" /\ client' = "test"
        /\ UNCHANGED <<response, received, bHeaderParsed, contentlength, chunked,
                       iChunkScanLastSize, status>>
    BY <1>15 DEF LengthSend, SendOn, ClientGoto, serverVars
  <2> QED
    BY <2>1 DEF HeaderKnown, Threads
<1>16. CASE ChunkSize
  <2>1. /\ client = "chunk"
        /\ UNCHANGED <<response, received, bHeaderParsed, contentlength, chunked, delivered, status>>
        /\ \/ client' = "test" /\ UNCHANGED iChunkScanLastSize
           \/ client' = IF iChunkScanLastSize' = 0 THEN "stop" ELSE "chunk"
    BY <1>16 DEF ChunkSize, ClientGoto, serverVars, scanVars
  <2> QED
    BY <2>1 DEF HeaderKnown, Threads
<1>17. CASE ChunkData
  <2>1. /\ client = "chunk" /\ client' = "test"
        /\ UNCHANGED <<response, received, bHeaderParsed, contentlength, chunked, status>>
    BY <1>17 DEF ChunkData, ClientGoto, serverVars, scanVars
  <2> QED
    BY <2>1 DEF HeaderKnown, Threads
<1>18. CASE ChunkedStop \/ ChunkedStopped
  BY <1>18 DEF HeaderKnown, Threads, ChunkedStop, ChunkedStopped, ClientGoto, serverVars, scanVars
<1>19. CASE parseReceivedData
  <2>1. /\ client = "finish" /\ client' = "status"
        /\ UNCHANGED <<response, received, bHeaderParsed, chunked, iChunkScanLastSize, status>>
    BY <1>19 DEF parseReceivedData, SendOn, ClientGoto, serverVars, scanVars
  <2>2. ~bHeaderParsed \/ response.mode # "close" => UNCHANGED contentlength
    <3>1. bHeaderParsed /\ ~chunked /\ contentlength = None => response.mode = "close"
      <4>1. response.mode \in {"length", "chunked", "close"}
        BY ChunkType DEF HttpTypes
      <4>2. Len(Entity(response)) # None
        <5>1. Entity(response) \in Seq(Contents)
          BY EntityType DEF HttpTypes
        <5> QED
          BY <5>1 DEF None
      <4> QED
        BY <4>1, <4>2 DEF HeaderKnown
    <3> QED
      BY <1>19, <3>1 DEF parseReceivedData, SendOn, scanVars
  <2>3. ~bHeaderParsed => UNCHANGED delivered
    BY <1>19 DEF parseReceivedData
  <2> QED
    BY <2>1, <2>2, <2>3 DEF HeaderKnown, Threads
<1>20. CASE Done
  BY <1>20 DEF HeaderKnown, Threads, Done, ClientGoto, serverVars, scanVars
<1> QED
  BY <1>1, <1>2, <1>3, <1>5, <1>6, <1>7, <1>8, <1>9, <1>10, <1>11, <1>12, <1>13, <1>14, <1>15,
     <1>16, <1>17, <1>18, <1>19, <1>20 DEF HttpStep

\* The client stops the connection when it has all.
LEMMA StopsKept ==
  ASSUME HttpTypes, Threads, HeaderKnown, StopsWhenDone, HttpStep
  PROVE  StopsWhenDone'
<1>1. ASSUME NEW r \in Responses, Connect(r) PROVE StopsWhenDone'
  BY <1>1 DEF StopsWhenDone, Connect
<1>2. CASE ConnectFails
  BY <1>2 DEF StopsWhenDone, ConnectFails
<1>3. CASE UNCHANGED <<response, received, connStop, closed, status, bHeaderParsed,
                       iChunkScanLastSize>>
  BY <1>3 DEF StopsWhenDone
<1>4. CASE Start \/ sendGet \/ GetReturn \/ GoesOn \/ UNCHANGED httpVars
  BY <1>3, <1>4 DEF Start, sendGet, GetReturn, GoesOn, httpVars, userOnly, serverVars, connVars,
                    scanVars
<1>5. CASE Close
  BY <1>5 DEF StopsWhenDone, Close
<1>6. CASE ConnTest \/ ReceiveNothing
  BY <1>3, <1>6 DEF ConnTest, ReceiveNothing, ConnGoto, serverVars, scanVars
<1>7. CASE ReceiveFails
  BY <1>7 DEF StopsWhenDone, ReceiveFails, ConnGoto, serverVars
<1>8. ASSUME NEW n \in Offsets, ReceiveMessage(n) \/ Send(n) PROVE StopsWhenDone'
  BY <1>3, <1>8 DEF ReceiveMessage, Send, ConnGoto, serverVars, connVars, scanVars
<1>9. CASE newMessageReceived
  <2>1. received' >= received /\ received' \in Nat
    BY <1>9 DEF HttpTypes, newMessageReceived
  <2>2. UNCHANGED <<response, connStop, closed, status, bHeaderParsed, iChunkScanLastSize>>
    BY <1>9 DEF newMessageReceived, ConnGoto, serverVars, scanVars
  <2>3. received \in Nat /\ Len(Entity(response)) \in Nat
    BY LengthsAre
  <2>4. received - iHeaderSize >= Len(Entity(response)) =>
          received' - iHeaderSize >= Len(Entity(response))
    BY <2>1, <2>3 DEF iHeaderSize
  <2> QED
    BY <2>2, <2>4 DEF StopsWhenDone
<1>10. CASE ClientTest \/ Execute
  BY <1>3, <1>10 DEF ClientTest, Execute, ClientGoto, serverVars, scanVars
<1>11. CASE locateAndParseHeader
  <2>1. client = "header" /\ UNCHANGED <<connStop, closed>>
    BY <1>11 DEF locateAndParseHeader, ClientGoto, serverVars
  <2>2. ~bHeaderParsed /\ status # "error"
    BY <2>1 DEF HeaderKnown, Threads
  <2> QED
    BY <2>1, <2>2 DEF StopsWhenDone
<1>12. CASE LengthLock \/ LengthStopped \/ ChunkedStopped
  BY <1>3, <1>12 DEF LengthLock, LengthStopped, ChunkedStopped, ClientGoto, serverVars, scanVars
<1>13. CASE LengthStop
  BY <1>13 DEF StopsWhenDone, HeaderKnown, LengthStop, ClientGoto, serverVars, scanVars
<1>14. CASE LengthSend
  BY <1>3, <1>14 DEF LengthSend, SendOn, ClientGoto, serverVars
<1>15. CASE ChunkSize \/ ChunkData
  <2>1. client = "chunk" /\ UNCHANGED <<response, received, connStop, closed, status, bHeaderParsed>>
    BY <1>15 DEF ChunkSize, ChunkData, ClientGoto, serverVars, scanVars
  <2>2. bHeaderParsed /\ response.mode = "chunked" /\ iChunkScanLastSize # 0
    BY <2>1 DEF HeaderKnown
  <2> QED
    BY <2>1, <2>2 DEF StopsWhenDone
<1>16. CASE ChunkedStop
  BY <1>16 DEF StopsWhenDone, HeaderKnown, ChunkedStop, ClientGoto, serverVars, scanVars
<1>17. CASE parseReceivedData
  BY <1>3, <1>17 DEF parseReceivedData, SendOn, ClientGoto, serverVars, scanVars
<1>18. CASE Done
  <2>1. /\ client = "status"
        /\ UNCHANGED <<response, received, connStop, closed, bHeaderParsed, iChunkScanLastSize>>
    BY <1>18 DEF Done, ClientGoto, serverVars, scanVars
  <2>2. status # "error"
    BY <2>1 DEF Threads
  <2> QED
    BY <2>1, <2>2 DEF StopsWhenDone
<1> QED
  BY <1>1, <1>2, <1>4, <1>5, <1>6, <1>7, <1>8, <1>9, <1>10, <1>11, <1>12, <1>13, <1>14,
     <1>15, <1>16, <1>17, <1>18 DEF HttpStep

\* What follows a piece is the rest of the larger piece.
LEMMA CopyOn ==
  ASSUME NEW a \in Nat, NEW b \in Nat, NEW c \in Nat, a <= b, b <= c
  PROVE  Copy(a, b) \o Copy(b, c) = Copy(a, c)
<1> DEFINE x == Copy(a, b)
           y == Copy(b, c)
           z == Copy(a, c)
           xy == x \o y
<1>1. /\ x \in Seq(Nat) /\ Len(x) = b - a /\ \A n \in 1 .. b - a : x[n] = a + n
      /\ y \in Seq(Nat) /\ Len(y) = c - b /\ \A n \in 1 .. c - b : y[n] = b + n
      /\ z \in Seq(Nat) /\ Len(z) = c - a /\ \A n \in 1 .. c - a : z[n] = a + n
  <2>1. x \in Seq(Nat) /\ Len(x) = b - a /\ \A n \in 1 .. b - a : x[n] = a + n
    BY CopyIs
  <2>2. y \in Seq(Nat) /\ Len(y) = c - b /\ \A n \in 1 .. c - b : y[n] = b + n
    BY CopyIs
  <2>3. z \in Seq(Nat) /\ Len(z) = c - a /\ \A n \in 1 .. c - a : z[n] = a + n
    <3>1. a <= c
      OBVIOUS
    <3> QED
      BY <3>1, CopyIs
  <2> QED
    BY <2>1, <2>2, <2>3
<1> HIDE DEF x, y, z
<1>2. /\ xy \in Seq(Nat) /\ Len(xy) = Len(x) + Len(y)
      /\ \A i \in 1 .. Len(x) : xy[i] = x[i]
      /\ \A i \in 1 .. Len(y) : xy[Len(x) + i] = y[i]
  <2>1. x \in Seq(Nat) /\ y \in Seq(Nat)
    BY <1>1
  <2> QED
    BY <2>1, Joined
<1> HIDE DEF xy
<1>3. Len(xy) = c - a
  BY <1>1, <1>2
<1>4. \A n \in 1 .. c - a : xy[n] = a + n
  <2> TAKE n \in 1 .. c - a
  <2>1. CASE n <= b - a
    BY <1>1, <1>2, <2>1
  <2>2. CASE n > b - a
    <3> DEFINE i == n - (b - a)
    <3>1. i \in 1 .. c - b /\ n = Len(x) + i /\ b + i = a + n
      BY <1>1, <2>2
    <3> HIDE DEF i
    <3> QED
      BY <1>1, <1>2, <3>1
  <2> QED
    BY <2>1, <2>2
<1>5. xy = z
  BY <1>1, <1>2, <1>3, <1>4, SeqEqual
<1> QED
  BY <1>5 DEF xy, x, y, z

\* Content that is not in chunks.
LEMMA PlainKept ==
  ASSUME HttpTypes, Threads, HeaderKnown, PlainSent, HttpStep
  PROVE  PlainSent'
<1>1. CASE (\E r \in Responses : Connect(r)) \/ ConnectFails
  BY <1>1 DEF PlainSent, Connect, ConnectFails, Request, reset
<1>2. CASE Start
  <2>1. ~AtEnd /\ ~AtEnd'
    BY <1>2 DEF AtEnd, Threads, Start
  <2>2. UNCHANGED <<response, received, bHeaderParsed, lastSend, delivered>>
    BY <1>2 DEF Start, serverVars, scanVars
  <2> QED
    BY <2>1, <2>2 DEF PlainSent
<1>3. CASE UNCHANGED <<response, received, bHeaderParsed, lastSend, delivered, AtEnd>>
  BY <1>3 DEF PlainSent
<1>4. CASE sendGet \/ GetReturn \/ GoesOn \/ Close \/ UNCHANGED httpVars
  BY <1>3, <1>4 DEF sendGet, GetReturn, GoesOn, Close, httpVars, userOnly, serverVars, clientVars,
                    scanVars, AtEnd
<1>5. CASE ConnTest \/ ReceiveNothing \/ ReceiveFails
  BY <1>3, <1>5 DEF ConnTest, ReceiveNothing, ReceiveFails, ConnGoto, serverVars, clientVars,
                    scanVars, AtEnd
<1>6. ASSUME NEW n \in Offsets, ReceiveMessage(n) \/ Send(n) PROVE PlainSent'
  BY <1>3, <1>6 DEF ReceiveMessage, Send, ConnGoto, serverVars, clientVars, scanVars, AtEnd
<1>7. CASE newMessageReceived
  <2>1. received' >= received /\ received' \in Nat /\ received \in Nat
    BY <1>7 DEF HttpTypes, newMessageReceived
  <2>2. UNCHANGED <<response, bHeaderParsed, lastSend, delivered, client, status>>
    BY <1>7 DEF newMessageReceived, ConnGoto, serverVars, clientVars, scanVars
  <2>3. ~AtEnd
    BY <1>7 DEF Threads, AtEnd, newMessageReceived, ConnGoto
  <2>4. ~AtEnd'
    BY <2>2, <2>3 DEF AtEnd
  <2>5. lastSend <= received => lastSend <= received'
    BY <2>1 DEF HttpTypes
  <2> QED
    BY <2>2, <2>3, <2>4, <2>5 DEF PlainSent
<1>8. CASE ClientTest \/ Execute \/ LengthLock \/ LengthStop \/ LengthStopped
  BY <1>3, <1>8 DEF ClientTest, Execute, Task, LengthLock, LengthStop, LengthStopped, ClientGoto,
                    serverVars, scanVars, AtEnd
<1>9. CASE ChunkedStop \/ ChunkedStopped \/ Done
  <2>1. UNCHANGED AtEnd
    BY <1>9 DEF ChunkedStop, ChunkedStopped, Done, ClientGoto, AtEnd
  <2> QED
    BY <1>3, <1>9, <2>1 DEF ChunkedStop, ChunkedStopped, Done, ClientGoto, serverVars, scanVars
<1>10. CASE locateAndParseHeader
  <2> DEFINE end == Behind("empty line", 0)
  <2>1. client = "header" /\ client' = "test" /\ UNCHANGED <<response, received, delivered>>
    BY <1>10 DEF locateAndParseHeader, ClientGoto, serverVars
  <2>2. ~bHeaderParsed /\ delivered = <<>>
    BY <2>1 DEF HeaderKnown
  <2>3. CASE end = 0
    <3>1. UNCHANGED bHeaderParsed
      BY <1>10, <2>3 DEF locateAndParseHeader, scanVars
    <3> QED
      BY <2>2, <3>1 DEF PlainSent
  <2>4. CASE end # 0
    <3>1. lastSend' = end /\ status' = "header"
      BY <1>10, <2>4 DEF locateAndParseHeader
    <3>2. end = iHeaderSize /\ received >= iHeaderSize
      BY <2>4, EmptyLineIs
    <3>3. ~AtEnd'
      BY <2>1, <3>1 DEF AtEnd
    <3>4. Copy(iHeaderSize, iHeaderSize) = <<>>
      BY DEF Copy, iHeaderSize
    <3> HIDE DEF end
    <3>5. iHeaderSize <= lastSend' /\ lastSend' <= received'
      BY <2>1, <3>1, <3>2 DEF iHeaderSize
    <3> QED
      BY <2>1, <2>2, <3>1, <3>2, <3>3, <3>4, <3>5 DEF PlainSent
  <2> QED
    BY <2>3, <2>4
<1>11. ASSUME SendOn, response.mode = "length", bHeaderParsed,
              UNCHANGED <<response, received>>
       PROVE  PlainSent'
  <2>1. /\ iHeaderSize <= lastSend /\ lastSend <= received
        /\ delivered = Copy(iHeaderSize, lastSend)
    BY <1>11 DEF PlainSent
  <2>2. lastSend' = received /\ delivered' = Copy(iHeaderSize, received)
    <3>1. lastSend \in Nat /\ received \in Nat /\ iHeaderSize \in Nat
      BY DEF HttpTypes, iHeaderSize
    <3>2. CASE received > lastSend
      <4>1. lastSend' = received /\ delivered' = delivered \o Copy(lastSend, received)
        BY <1>11, <3>2 DEF SendOn
      <4>2. Copy(iHeaderSize, lastSend) \o Copy(lastSend, received) = Copy(iHeaderSize, received)
        BY <2>1, <3>1, CopyOn
      <4> QED
        BY <2>1, <4>1, <4>2
    <3>3. CASE ~(received > lastSend)
      <4>1. received = lastSend
        BY <2>1, <3>1, <3>3
      <4> QED
        BY <1>11, <2>1, <3>3, <4>1 DEF SendOn
    <3> QED
      BY <3>2, <3>3
  <2>3. iHeaderSize <= received /\ received <= received
    BY <2>1 DEF HttpTypes, iHeaderSize
  <2> QED
    BY <1>11, <2>2, <2>3 DEF PlainSent
<1>12. CASE LengthSend
  <2>1. client = "length send" /\ SendOn /\ UNCHANGED <<response, received>>
    BY <1>12 DEF LengthSend, ClientGoto, serverVars
  <2> QED
    BY <1>11, <2>1 DEF HeaderKnown
<1>13. CASE ChunkSize \/ ChunkData
  <2>1. client = "chunk" /\ UNCHANGED <<response, bHeaderParsed>>
    BY <1>13 DEF ChunkSize, ChunkData, ClientGoto, serverVars, scanVars
  <2>2. response.mode = "chunked"
    BY <2>1 DEF HeaderKnown
  <2> QED
    BY <2>1, <2>2 DEF PlainSent
<1>14. CASE parseReceivedData
  <2>1. client = "finish" /\ client' = "status" /\ UNCHANGED <<response, received, bHeaderParsed>>
    BY <1>14 DEF parseReceivedData, SendOn, ClientGoto, serverVars, scanVars
  <2>2. ~AtEnd /\ AtEnd'
    BY <2>1 DEF Threads, AtEnd
  <2>3. CASE ~bHeaderParsed \/ response.mode = "chunked"
    BY <2>1, <2>3 DEF PlainSent
  <2>4. CASE bHeaderParsed /\ response.mode = "length"
    <3>1. ~chunked /\ contentlength # None
      <4>1. Len(Entity(response)) # None
        BY LengthsAre DEF None
      <4> QED
        BY <2>4, <4>1 DEF HeaderKnown
    <3>2. SendOn
      BY <1>14, <2>4, <3>1 DEF parseReceivedData
    <3> QED
      BY <1>11, <2>1, <2>4, <3>2
  <2>5. CASE bHeaderParsed /\ response.mode = "close"
    <3>1. ~chunked /\ contentlength = None /\ delivered = <<>>
      BY <2>2, <2>5 DEF HeaderKnown, PlainSent
    <3>2. delivered' = delivered \o Copy(iHeaderSize, received)
      BY <1>14, <2>5, <3>1 DEF parseReceivedData
    <3>3. delivered' = Copy(iHeaderSize, received)
      <4>1. Copy(iHeaderSize, received) \in Seq(Nat)
        BY DEF HttpTypes, Copy, iHeaderSize
      <4>2. <<>> \o Copy(iHeaderSize, received) = Copy(iHeaderSize, received)
        BY <4>1, ConcatEmptySeq
      <4> QED
        BY <3>1, <3>2, <4>2
    <3> QED
      BY <2>1, <2>2, <2>5, <3>3 DEF PlainSent
  <2>6. response.mode \in {"length", "chunked", "close"}
    BY ChunkType DEF HttpTypes
  <2> QED
    BY <2>3, <2>4, <2>5, <2>6
<1> QED
  BY <1>1, <1>2, <1>4, <1>5, <1>6, <1>7, <1>8, <1>9, <1>10, <1>12, <1>13, <1>14 DEF HttpStep

(***************************************************************************)
(* Content in order.                                                       *)
(***************************************************************************)
\* All places in a row follow those before.
LEMMA InOrderMore ==
  ASSUME NEW places, NEW d, NEW b \in Nat, NEW a \in Nat, NEW c \in Nat,
         places \subseteq Nat, InOrder(d, places, b), b <= a, a <= c,
         Bare(places, b, a), Full(places, a, c)
  PROVE  InOrder(d \o Copy(a, c), places, c)
<1> DEFINE x == Copy(a, c)
           dx == d \o x
           m == Len(d)
           l == Len(x)
<1>1. /\ d \in Seq(Nat) /\ \A i, j \in DOMAIN d : i < j => d[i] < d[j]
      /\ Range(d) = {n \in places : n <= b}
  BY DEF InOrder
<1>2. x \in Seq(Nat) /\ l = c - a /\ \A n \in 1 .. c - a : x[n] = a + n
  BY CopyIs
<1>3. \A i \in 1 .. m : d[i] \in places /\ d[i] <= b
  <2>1. \A i \in 1 .. m : d[i] \in Range(d)
    BY <1>1 DEF Range
  <2> QED
    BY <1>1, <2>1
<1>4. \A n \in places : n <= b => \E i \in 1 .. m : d[i] = n
  <2> TAKE n \in places
  <2> HAVE n <= b
  <2>1. n \in Range(d)
    BY <1>1
  <2> QED
    BY <1>1, <2>1 DEF Range
<1>5. d \in Seq(Nat) /\ x \in Seq(Nat)
  BY <1>1, <1>2
<1> HIDE DEF x
<1>6. /\ dx \in Seq(Nat) /\ Len(dx) = Len(d) + Len(x)
      /\ \A i \in 1 .. Len(d) : dx[i] = d[i]
      /\ \A i \in 1 .. Len(x) : dx[Len(d) + i] = x[i]
  BY <1>5, Joined
<1>7. m \in Nat /\ l \in Nat /\ DOMAIN d = 1 .. m /\ DOMAIN dx = 1 .. Len(dx)
  BY <1>5, <1>6
<1> HIDE DEF dx, m, l
<1>8. /\ Len(dx) = m + l /\ l = c - a
      /\ \A i \in 1 .. m : dx[i] = d[i]
      /\ \A i \in 1 .. l : dx[m + i] = a + i
  BY <1>2, <1>6 DEF m, l
<1>9. \A i \in m + 1 .. m + l : dx[i] = a + (i - m)
  <2> TAKE i \in m + 1 .. m + l
  <2> DEFINE n == i - m
  <2>1. n \in 1 .. l /\ i = m + n
    BY <1>7
  <2> HIDE DEF n
  <2>2. dx[i] = a + n
    BY <1>8, <2>1
  <2> QED
    BY <1>7, <2>1, <2>2
<1>10. ASSUME NEW i \in DOMAIN dx, NEW j \in DOMAIN dx, i < j PROVE dx[i] < dx[j]
  <2>0. i \in 1 .. m + l /\ j \in 1 .. m + l
    BY <1>7, <1>8
  <2>1. CASE j <= m
    <3>1. i \in 1 .. m /\ j \in 1 .. m
      BY <1>7, <1>10, <2>0, <2>1
    <3>2. d[i] < d[j]
      BY <1>1, <1>7, <1>10, <3>1
    <3> QED
      BY <1>8, <3>1, <3>2
  <2>2. CASE i <= m /\ j > m
    <3>1. i \in 1 .. m /\ j \in m + 1 .. m + l
      BY <1>7, <2>0, <2>2
    <3>2. dx[i] = d[i] /\ d[i] <= b /\ d[i] \in Nat
      BY <1>3, <1>8, <3>1
    <3>3. dx[j] = a + (j - m) /\ j - m >= 1 /\ j - m \in Nat
      BY <1>7, <1>9, <3>1
    <3> QED
      BY <3>2, <3>3
  <2>3. CASE i > m
    <3>1. i \in m + 1 .. m + l /\ j \in m + 1 .. m + l
      BY <1>7, <1>10, <2>0, <2>3
    <3>2. dx[i] = a + (i - m) /\ dx[j] = a + (j - m)
      BY <1>9, <3>1
    <3> QED
      BY <1>7, <1>10, <3>1, <3>2
  <2> QED
    BY <1>7, <2>0, <2>1, <2>2, <2>3
<1>11. ASSUME NEW n, n \in Range(dx) PROVE n \in places /\ n <= c
  <2>1. PICK i \in 1 .. m + l : dx[i] = n
    BY <1>7, <1>8, <1>11 DEF Range
  <2>2. CASE i <= m
    <3>1. i \in 1 .. m
      BY <1>7, <2>2
    <3>2. n = d[i] /\ d[i] \in places /\ d[i] <= b
      BY <1>3, <1>8, <2>1, <3>1
    <3>3. n \in Nat
      BY <3>2, Zenon
    <3>4. b <= c
      OBVIOUS
    <3> QED
      BY <3>2, <3>3, <3>4
  <2>3. CASE i > m
    <3>1. i \in m + 1 .. m + l
      BY <1>7, <2>3
    <3>2. n = a + (i - m)
      BY <1>9, <2>1, <3>1
    <3>3. n \in a + 1 .. c
      BY <1>7, <1>8, <3>1, <3>2
    <3> QED
      BY <3>3 DEF Full
  <2> QED
    BY <1>7, <2>2, <2>3
<1>12. ASSUME NEW n \in places, n <= c PROVE n \in Range(dx)
  <2>1. n \in Nat
    OBVIOUS
  <2>2. CASE n <= b
    <3>1. PICK i \in 1 .. m : d[i] = n
      BY <1>4, <2>2
    <3>2. i \in DOMAIN dx /\ dx[i] = n
      BY <1>7, <1>8, <3>1
    <3> QED
      BY <3>2 DEF Range
  <2>3. CASE n > b
    <3>1. n > a
      BY <2>1, <2>3 DEF Bare
    <3> DEFINE i == n - a
    <3>2. i \in 1 .. l /\ n = a + i
      BY <1>8, <1>12, <2>1, <3>1
    <3> HIDE DEF i
    <3>3. m + i \in DOMAIN dx /\ dx[m + i] = n
      BY <1>7, <1>8, <3>2
    <3> QED
      BY <3>3 DEF Range
  <2> QED
    BY <2>1, <2>2, <2>3
<1>13. Range(dx) = {n \in places : n <= c}
  BY <1>11, <1>12
<1>14. InOrder(dx, places, c)
  BY <1>6, <1>10, <1>13 DEF InOrder
<1> QED
  BY <1>14 DEF dx, x

\* Where no content is, nothing is left out.
LEMMA InOrderSkip ==
  ASSUME NEW places, NEW d, NEW b \in Nat, NEW c \in Nat,
         places \subseteq Nat, InOrder(d, places, b), b <= c,
         Bare(places, b, c)
  PROVE  InOrder(d, places, c)
<1>1. \A n \in places : n <= b <=> n <= c
  <2> TAKE n \in places
  <2>1. n \in Nat
    OBVIOUS
  <2>2. n \notin b + 1 .. c
    BY DEF Bare
  <2> QED
    BY <2>1, <2>2
<1> QED
  BY <1>1 DEF InOrder

\* The last place is a bound, too.
LEMMA InOrderReach ==
  ASSUME NEW places, NEW d, NEW b \in Nat,
         places \subseteq Nat \ {0}, InOrder(d, places, b)
  PROVE  LET reach == IF d = <<>> THEN 0 ELSE d[Len(d)]
         IN \A n : n \in Range(d) <=> n \in places /\ n <= reach
<1> DEFINE reach == IF d = <<>> THEN 0 ELSE d[Len(d)]
<1> SUFFICES Range(d) = {n \in places : n <= reach}
  OBVIOUS
<1> HIDE DEF reach
<1>1. /\ d \in Seq(Nat) /\ \A i, j \in DOMAIN d : i < j => d[i] < d[j]
      /\ Range(d) = {n \in places : n <= b}
  BY DEF InOrder
<1>2. CASE d = <<>>
  <2>1. Range(d) = {}
    BY <1>2 DEF Range
  <2>2. \A n \in places : ~(n <= 0)
    <3>1. \A n \in Nat \ {0} : ~(n <= 0)
      OBVIOUS
    <3> QED
      BY <3>1
  <2> QED
    BY <1>2, <2>1, <2>2 DEF reach
<1>3. CASE d # <<>>
  <2>1. Len(d) \in Nat \ {0} /\ DOMAIN d = 1 .. Len(d) /\ \A i \in 1 .. Len(d) : d[i] \in Nat
    BY <1>1, <1>3, EmptySeq
  <2>2. reach = d[Len(d)] /\ Len(d) \in DOMAIN d
    BY <1>3, <2>1 DEF reach
  <2>3. reach \in places /\ reach <= b
    <3>1. reach \in Range(d)
      BY <2>2 DEF Range
    <3> QED
      BY <1>1, <3>1
  <2>4. \A n \in Range(d) : n <= reach
    <3> TAKE n \in Range(d)
    <3>1. PICK i \in 1 .. Len(d) : d[i] = n
      BY <2>1 DEF Range
    <3>2. n \in Nat /\ reach \in Nat
      BY <2>1, <2>2, <3>1
    <3>3. CASE i = Len(d)
      BY <2>2, <3>1, <3>2, <3>3
    <3>4. CASE i < Len(d)
      <4>1. i \in DOMAIN d /\ Len(d) \in DOMAIN d
        BY <2>1
      <4>2. d[i] < d[Len(d)]
        BY <1>1, <3>4, <4>1
      <4> QED
        BY <2>2, <3>1, <3>2, <4>2
    <3>5. Len(d) \in Nat /\ i \in 1 .. Len(d)
      BY <2>1
    <3>6. i = Len(d) \/ i < Len(d)
      BY ONLY <3>5
    <3> QED
      BY <3>3, <3>4, <3>6
  <2>5. \A n \in places : n <= reach => n <= b
    <3>1. \A n \in places : n \in Nat
      OBVIOUS
    <3>2. reach \in Nat
      BY <2>3
    <3> QED
      BY <2>3, <3>1, <3>2
  <2> QED
    BY <1>1, <2>4, <2>5
<1> QED
  BY <1>2, <1>3

\* Content is not in the header.
LEMMA PlacesHead ==
  ASSUME NEW r \in Responses
  PROVE  /\ Places(r) \subseteq Nat \ {0}
         /\ Bare(Places(r), 0, iHeaderSize)
<1> DEFINE s == Stream(r)
<1>1. s \in Seq(Tokens) /\ s[1] = Token("header", 0) /\ s[2] = Token("empty line", 0)
  BY StreamHead
<1>2. ~s[1].content /\ ~s[2].content
  BY <1>1, ContentOf, Zenon
<1>3. DOMAIN s \subseteq Nat \ {0}
  <2>1. s \in Seq(Tokens)
    BY <1>1
  <2> HIDE DEF s
  <2> QED
    BY <2>1
<1>4. 1 \notin Places(r) /\ 2 \notin Places(r)
  BY <1>2, Zenon DEF Places
<1>5. Places(r) \subseteq DOMAIN s
  BY Zenon DEF Places
<1> HIDE DEF s
<1>6. \A n \in 0 + 1 .. iHeaderSize : n = 1 \/ n = 2
  BY DEF iHeaderSize
<1> QED
  BY <1>3, <1>4, <1>5, <1>6 DEF Bare

\* Nothing of the response is content before its header is over.
LEMMA NothingIsInOrder ==
  ASSUME NEW r \in Responses
  PROVE  InOrder(<<>>, Places(r), iHeaderSize)
<1>1. Bare(Places(r), 0, iHeaderSize) /\ Places(r) \subseteq Nat \ {0}
  BY PlacesHead
<1>2. \A n \in Nat \ {0} : n \in 0 + 1 .. iHeaderSize \/ ~(n <= iHeaderSize)
  BY DEF iHeaderSize
<1>3. {n \in Places(r) : n <= iHeaderSize} = {}
  BY <1>1, <1>2, Zenon DEF Bare
<1>4. <<>> \in Seq(Nat) /\ DOMAIN <<>> = {} /\ Range(<<>>) = {}
  BY DEF Range
<1> QED
  BY <1>3, <1>4 DEF InOrder

\* Content is behind the header if there are no chunks,
LEMMA PlacesPlain ==
  ASSUME NEW r \in Responses, r.mode # "chunked"
  PROVE  Full(Places(r), iHeaderSize, Len(Stream(r)))
<1> DEFINE s == Stream(r)
<1>1. s \in Seq(Tokens) /\ \A n \in 3 .. Len(s) : s[n] \in Contents
  BY PlainStream
<1>2. \A n \in 3 .. Len(s) : n \in DOMAIN s
  <2>1. s \in Seq(Tokens)
    BY <1>1
  <2> HIDE DEF s
  <2> QED
    BY <2>1
<1>3. \A n \in 3 .. Len(s) : s[n].content
  BY <1>1, ContentOf, Zenon
<1>4. \A n \in 3 .. Len(s) : n \in Places(r)
  BY <1>2, <1>3, Zenon DEF Places
<1> HIDE DEF s
<1> QED
  BY <1>4 DEF iHeaderSize, s, Full

\* in the first tokens of a chunk, in its content and at its end.
LEMMA PlacesChunk ==
  ASSUME NEW r \in Responses, NEW from \in Nat, NEW length \in Nat, NEW to,
         ChunkAt(Stream(r), from, length, to)
  PROVE  /\ Bare(Places(r), from, from + 2)
         /\ Full(Places(r), from + 2, from + 2 + length)
         /\ Bare(Places(r), from + 2 + length, to)
<1> DEFINE s == Stream(r)
           a == from + 1
           b == from + 2
<1>1. s \in Seq(Tokens)
  BY StreamHead
<1>2. /\ to = from + length + 3 /\ to <= Len(s)
      /\ s[a] = Token("size", length) /\ s[b] = Token("crlf", 0) /\ s[to] = Token("crlf", 0)
      /\ \A n \in 1 .. length : s[from + 2 + n] \in Contents
  BY DEF ChunkAt
<1> HIDE DEF s
<1>3. a \notin Places(r) /\ b \notin Places(r) /\ to \notin Places(r)
  <2> HIDE DEF a, b
  <2>1. ~s[a].content /\ ~s[b].content /\ ~s[to].content
    BY <1>2, ContentOf, Zenon
  <2> QED
    BY <2>1, Zenon DEF Places, s
<1>4. ASSUME NEW n \in from + 2 + 1 .. from + 2 + length PROVE n \in Places(r)
  <2> DEFINE i == n - (from + 2)
  <2>1. i \in 1 .. length /\ n = from + 2 + i
    OBVIOUS
  <2> HIDE DEF i
  <2>2. s[n] \in Contents
    BY <1>2, <2>1
  <2>3. n \in DOMAIN s
    <3>1. Len(s) \in Nat /\ DOMAIN s = 1 .. Len(s)
      BY <1>1
    <3> QED
      BY <1>2, <3>1
  <2>4. s[n].content
    BY <2>2, ContentOf, Zenon
  <2> QED
    BY <2>3, <2>4, Zenon DEF Places, s
<1>5. \A n \in from + 1 .. from + 2 : n = a \/ n = b
  OBVIOUS
<1>6. \A n \in from + 2 + length + 1 .. to : n = to
  BY <1>2
<1> QED
  BY <1>3, <1>4, <1>5, <1>6 DEF Bare, Full

\* What a chunk's place is.
LEMMA LaidAt ==
  ASSUME HttpTypes, NEW p, NEW e, Laid(response, p, e), NEW k \in 0 .. Chunks(response)
  PROVE  /\ p[k] \in Nat /\ e[k] \in Nat /\ Chunks(response) \in Nat
         /\ k = Chunks(response) => EndAt(Stream(response), p[k])
         /\ k < Chunks(response) =>
              /\ k + 1 \in 0 .. Chunks(response)
              /\ Len(response.chunks[k + 1]) \in Nat \ {0}
              /\ ChunkAt(Stream(response), p[k], Len(response.chunks[k + 1]), p[k + 1])
              /\ e[k + 1] = e[k] + Len(response.chunks[k + 1])
<1> DEFINE m == Chunks(response)
           q == k + 1
<1>1. /\ m \in Nat
      /\ \A n \in 1 .. m : Len(response.chunks[n]) \in Nat \ {0}
  BY ChunkType DEF HttpTypes
<1>2. /\ p \in [0 .. m -> Nat] /\ e \in [0 .. m -> Nat]
      /\ \A n \in 1 .. m : /\ ChunkAt(Stream(response), p[n - 1], Len(response.chunks[n]), p[n])
                           /\ e[n] = e[n - 1] + Len(response.chunks[n])
      /\ EndAt(Stream(response), p[m])
  BY DEF Laid
<1>3. p[k] \in Nat /\ e[k] \in Nat
  BY <1>2
<1>4. k = m => EndAt(Stream(response), p[k])
  BY <1>2
<1>5. ASSUME k < m
      PROVE  /\ q \in 0 .. m
             /\ Len(response.chunks[q]) \in Nat \ {0}
             /\ ChunkAt(Stream(response), p[k], Len(response.chunks[q]), p[q])
             /\ e[q] = e[k] + Len(response.chunks[q])
  <2>1. q \in 1 .. m /\ q - 1 = k /\ q \in 0 .. m
    BY <1>1, <1>5
  <2> HIDE DEF q, m
  <2>2. /\ ChunkAt(Stream(response), p[q - 1], Len(response.chunks[q]), p[q])
        /\ e[q] = e[q - 1] + Len(response.chunks[q])
    BY <1>2, <2>1
  <2> QED
    BY <1>1, <2>1, <2>2
<1> QED
  BY <1>1, <1>3, <1>4, <1>5

\* The line with the size of a chunk, once it is there.
LEMMA SizeLineIs ==
  ASSUME HttpTypes, NEW from \in Nat, NEW size \in Nat,
         Stream(response)[from + 1] = Token("size", size),
         Stream(response)[from + 2] = Token("crlf", 0),
         NEW end, end = Behind("crlf", from), end # 0
  PROVE  /\ end = from + 2
         /\ receivedData[from + 1].size = size
<1> DEFINE s == Stream(response)
           a == from + 1
           b == from + 2
<1>0. PICK kind : kind = "crlf"
  BY Zenon
<1>1. received \in Nat
  BY LengthsAre
<1>2. s[a] = Token("size", size) /\ s[b] = Token("crlf", 0)
  OBVIOUS
<1>3. s[a].kind # kind
  <2>1. Token("size", size).kind # "crlf"
    BY DEF Token
  <2> QED
    BY <1>0, <1>2, <2>1, Zenon
<1>4. s[b].kind = kind
  BY <1>0, <1>2, KindsOf, Zenon
<1>5. /\ end \in from + 1 .. received /\ s[end].kind = kind
      /\ \A n \in from + 1 .. end - 1 : s[n].kind # kind
  BY <1>0, BehindIs, Zenon
<1> HIDE DEF s
<1>6. end # a
  BY <1>3, <1>5, Zenon
<1>7. b \notin a .. end - 1
  BY <1>4, <1>5, Zenon
<1>8. from \in Nat
  OBVIOUS
<1>9. end = b /\ a \in 1 .. received
  BY ONLY <1>1, <1>5, <1>6, <1>7, <1>8
<1>10. receivedData[a] = s[a]
  BY <1>9, ReceivedIs, Zenon DEF s
<1>11. receivedData[a].size = size
  <2>1. Token("size", size).size = size
    BY DEF Token
  <2> QED
    BY <1>2, <1>10, <2>1, Zenon
<1> QED
  BY <1>9, <1>11, Zenon

\* Chunks.
LEMMA ChunksKept ==
  ASSUME HttpTypes, Threads, HeaderKnown, ChunksSent, HttpStep
  PROVE  ChunksSent'
<1>1. CASE (\E r \in Responses : Connect(r)) \/ ConnectFails
  BY <1>1 DEF ChunksSent, Connect, ConnectFails, Request, reset
<1>2. CASE UNCHANGED <<response, bHeaderParsed, chunkPos, iChunkScanLastSize, delivered>>
  BY <1>2 DEF ChunksSent, ChunkState
<1>3. CASE Start \/ sendGet \/ GetReturn \/ GoesOn \/ Close \/ UNCHANGED httpVars
  BY <1>2, <1>3 DEF Start, sendGet, GetReturn, GoesOn, Close, httpVars, userOnly, serverVars,
                    scanVars
<1>4. CASE ConnTest \/ ReceiveNothing \/ ReceiveFails \/ newMessageReceived
  BY <1>2, <1>4 DEF ConnTest, ReceiveNothing, ReceiveFails, newMessageReceived, ConnGoto,
                    serverVars, scanVars
<1>5. ASSUME NEW n \in Offsets, ReceiveMessage(n) \/ Send(n) PROVE ChunksSent'
  BY <1>2, <1>5 DEF ReceiveMessage, Send, ConnGoto, serverVars, scanVars
<1>6. CASE ClientTest \/ Execute \/ LengthLock \/ LengthStop \/ LengthStopped
  BY <1>2, <1>6 DEF ClientTest, Execute, LengthLock, LengthStop, LengthStopped, ClientGoto,
                    serverVars, scanVars
<1>7. CASE ChunkedStop \/ ChunkedStopped \/ Done
  BY <1>2, <1>7 DEF ChunkedStop, ChunkedStopped, Done, ClientGoto, serverVars, scanVars
<1>8. CASE LengthSend
  <2>1. client = "length send" /\ UNCHANGED <<response>>
    BY <1>8 DEF LengthSend, ClientGoto, serverVars
  <2>2. response.mode # "chunked"
    BY <2>1 DEF HeaderKnown
  <2> QED
    BY <2>1, <2>2 DEF ChunksSent
<1>9. CASE parseReceivedData
  <2>1. UNCHANGED <<response, bHeaderParsed>>
    BY <1>9 DEF parseReceivedData, SendOn, ClientGoto, serverVars, scanVars
  <2>2. CASE bHeaderParsed /\ response.mode = "chunked"
    <3>1. chunked
      BY <2>2 DEF HeaderKnown
    <3>2. UNCHANGED <<delivered, scanVars>>
      BY <1>9, <3>1 DEF parseReceivedData
    <3> QED
      BY <1>2, <2>1, <3>2 DEF scanVars
  <2>3. CASE ~(bHeaderParsed /\ response.mode = "chunked")
    BY <2>1, <2>3 DEF ChunksSent
  <2> QED
    BY <2>2, <2>3
<1>10. CASE locateAndParseHeader
  <2> DEFINE end == Behind("empty line", 0)
  <2>1. client = "header" /\ UNCHANGED <<response, delivered, iChunkScanLastSize>>
    BY <1>10 DEF locateAndParseHeader, ClientGoto, serverVars, scanVars
  <2>2. ~bHeaderParsed /\ delivered = <<>> /\ iChunkScanLastSize = None
    BY <2>1 DEF HeaderKnown
  <2>3. CASE end = 0
    <3>1. UNCHANGED bHeaderParsed
      BY <1>10, <2>3 DEF locateAndParseHeader, scanVars
    <3> QED
      BY <2>2, <3>1 DEF ChunksSent
  <2>4. CASE end # 0
    <3>1. chunkPos' = iHeaderSize
      <4>1. chunkPos' = end
        BY <1>10, <2>4 DEF locateAndParseHeader
      <4>2. end = iHeaderSize
        BY <2>4, EmptyLineIs
      <4> QED
        BY <4>1, <4>2
    <3>2. ASSUME NEW p, NEW e, Laid(response, p, e)
          PROVE  0 \in 0 .. Chunks(response) /\ ChunkState(p, e, 0)'
      <4>1. p[0] = iHeaderSize /\ e[0] = 0 /\ Chunks(response) \in Nat
        BY <3>2, ChunkType DEF HttpTypes, Laid
      <4>2. InOrder(<<>>, Places(response), iHeaderSize)
        BY NothingIsInOrder DEF HttpTypes
      <4>3. /\ delivered' = <<>> /\ iChunkScanLastSize' = None /\ chunkPos' = p[0]
            /\ response' = response
        BY <2>1, <2>2, <3>1, <4>1
      <4>4. InOrder(delivered', Places(response'), p[0]) /\ Len(delivered') = e[0]
        BY <4>1, <4>2, <4>3
      <4> QED
        BY <4>1, <4>3, <4>4 DEF ChunkState
    <3>3. Chunks(response)' = Chunks(response)
      BY <2>1 DEF Chunks
    <3> QED
      BY <2>1, <3>2, <3>3 DEF ChunksSent
  <2> QED
    BY <2>3, <2>4
<1>11. CASE ChunkSize \/ ChunkData
  <2>1. client = "chunk" /\ UNCHANGED <<response, bHeaderParsed>>
    BY <1>11 DEF ChunkSize, ChunkData, ClientGoto, serverVars, scanVars
  <2>2. bHeaderParsed /\ response.mode = "chunked" /\ iChunkScanLastSize # 0
    BY <2>1 DEF HeaderKnown
  <2> SUFFICES ASSUME NEW p, NEW e, Laid(response, p, e)
               PROVE  \E k \in 0 .. Chunks(response) : ChunkState(p, e, k)'
    BY <2>1 DEF ChunksSent, Chunks
  <2>3. PICK k \in 0 .. Chunks(response) : ChunkState(p, e, k)
    BY <2>2 DEF ChunksSent
  <2> DEFINE m == Chunks(response)
             q == k + 1
             l == Len(response.chunks[q])
             places == Places(response)
  <2>4. /\ p[k] \in Nat /\ e[k] \in Nat /\ m \in Nat
        /\ k = m => EndAt(Stream(response), p[k])
        /\ k < m => /\ q \in 0 .. m /\ l \in Nat \ {0}
                    /\ ChunkAt(Stream(response), p[k], l, p[q])
                    /\ e[q] = e[k] + l
    BY LaidAt
  <2>5. /\ InOrder(delivered, places, p[k]) /\ Len(delivered) = e[k]
        /\ \/ iChunkScanLastSize = None /\ chunkPos = p[k]
           \/ iChunkScanLastSize = 0 /\ k = m
           \/ k < m /\ iChunkScanLastSize = l /\ chunkPos = p[k] + 2
    BY <2>3 DEF ChunkState
  <2>6. CASE UNCHANGED <<delivered, scanVars>>
    BY <2>1, <2>3, <2>6 DEF ChunkState, scanVars
  <2>7. ASSUME ChunkSize, ~UNCHANGED scanVars
        PROVE  ChunkState(p, e, k)'
    <3> DEFINE end == Behind("crlf", chunkPos)
               size == receivedData[chunkPos + 1].size
    <3>1. /\ iChunkScanLastSize = None /\ end # 0
          /\ iChunkScanLastSize' = size /\ chunkPos' = end /\ UNCHANGED delivered
      BY <2>7 DEF ChunkSize
    <3>2. chunkPos = p[k]
      BY <2>4, <2>5, <3>1 DEF None
    <3>3. CASE k = m
      <4>1. EndAt(Stream(response), p[k])
        BY <2>4, <3>3
      <4>2. end = p[k] + 2 /\ size = 0
        BY <2>4, <3>1, <3>2, <4>1, SizeLineIs DEF EndAt
      <4> HIDE DEF end, size
      <4> QED
        BY <2>1, <2>5, <3>1, <3>3, <4>2 DEF ChunkState, Chunks
    <3>4. CASE k < m
      <4>1. ChunkAt(Stream(response), p[k], l, p[q]) /\ l \in Nat
        BY <2>4, <3>4
      <4>2. end = p[k] + 2 /\ size = l
        <5>1. /\ Stream(response)[p[k] + 1] = Token("size", l)
              /\ Stream(response)[p[k] + 2] = Token("crlf", 0)
          BY <4>1 DEF ChunkAt
        <5>2. p[k] \in Nat /\ l \in Nat /\ end # 0
          BY <2>4, <3>1, <4>1
        <5> HIDE DEF l
        <5> QED
          BY <3>2, <5>1, <5>2, SizeLineIs
      <4> HIDE DEF end, size
      <4> QED
        BY <2>1, <2>5, <3>1, <3>4, <4>2 DEF ChunkState, Chunks
    <3>5. k = m \/ k < m
      BY <2>4
    <3> QED
      BY <3>3, <3>4, <3>5
  <2>8. ASSUME ChunkData, ~UNCHANGED <<delivered, scanVars>>
        PROVE  k < m /\ ChunkState(p, e, q)'
    <3>1. /\ iChunkScanLastSize # None
          /\ delivered' = delivered \o Copy(chunkPos, chunkPos + iChunkScanLastSize)
          /\ chunkPos' = chunkPos + iChunkScanLastSize + 1 /\ iChunkScanLastSize' = None
      BY <2>8 DEF ChunkData, AfterChunk, Crlf
    <3>2. k < m /\ iChunkScanLastSize = l /\ chunkPos = p[k] + 2
      BY <2>2, <2>5, <3>1
    <3> DEFINE a == p[k] + 2
               c == a + l
    <3>3. l \in Nat /\ ChunkAt(Stream(response), p[k], l, p[q]) /\ e[q] = e[k] + l /\ q \in 0 .. m
      BY <2>4, <3>2
    <3>4. Bare(places, p[k], a) /\ Full(places, a, c) /\ Bare(places, c, p[q])
      BY <2>4, <3>3, PlacesChunk DEF HttpTypes
    <3>0. p[k] \in Nat
      BY <2>4
    <3>5. p[q] = c + 1
      <4> HIDE DEF l, q
      <4>1. p[q] = p[k] + l + 3
        BY <3>3 DEF ChunkAt
      <4> QED
        BY ONLY <3>0, <3>3, <4>1
    <3>6. places \subseteq Nat
      BY PlacesHead DEF HttpTypes
    <3> HIDE DEF places, q, m
    <3>7. a \in Nat /\ c \in Nat /\ p[k] <= a /\ a <= c /\ c <= p[q] /\ p[q] \in Nat /\ c - a = l
      <4>1. l \in Nat
        BY <3>3
      <4> HIDE DEF l
      <4> QED
        BY ONLY <3>0, <3>5, <4>1
    <3>8. delivered' = delivered \o Copy(a, c) /\ chunkPos' = p[q]
      BY <3>1, <3>2, <3>5
    <3> HIDE DEF a, c, l
    <3>9. InOrder(delivered', places, c) /\ Len(delivered') = Len(delivered) + (c - a)
      <4> DEFINE b == p[k]
                 d == delivered
                 dx == d \o Copy(a, c)
      <4>1. b \in Nat /\ a \in Nat /\ c \in Nat /\ places \subseteq Nat /\ b <= a /\ a <= c
        BY <3>0, <3>6, <3>7
      <4>2. InOrder(d, places, b)
        BY <2>5 DEF places
      <4>3. Bare(places, b, a)
        BY <3>4
      <4>4. Full(places, a, c)
        BY <3>4
      <4>5. delivered' = dx
        BY <3>8
      <4> HIDE DEF b, d
      <4>6. InOrder(dx, places, c)
        BY ONLY <4>1, <4>2, <4>3, <4>4, InOrderMore
      <4>7. d \in Seq(Nat) /\ Copy(a, c) \in Seq(Nat) /\ Len(Copy(a, c)) = c - a
        BY <4>1, <4>2, CopyIs DEF InOrder
      <4>8. Len(dx) = Len(d) + (c - a)
        BY <4>7, Joined
      <4> QED
        BY <4>5, <4>6, <4>8 DEF d
    <3>10. InOrder(delivered', places, p[q])
      BY <3>4, <3>6, <3>7, <3>9, InOrderSkip
    <3>11. Len(delivered') = e[q]
      BY <2>5, <3>3, <3>7, <3>9
    <3>12. places = Places(response')
      BY <2>1 DEF places
    <3> QED
      BY <3>1, <3>2, <3>8, <3>10, <3>11, <3>12 DEF ChunkState
  <2>9. CASE ChunkSize
    <3>1. UNCHANGED delivered
      BY <2>9 DEF ChunkSize
    <3> QED
      BY <2>6, <2>7, <2>9, <3>1
  <2>10. CASE ChunkData
    BY <2>4, <2>6, <2>8, <2>10
  <2> QED
    BY <1>11, <2>9, <2>10
<1> QED
  BY <1>1, <1>3, <1>4, <1>5, <1>6, <1>7, <1>8, <1>9, <1>10, <1>11 DEF HttpStep

(***************************************************************************)
(* The theorems.                                                           *)
(***************************************************************************)
\* Before the first request nothing is known of any response.
LEMMA HttpInitHolds ==
  ASSUME DownloaderInit
  PROVE  HttpInv
<1>1. Len(Stream(response)) \in Nat /\ response \in Responses
  <2>1. response \in Responses
    BY DEF DownloaderInit, HttpInit
  <2>2. Stream(response) \in Seq(Tokens)
    BY <2>1, StreamHead
  <2> QED
    BY <2>1, <2>2
<1>2. HttpTypes
  BY <1>1 DEF DownloaderInit, HttpInit, HttpTypes, None
<1>3. Threads /\ HeaderKnown /\ PlainSent /\ ChunksSent /\ StopsWhenDone
  BY DEF DownloaderInit, HttpInit, Threads, HeaderKnown, PlainSent, ChunksSent, StopsWhenDone
<1> QED
  BY <1>2, <1>3 DEF HttpInv

\* The invariant: the types, which thread runs when, and what onContent has
\* had for every state of the scan.
THEOREM HttpCorrect == DownloaderSpec => []HttpInv
<1>1. DownloaderInit => HttpInv
  BY HttpInitHolds
<1>2. HttpInv /\ [DownloaderNext]_dlVars => HttpInv'
  <2> SUFFICES ASSUME HttpInv, [DownloaderNext]_dlVars
               PROVE  HttpInv'
    OBVIOUS
  <2>1. HttpStep
    BY DownloaderSteps
  <2>2. HttpTypes /\ Threads /\ HeaderKnown /\ PlainSent /\ ChunksSent /\ StopsWhenDone
    BY DEF HttpInv
  <2>3. HttpTypes' /\ Threads' /\ HeaderKnown'
    BY <2>1, <2>2, TypesKept, ThreadsKept, HeaderKept
  <2>4. PlainSent' /\ ChunksSent' /\ StopsWhenDone'
    BY <2>1, <2>2, PlainKept, ChunksKept, StopsKept
  <2> QED
    BY <2>3, <2>4 DEF HttpInv
<1> QED
  BY <1>1, <1>2, PTL DEF DownloaderSpec

\* A copy from the end of the header is all content up to its end.
LEMMA CopyIsInOrder ==
  ASSUME NEW r \in Responses, r.mode # "chunked",
         NEW to \in Nat, iHeaderSize <= to, to <= Len(Stream(r))
  PROVE  InOrder(Copy(iHeaderSize, to), Places(r), to)
<1> DEFINE places == Places(r)
           b == iHeaderSize
           n == Len(Stream(r))
           x == Copy(b, to)
<1>1. b \in Nat /\ places \subseteq Nat /\ b <= b /\ b <= to /\ InOrder(<<>>, places, b)
  BY NothingIsInOrder, PlacesHead DEF iHeaderSize
<1>2. Bare(places, b, b)
  BY <1>1 DEF Bare
<1>3. n \in Nat
  <2>1. Stream(r) \in Seq(Tokens)
    BY StreamHead
  <2> QED
    BY <2>1
<1>4. Full(places, b, n)
  BY PlacesPlain
<1>5. to \in Nat /\ to <= n
  OBVIOUS
<1> HIDE DEF places, n, b
<1>6. Full(places, b, to)
  BY <1>1, <1>3, <1>4, <1>5 DEF Full
<1>7. InOrder(<<>> \o x, places, to)
  BY ONLY <1>1, <1>2, <1>5, <1>6, InOrderMore
<1>8. <<>> \o x = x
  <2>1. x \in Seq(Nat)
    BY <1>1, <1>5, CopyIs
  <2> HIDE DEF x
  <2> QED
    BY <2>1, ConcatEmptySeq
<1> QED
  BY <1>7, <1>8 DEF x, b, places

\* At any time onContent has had all content up to some place, in order.
LEMMA ContentUpTo ==
  ASSUME HttpInv
  PROVE  \E b \in Nat : InOrder(delivered, Places(response), b)
<1>0. HttpTypes /\ HeaderKnown /\ PlainSent /\ ChunksSent /\ response \in Responses
  BY DEF HttpInv, HttpTypes
<1>1. received \in Nat /\ received <= Len(Stream(response)) /\ lastSend \in Nat
  BY <1>0, LengthsAre DEF HttpTypes
<1>2. iHeaderSize \in Nat
  BY DEF iHeaderSize
<1>3. CASE delivered = <<>>
  BY <1>0, <1>2, <1>3, NothingIsInOrder
<1>4. CASE bHeaderParsed /\ response.mode = "length"
  <2>1. iHeaderSize <= lastSend /\ lastSend <= received /\ delivered = Copy(iHeaderSize, lastSend)
    BY <1>0, <1>4 DEF PlainSent
  <2>2. lastSend <= Len(Stream(response))
    BY <1>0, <1>1, <2>1, LengthsAre
  <2> QED
    BY <1>0, <1>1, <1>4, <2>1, <2>2, CopyIsInOrder
<1>5. CASE bHeaderParsed /\ response.mode = "close" /\ delivered # <<>>
  <2>1. delivered = Copy(iHeaderSize, received) /\ iHeaderSize <= received
    BY <1>0, <1>5 DEF PlainSent, HeaderKnown
  <2> QED
    BY <1>0, <1>1, <1>5, <2>1, CopyIsInOrder
<1>6. CASE bHeaderParsed /\ response.mode = "chunked"
  <2>1. PICK p, e : Laid(response, p, e)
    BY <1>0, <1>6, LaidExists
  <2>2. PICK k \in 0 .. Chunks(response) : ChunkState(p, e, k)
    BY <1>0, <1>6, <2>1 DEF ChunksSent
  <2>3. p[k] \in Nat
    BY <1>0, <2>1, LaidAt
  <2> QED
    BY <2>2, <2>3 DEF ChunkState
<1>7. response.mode \in {"length", "chunked", "close"}
  BY <1>0, ChunkType
<1> QED
  BY <1>0, <1>3, <1>4, <1>5, <1>6, <1>7 DEF HeaderKnown

\* In order and up to any place is in order and up to the last one delivered.
LEMMA InOrderIs ==
  ASSUME HttpInv
  PROVE  /\ \A i, j \in DOMAIN delivered : i < j => delivered[i] < delivered[j]
         /\ Range(delivered) = {n \in Offsets : n <= Reach /\ Stream(response)[n].content}
<1> DEFINE places == Places(response)
<1>1. PICK b \in Nat : InOrder(delivered, places, b)
  BY ContentUpTo
<1>2. places \subseteq Nat \ {0}
  BY PlacesHead DEF HttpInv, HttpTypes
<1>3. {n \in Offsets : n <= Reach /\ Stream(response)[n].content} = {n \in places : n <= Reach}
  BY Zenon DEF Places, Offsets
<1> HIDE DEF places
<1>4. Range(delivered) = {n \in places : n <= Reach}
  <2>1. \A n : n \in Range(delivered) <=> n \in places /\ n <= Reach
    BY <1>1, <1>2, InOrderReach, Zenon DEF Reach
  <2> QED
    BY <2>1
<1>5. \A i, j \in DOMAIN delivered : i < j => delivered[i] < delivered[j]
  BY <1>1 DEF InOrder
<1> QED
  BY <1>3, <1>4, <1>5

\* A client that is done has handed on all it received, and all there is if the
\* server did not close the connection.
LEMMA DoneIs ==
  ASSUME HttpInv, status = "done"
  PROVE  /\ bHeaderParsed /\ ~chunked => delivered = Copy(iHeaderSize, received)
         /\ ~closed => Len(delivered) >= Len(Entity(response))
<1>0. HttpTypes /\ Threads /\ HeaderKnown /\ PlainSent /\ ChunksSent /\ StopsWhenDone
  BY DEF HttpInv
<1>1. /\ response.mode \in {"length", "chunked", "close"}
      /\ received \in Nat /\ Len(Entity(response)) \in Nat
  BY <1>0, ChunkType, LengthsAre DEF HttpTypes
<1>2. AtEnd
  BY DEF AtEnd
<1>3. ASSUME bHeaderParsed, response.mode # "chunked"
      PROVE  delivered = Copy(iHeaderSize, received) /\ iHeaderSize <= received
  BY <1>0, <1>1, <1>2, <1>3 DEF PlainSent, HeaderKnown
<1>4. ASSUME ~closed
      PROVE  Len(delivered) >= Len(Entity(response))
  <2>1. connStop /\ status # "error"
    BY <1>0, <1>4 DEF Threads
  <2>2. /\ bHeaderParsed /\ response.mode # "close"
        /\ response.mode = "length" => received - iHeaderSize >= Len(Entity(response))
        /\ response.mode = "chunked" => iChunkScanLastSize = 0
    BY <1>0, <1>4, <2>1 DEF StopsWhenDone
  <2>3. CASE response.mode = "length"
    <3>1. Len(Copy(iHeaderSize, received)) = received - iHeaderSize
      BY <1>1, <1>3, <2>2, <2>3, CopyIs DEF iHeaderSize
    <3> QED
      BY <1>3, <2>2, <2>3, <3>1
  <2>4. CASE response.mode = "chunked"
    <3>1. PICK p, e : Laid(response, p, e)
      BY <1>0, <2>4, LaidExists DEF HttpTypes
    <3>2. PICK k \in 0 .. Chunks(response) : ChunkState(p, e, k)
      BY <1>0, <2>2, <2>4, <3>1 DEF ChunksSent
    <3>3. ~(k < Chunks(response) /\ iChunkScanLastSize = Len(response.chunks[k + 1]))
      BY <1>0, <2>2, <2>4, <3>1, LaidAt
    <3>4. k = Chunks(response)
      BY <2>2, <2>4, <3>2, <3>3 DEF ChunkState, None
    <3>5. Len(delivered) = Len(Entity(response))
      BY <3>1, <3>2, <3>4 DEF ChunkState, Laid
    <3> QED
      BY <1>1, <3>5
  <2> QED
    BY <1>1, <2>2, <2>3, <2>4
<1>5. bHeaderParsed => chunked = (response.mode = "chunked")
  BY <1>0 DEF HeaderKnown
<1> QED
  BY <1>3, <1>4, <1>5

\* DeliveredInOrder: however a response is cut into messages, onContent gets its
\* content piece by piece in order, and with JRHTTPSTATUS_DONE all of it unless
\* the server closed the connection.
THEOREM ContentInOrder == DownloaderSpec => []DeliveredInOrder
<1>1. HttpInv => DeliveredInOrder
  BY InOrderIs, DoneIs DEF DeliveredInOrder
<1> QED
  BY <1>1, HttpCorrect, PTL

(***************************************************************************)
(* The file.                                                               *)
(***************************************************************************)
\* What onContent got is in the file or in the pieces to write, and nothing is
\* left to write when the user goes on.
FileKnown ==
  /\ file \in Seq(Nat) /\ pieces \in Seq(Seq(Nat))
  /\ delivered = file \o FlattenSeq(pieces)
  /\ user = "idle" => waiting = "no" /\ pieces = <<>> /\ client = "done"
  /\ waiting # "no" => user = "back" /\ client = "done"
  /\ waiting = "stop" => pieces = <<>>

\* Three pieces may be joined from either end.
LEMMA Regroup ==
  ASSUME NEW a \in Seq(Nat), NEW b \in Seq(Nat), NEW c \in Seq(Nat)
  PROVE  (a \o b) \o c = a \o (b \o c)
<1>1. PICK U : U = Nat
  OBVIOUS
<1>2. a \in Seq(U) /\ b \in Seq(U) /\ c \in Seq(U)
  BY <1>1
<1> QED
  BY ONLY <1>2, ConcatAssociative

\* The client puts content behind what onContent had.
LEMMA ClientAdds ==
  ASSUME HttpInv, Client
  PROVE  \E x \in Seq(Nat) : delivered' = delivered \o x
<1>0. HttpTypes /\ HeaderKnown /\ delivered \in Seq(Nat)
  BY DEF HttpInv, HttpTypes
<1>1. CASE UNCHANGED delivered
  <2>1. <<>> \in Seq(Nat) /\ delivered = delivered \o <<>>
    BY <1>0, ConcatEmptySeq
  <2> QED
    BY <1>1, <2>1
<1>2. CASE ClientTest \/ Execute \/ locateAndParseHeader \/ LengthLock \/ LengthStop \/ LengthStopped
  BY <1>1, <1>2 DEF ClientTest, Execute, locateAndParseHeader, LengthLock, LengthStop, LengthStopped
<1>3. CASE ChunkSize \/ ChunkedStop \/ ChunkedStopped \/ Done
  BY <1>1, <1>3 DEF ChunkSize, ChunkedStop, ChunkedStopped, Done
<1>4. CASE SendOn
  <2>1. CASE received > lastSend
    <3>1. Copy(lastSend, received) \in Seq(Nat)
      BY <1>0, <2>1, CopyIs DEF HttpTypes
    <3> QED
      BY <1>4, <2>1, <3>1 DEF SendOn
  <2> QED
    BY <1>1, <1>4, <2>1 DEF SendOn
<1>5. CASE LengthSend
  BY <1>4, <1>5 DEF LengthSend
<1>6. CASE ChunkData
  <2>1. CASE UNCHANGED delivered
    BY <1>1, <2>1
  <2>2. CASE ~UNCHANGED delivered
    <3> DEFINE to == chunkPos + iChunkScanLastSize
    <3>1. iChunkScanLastSize # None /\ delivered' = delivered \o Copy(chunkPos, to)
      BY <1>6, <2>2 DEF ChunkData
    <3>2. chunkPos \in Nat /\ to \in Nat /\ chunkPos <= to
      BY <1>0, <3>1 DEF HttpTypes
    <3> HIDE DEF to
    <3>3. Copy(chunkPos, to) \in Seq(Nat)
      BY <3>2, CopyIs
    <3> QED
      BY <3>1, <3>3
  <2> QED
    BY <2>1, <2>2
<1>7. CASE parseReceivedData
  <2>1. CASE UNCHANGED delivered
    BY <1>1, <2>1
  <2>2. CASE ~UNCHANGED delivered /\ ~SendOn
    <3>1. bHeaderParsed /\ delivered' = delivered \o Copy(iHeaderSize, received)
      BY <1>7, <2>2 DEF parseReceivedData
    <3>2. iHeaderSize \in Nat /\ received \in Nat /\ iHeaderSize <= received
      BY <1>0, <3>1 DEF HttpTypes, HeaderKnown, iHeaderSize
    <3>3. Copy(iHeaderSize, received) \in Seq(Nat)
      BY <3>2, CopyIs
    <3> QED
      BY <3>1, <3>3
  <2> QED
    BY <1>4, <2>1, <2>2
<1> QED
  BY <1>2, <1>3, <1>5, <1>6, <1>7 DEF Client

\* It stays so in every step.
LEMMA FileKept ==
  ASSUME HttpInv, FileKnown, [DownloaderNext]_dlVars
  PROVE  FileKnown'
<1>1. CASE download
  <2>1. user = "idle" /\ file' = <<>> /\ delivered' = <<>> /\ UNCHANGED <<pieces, waiting>>
    BY <1>1 DEF download, openAndStart, ConnectFails, Connect, Request
  <2>2. pieces = <<>> /\ waiting = "no" /\ user' # "idle"
    BY <1>1, <2>1 DEF FileKnown, download, ConnectFails, Connect
  <2>3. <<>> \in Seq(Nat) /\ <<>> \o <<>> = <<>>
    BY ConcatEmptySeq
  <2> QED
    BY <2>1, <2>2, <2>3, FlattenEmpty DEF FileKnown
<1>2. ASSUME UNCHANGED fileVars, UNCHANGED delivered,
             user' = "idle" => user = "idle",
             user' = "idle" => UNCHANGED client,
             waiting = "no" \/ UNCHANGED <<user, client>>
      PROVE  FileKnown'
  BY <1>2 DEF FileKnown, fileVars
<1>3. CASE get /\ UNCHANGED fileVars
  BY <1>2, <1>3 DEF get, Start, sendGet, GetReturn, userOnly, clientVars, FileKnown
<1>4. CASE ((\E n \in Offsets : Send(n)) \/ Close) /\ UNCHANGED fileVars
  BY <1>2, <1>4 DEF Send, Close, clientVars
<1>5. CASE Connection /\ UNCHANGED fileVars
  BY <1>2, <1>5 DEF Connection, ConnTest, ReceiveNothing, ReceiveFails, newMessageReceived,
                    ReceiveMessage, ConnGoto, clientVars
<1>6. CASE clientThread
  <2>1. Client /\ onData /\ UNCHANGED <<file, waiting>>
    BY <1>6 DEF clientThread
  <2>2. client # "done" /\ UNCHANGED user
    BY <2>1 DEF Client, ClientTest, Execute, locateAndParseHeader, LengthLock, LengthStop,
                LengthStopped, LengthSend, ChunkSize, ChunkData, ChunkedStop, ChunkedStopped,
                parseReceivedData, Done, ClientGoto
  <2>3. waiting = "no" /\ user # "idle"
    BY <2>2 DEF FileKnown, HttpInv, Threads
  <2>4. PICK x \in Seq(Nat) : delivered' = delivered \o x
    BY <2>1, ClientAdds
  <2>5. CASE UNCHANGED <<delivered, pieces>>
    BY <2>1, <2>2, <2>3, <2>5 DEF FileKnown
  <2>6. CASE pieces' = Append(pieces, SubSeq(delivered', Len(delivered) + 1, Len(delivered')))
    <3> DEFINE q == FlattenSeq(pieces)
    <3>1. file \in Seq(Nat) /\ pieces \in Seq(Seq(Nat)) /\ delivered = file \o q
          /\ delivered \in Seq(Nat)
      BY DEF FileKnown, HttpInv, HttpTypes
    <3>2. pieces' = Append(pieces, x)
      BY <2>4, <2>6, <3>1, RestOfConcat
    <3>3. q \in Seq(Nat)
      BY <3>1, FlattenType
    <3>4. FlattenSeq(Append(pieces, x)) = q \o x
      BY <2>4, <3>1, FlattenAppend
    <3> HIDE DEF q
    <3>5. (file \o q) \o x = file \o (q \o x)
      BY <2>4, <3>1, <3>3, Regroup
    <3>6. Append(pieces, x) \in Seq(Seq(Nat))
      BY <2>4, <3>1
    <3> QED
      BY <2>1, <2>2, <2>3, <2>4, <3>1, <3>2, <3>4, <3>5, <3>6 DEF FileKnown
  <2> QED
    BY <2>1, <2>5, <2>6 DEF onData
<1>7. CASE WritePiece
  <2> DEFINE h == Head(pieces)
             t == Tail(pieces)
             q == FlattenSeq(t)
  <2>1. /\ pieces # <<>> /\ file' = file \o h /\ pieces' = t
        /\ UNCHANGED <<delivered, user, client, waiting>>
    BY <1>7 DEF WritePiece, httpVars, clientVars
  <2>2. file \in Seq(Nat) /\ pieces \in Seq(Seq(Nat)) /\ delivered = file \o FlattenSeq(pieces)
    BY DEF FileKnown
  <2>3. h \in Seq(Nat) /\ t \in Seq(Seq(Nat))
    BY <2>1, <2>2, HeadTailProperties
  <2>4. FlattenSeq(pieces) = h \o q
    BY <2>1, <2>2, FlattenHead
  <2>5. q \in Seq(Nat)
    <3> HIDE DEF t
    <3> QED
      BY <2>3, FlattenType
  <2>6. FlattenSeq(pieces') = q
    BY <2>1
  <2> HIDE DEF h, t, q
  <2>7. (file \o h) \o q = file \o (h \o q)
    BY <2>2, <2>3, <2>5, Regroup
  <2>8. file \o h \in Seq(Nat)
    BY <2>2, <2>3
  <2>9. user # "idle" /\ waiting # "stop"
    BY <2>1 DEF FileKnown
  <2> QED
    BY <2>1, <2>2, <2>3, <2>4, <2>6, <2>7, <2>8, <2>9 DEF FileKnown
<1>8. CASE WriterLeaves
  BY <1>8 DEF WriterLeaves, httpVars, clientVars, FileKnown
<1>9. CASE WaitClient
  <2>1. client = "done"
    BY <1>9 DEF WaitClient, HttpInv, Threads
  <2> QED
    BY <1>9, <2>1 DEF WaitClient, httpVars, clientVars, FileKnown
<1>10. CASE WaitEmpty
  BY <1>10 DEF WaitEmpty, httpVars, clientVars, FileKnown
<1>11. CASE WaitStopped
  BY <1>11 DEF WaitStopped, clientVars, FileKnown
<1>12. CASE UNCHANGED dlVars
  BY <1>2, <1>12 DEF dlVars, httpVars, clientVars
<1> QED
  BY <1>1, <1>3, <1>4, <1>5, <1>6, <1>7, <1>8, <1>9, <1>10, <1>11, <1>12
     DEF DownloaderNext, waitToFinish

\* FileIsComplete: when waitToFinish() returns, the file has what onContent got,
\* and neither the client nor the writer runs.
THEOREM FileHasAll == DownloaderSpec => FileIsComplete
<1>1. DownloaderInit => FileKnown
  <2> SUFFICES ASSUME DownloaderInit
               PROVE  FileKnown
    OBVIOUS
  <2>1. /\ file = <<>> /\ pieces = <<>> /\ delivered = <<>>
        /\ user = "idle" /\ waiting = "no" /\ client = "done"
    BY DEF DownloaderInit, HttpInit
  <2>2. <<>> \in Seq(Nat) /\ <<>> \in Seq(Seq(Nat)) /\ <<>> \o <<>> = <<>>
    BY ConcatEmptySeq
  <2> QED
    BY <2>1, <2>2, FlattenEmpty DEF FileKnown
<1>2. HttpInv /\ FileKnown /\ [DownloaderNext]_dlVars => FileKnown'
  BY FileKept
<1>3. HttpInv /\ FileKnown =>
        [WaitStopped => file = delivered /\ ~writing /\ ~running]_dlVars
  <2> SUFFICES ASSUME HttpInv, FileKnown, WaitStopped
               PROVE  file = delivered /\ ~writing /\ ~running
    OBVIOUS
  <2>1. waiting = "stop" /\ ~writing
    BY DEF WaitStopped
  <2>2. client = "done" /\ pieces = <<>> /\ file \in Seq(Nat) /\ delivered = file \o FlattenSeq(pieces)
    BY <2>1 DEF FileKnown
  <2>3. file \o <<>> = file
    BY <2>2, ConcatEmptySeq
  <2>4. ~running
    BY <2>2 DEF HttpInv, Threads
  <2> QED
    BY <2>1, <2>2, <2>3, <2>4, FlattenEmpty
<1> QED
  BY <1>1, <1>2, <1>3, HttpCorrect, PTL DEF DownloaderSpec, FileIsComplete
=============================================================================
