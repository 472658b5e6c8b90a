--------------------------- MODULE SequenceLemmas ---------------------------
(***************************************************************************)
(* Lemmas about numbers, about the operators on sequences and about the    *)
(* searches of Strings that the other modules' proofs need.                *)
(*                                                                         *)
(* The library's induction theorems take an operator; SetInduction says    *)
(* the same of a set of numbers and follows from the numbers being well    *)
(* founded. What a fold over a sequence computes is told with it: of       *)
(* FlattenSeq that it is the last of a row of steps, each of which puts    *)
(* the next sequence behind what there is (FlattenSteps), and that two     *)
(* rows of the same steps are one (StepsAgree).                            *)
(*                                                                         *)
(* A recursive function of Strings is a CHOOSE of a function that is its   *)
(* own loop. That there is one is shown by putting it together from the    *)
(* places where the loop ends, upwards; that it is the only one, and what  *)
(* it answers, by induction over what is left of the text. So pos finds    *)
(* the first occurrence (PosFindsFirst), a text is cut at a mark where the *)
(* part before it ends (FirstMark), and replace is the loop it is written  *)
(* as (ReplaceIsTheLoop): it copies what is before the first occurrence    *)
(* (ReplaceSkips) and goes on behind it (ReplaceFirst). Conclusions that   *)
(* the provers are to take as they are have a name of their own (IsPiece,  *)
(* Joins ...).                                                             *)
(***************************************************************************)
EXTENDS Strings, WellFoundedInduction, SequenceTheorems, TLAPS

\* A set of numbers has a least one.
LEMMA LeastExists ==
  ASSUME NEW S \in SUBSET Nat, S # {}
  PROVE  \E x \in S : \A y \in S : x <= y
<1> DEFINE R == {ss \in Nat \X Nat : ss[1] < ss[2]}
<1>1. IsWellFoundedOn(R, Nat)
  BY NatLessThanWellFounded DEF OpToRel
<1>2. PICK x \in S : \A y \in S : ~ (<<y, x>> \in R)
  BY <1>1, WFMin
<1>3. \A y \in S : x <= y
  <2> SUFFICES ASSUME NEW y \in S PROVE x <= y
    OBVIOUS
  <2>1. x \in Nat /\ y \in Nat /\ ~(y < x)
    BY <1>2
  <2> QED BY <2>1
<1> QED BY <1>3

\* Min of the community modules, of two numbers.
LEMMA MinOfTwo ==
  ASSUME NEW a \in Int, NEW b \in Int
  PROVE  Min({a, b}) = IF a <= b THEN a ELSE b
<1> DEFINE IsMin(x) == x \in {a, b} /\ \A y \in {a, b} : x <= y
<1>1. IsMin(IF a <= b THEN a ELSE b)
  OBVIOUS
<1>2. Min({a, b}) = CHOOSE x : IsMin(x)
  BY DEF Min
<1>3. IsMin(Min({a, b}))
  BY <1>1, <1>2
<1> QED BY <1>3

\* Induction: a set with 0, and with n + 1 where it has n, has every number.
LEMMA SetInduction ==
  ASSUME NEW S, 0 \in S, \A n \in Nat : n \in S => n + 1 \in S
  PROVE  Nat \subseteq S
<1> SUFFICES ASSUME NEW k \in Nat, k \notin S PROVE FALSE
  OBVIOUS
<1> DEFINE T == Nat \ S
<1>1. T # {} /\ T \in SUBSET Nat
  OBVIOUS
<1> HIDE DEF T
<1>2. PICK x \in T : \A y \in T : x <= y
  BY <1>1, LeastExists
<1>3. x \in Nat /\ x # 0
  BY DEF T
<1>4. x - 1 \in Nat /\ x - 1 \notin T
  BY <1>2, <1>3
<1>5. x - 1 \in S /\ (x - 1) + 1 = x
  BY <1>3, <1>4 DEF T
<1> QED BY <1>4, <1>5 DEF T

\* r is a beginning of s.
Begins(r, s) == Len(r) <= Len(s) /\ \A k \in 1 .. Len(r) : s[k] = r[k]

\* f[i] is the first i sequences of ss, one behind the other.
Steps(f, ss) == f[0] = <<>> /\ \A i \in 1 .. Len(ss) : f[i] = f[i - 1] \o ss[i]

\* FlattenSeq is the last of a row of steps.
LEMMA FlattenSteps ==
  ASSUME NEW U, NEW ss \in Seq(Seq(U))
  PROVE  \E f \in [0 .. Len(ss) -> Seq(U)] : Steps(f, ss) /\ FlattenSeq(ss) = f[Len(ss)]
<1> DEFINE Flattens(g, n) ==
             g = [i \in 1 .. n |-> IF i = 1 THEN ss[i] ELSE g[i - 1] \o ss[i]]
           Exists == {n \in Nat : \E g : Flattens(g, n)}
<1>1. CASE Len(ss) = 0
  <2> DEFINE f == [i \in 0 .. Len(ss) |-> <<>>]
  <2>1. f \in [0 .. Len(ss) -> Seq(U)] /\ f[0] = <<>>
    BY <1>1
  <2>2. FlattenSeq(ss) = <<>>
    BY <1>1 DEF FlattenSeq
  <2>3. f[Len(ss)] = <<>> /\ 1 .. Len(ss) = {}
    BY <1>1
  <2> HIDE DEF f
  <2>4. Steps(f, ss)
    BY <2>1, <2>3 DEF Steps
  <2> QED BY <2>1, <2>2, <2>3, <2>4
<1>2. CASE Len(ss) # 0
  <2>1. 0 \in Exists
    <3>1. Flattens([i \in 1 .. 0 |-> <<>>], 0)
      OBVIOUS
    <3> QED BY <3>1
  <2>2. ASSUME NEW n \in Nat, n \in Exists PROVE n + 1 \in Exists
    <3>1. PICK g : Flattens(g, n)
      BY <2>2
    <3> DEFINE h == [i \in 1 .. n + 1 |-> IF i = 1 THEN ss[i] ELSE g[i - 1] \o ss[i]]
    <3>2. \A i \in 1 .. n : g[i] = IF i = 1 THEN ss[i] ELSE g[i - 1] \o ss[i]
      BY <3>1
    <3>3. \A i \in 1 .. n : h[i] = g[i]
      BY <3>2
    <3>4. DOMAIN h = 1 .. n + 1 /\ h = [i \in 1 .. n + 1 |-> h[i]]
          /\ \A i \in 1 .. n + 1 : h[i] = IF i = 1 THEN ss[i] ELSE g[i - 1] \o ss[i]
      OBVIOUS
    <3> HIDE DEF h
    <3>5. \A i \in 1 .. n + 1 : i # 1 => i - 1 \in 1 .. n
      OBVIOUS
    <3>6. \A i \in 1 .. n + 1 : h[i] = IF i = 1 THEN ss[i] ELSE h[i - 1] \o ss[i]
      BY <3>3, <3>4, <3>5
    <3>7. h = [i \in 1 .. n + 1 |-> IF i = 1 THEN ss[i] ELSE h[i - 1] \o ss[i]]
      BY <3>4, <3>6
    <3>8. Flattens(h, n + 1)
      BY <3>7
    <3>9. n + 1 \in Nat
      OBVIOUS
    <3> QED BY <3>8, <3>9
  <2> HIDE DEF Exists
  <2>3. Len(ss) \in Exists
    <3>1. Nat \subseteq Exists
      BY ONLY <2>1, <2>2, SetInduction, Zenon
    <3> QED BY <3>1
  <2> DEFINE g == CHOOSE g : Flattens(g, Len(ss))
  <2>4. Flattens(g, Len(ss))
    BY <2>3 DEF Exists
  <2>5. FlattenSeq(ss) = g[Len(ss)]
    BY <1>2 DEF FlattenSeq
  <2> HIDE DEF g
  <2>6. g[1] = ss[1] /\ \A i \in 2 .. Len(ss) : g[i] = g[i - 1] \o ss[i]
    <3>1. \A i \in 1 .. Len(ss) : g[i] = IF i = 1 THEN ss[i] ELSE g[i - 1] \o ss[i]
      BY <2>4
    <3>2. 1 \in 1 .. Len(ss) /\ \A i \in 2 .. Len(ss) : i \in 1 .. Len(ss) /\ i # 1
      BY <1>2
    <3> QED BY <3>1, <3>2
  <2> DEFINE f == [i \in 0 .. Len(ss) |-> IF i = 0 THEN <<>> ELSE g[i]]
             Typed == {n \in Nat : n < Len(ss) => g[n + 1] \in Seq(U)}
  <2>7. 0 \in Typed
    BY <2>6
  <2>8. ASSUME NEW n \in Nat, n \in Typed PROVE n + 1 \in Typed
    <3> SUFFICES ASSUME n + 1 < Len(ss) PROVE g[n + 2] \in Seq(U)
      OBVIOUS
    <3>1. g[n + 1] \in Seq(U) /\ ss[n + 2] \in Seq(U)
      BY <2>8
    <3>2. n + 2 \in 2 .. Len(ss) /\ (n + 2) - 1 = n + 1
      OBVIOUS
    <3>3. g[n + 2] = g[n + 1] \o ss[n + 2]
      BY <2>6, <3>2
    <3> QED BY <3>1, <3>3
  <2> HIDE DEF Typed
  <2>9. \A i \in 1 .. Len(ss) : g[i] \in Seq(U)
    <3> SUFFICES ASSUME NEW i \in 1 .. Len(ss) PROVE g[i] \in Seq(U)
      OBVIOUS
    <3>1. Nat \subseteq Typed
      BY <2>7, <2>8, SetInduction
    <3>2. i - 1 \in Typed /\ i - 1 < Len(ss) /\ (i - 1) + 1 = i
      BY <3>1
    <3> QED BY <3>2 DEF Typed
  <2>10. f \in [0 .. Len(ss) -> Seq(U)]
    BY <2>9
  <2>11. \A i \in 1 .. Len(ss) : f[i] = f[i - 1] \o ss[i]
    <3> SUFFICES ASSUME NEW i \in 1 .. Len(ss) PROVE f[i] = f[i - 1] \o ss[i]
      OBVIOUS
    <3>1. CASE i = 1
      <4>1. ss[1] \in Seq(U)
        BY <1>2
      <4>2. <<>> \o ss[1] = ss[1]
        BY <4>1, ConcatEmptySeq
      <4>3. f[1] = g[1] /\ f[1 - 1] = <<>>
        BY <1>2
      <4> QED BY <2>6, <3>1, <4>2, <4>3
    <3>2. CASE i # 1
      <4>1. i \in 2 .. Len(ss) /\ i - 1 \in 1 .. Len(ss)
        BY <3>2
      <4>2. f[i] = g[i] /\ f[i - 1] = g[i - 1]
        BY <4>1
      <4> QED BY <2>6, <4>1, <4>2
    <3> QED BY <3>1, <3>2
  <2>12. f[0] = <<>> /\ f[Len(ss)] = g[Len(ss)]
    BY <1>2
  <2>13. Steps(f, ss)
    BY <2>11, <2>12 DEF Steps
  <2> HIDE DEF f
  <2> QED BY <2>5, <2>10, <2>12, <2>13
<1> QED BY <1>1, <1>2

\* Functions that take the same steps are the same.
LEMMA StepsAgree ==
  ASSUME NEW f, NEW g, NEW n \in Nat,
         f[0] = g[0], \A i \in 1 .. n : f[i - 1] = g[i - 1] => f[i] = g[i]
  PROVE  f[n] = g[n]
<1> DEFINE Agree == {k \in Nat : k <= n => f[k] = g[k]}
<1>1. 0 \in Agree
  OBVIOUS
<1>2. ASSUME NEW k \in Nat, k \in Agree PROVE k + 1 \in Agree
  <2> SUFFICES ASSUME k + 1 <= n PROVE f[k + 1] = g[k + 1]
    OBVIOUS
  <2>1. k + 1 \in 1 .. n /\ (k + 1) - 1 = k /\ f[k] = g[k]
    BY <1>2
  <2> QED BY <2>1
<1> HIDE DEF Agree
<1>3. n \in Agree
  BY <1>1, <1>2, SetInduction
<1> QED BY <1>3 DEF Agree

\* The length and the elements of a piece of a sequence.
LEMMA PieceOf ==
  ASSUME NEW U, NEW s \in Seq(U), NEW a \in Nat \ {0}, NEW b \in Nat, a <= b + 1, b <= Len(s)
  PROVE  /\ SubSeq(s, a, b) \in Seq(U) /\ Len(SubSeq(s, a, b)) = b - a + 1
         /\ \A i \in 1 .. b - a + 1 : SubSeq(s, a, b)[i] = s[a + i - 1]
<1>1. a \in Int /\ b \in Int /\ \A i \in a .. b : s[i] \in U
  OBVIOUS
<1>2. /\ SubSeq(s, a, b) \in Seq(U)
      /\ Len(SubSeq(s, a, b)) = IF a <= b THEN b - a + 1 ELSE 0
      /\ \A i \in 1 .. b - a + 1 : SubSeq(s, a, b)[i] = s[a + i - 1]
  BY <1>1, SubSeqProperties
<1>3. Len(SubSeq(s, a, b)) = b - a + 1
  BY <1>2
<1> QED BY <1>2, <1>3

\* Two pieces that follow one another are one piece.
LEMMA CutInTwo ==
  ASSUME NEW U, NEW s \in Seq(U), NEW a \in Nat \ {0}, NEW b \in Nat, NEW c \in Nat, NEW d \in Nat,
         a <= d, d = b + 1, b <= c, c <= Len(s)
  PROVE  SubSeq(s, a, b) \o SubSeq(s, d, c) = SubSeq(s, a, c)
<1> DEFINE x == SubSeq(s, a, b)
           y == SubSeq(s, d, c)
           z == SubSeq(s, a, c)
           p == b - a + 1
           q == c - b
           n == c - a + 1
<1>1. /\ x \in Seq(U) /\ Len(x) = p /\ \A i \in 1 .. p : x[i] = s[a + i - 1]
  <2>1. b <= Len(s)
    OBVIOUS
  <2> QED BY <2>1, PieceOf
<1>2. /\ y \in Seq(U) /\ Len(y) = q /\ \A i \in 1 .. q : y[i] = s[b + i]
  <2>1. d \in Nat \ {0} /\ d <= c + 1
    OBVIOUS
  <2>2. /\ y \in Seq(U) /\ Len(y) = c - d + 1 /\ \A i \in 1 .. c - d + 1 : y[i] = s[d + i - 1]
    BY <2>1, PieceOf
  <2>3. c - d + 1 = q /\ \A i \in 1 .. q : d + i - 1 = b + i
    BY <2>1
  <2> HIDE DEF q, y
  <2> QED BY <2>2, <2>3
<1>3. /\ z \in Seq(U) /\ Len(z) = n /\ \A i \in 1 .. n : z[i] = s[a + i - 1]
  <2>1. a <= c + 1
    OBVIOUS
  <2> QED BY <2>1, PieceOf
<1>4. p \in Nat /\ q \in Nat /\ n = p + q
  OBVIOUS
<1> DEFINE xy == x \o y
<1> HIDE DEF x, y, z
<1>5. /\ xy \in Seq(U) /\ Len(xy) = n
      /\ \A i \in 1 .. n : xy[i] = IF i <= p THEN x[i] ELSE y[i - p]
  <2> HIDE DEF p, q, n
  <2> QED BY <1>1, <1>2, <1>4, ConcatProperties, ZenonT(40)
<1> HIDE DEF xy
<1>6. ASSUME NEW i \in 1 .. n PROVE xy[i] = z[i]
  <2> DEFINE k == a + i - 1
  <2>1. z[i] = s[k]
    BY <1>3
  <2>2. CASE i <= p
    <3>1. i \in 1 .. p
      BY <2>2
    <3> HIDE DEF p, n
    <3>2. xy[i] = x[i] /\ x[i] = s[k]
      BY <1>1, <1>5, <2>2, <3>1
    <3> QED BY <2>1, <3>2
  <2>3. CASE i > p
    <3> DEFINE j == i - p
    <3>1. j \in 1 .. q /\ k = b + j /\ ~(i <= p)
      BY <2>3
    <3> HIDE DEF n, q, k
    <3>2. xy[i] = y[j]
      BY <1>5, <3>1
    <3> HIDE DEF j
    <3>3. y[j] = s[b + j]
      BY <1>2, <3>1
    <3> QED BY <2>1, <3>1, <3>2, <3>3
  <2> QED BY <2>2, <2>3
<1> HIDE DEF n
<1>7. xy = z
  BY <1>3, <1>5, <1>6, SeqEqual
<1> QED BY <1>7 DEF x, y, z, xy

\* A sequence with another one behind it.
LEMMA Joined ==
  ASSUME NEW U, NEW s \in Seq(U), NEW t \in Seq(U)
  PROVE  /\ s \o t \in Seq(U) /\ Len(s) \in Nat /\ Len(t) \in Nat
         /\ Len(s \o t) = Len(s) + Len(t)
         /\ \A i \in 1 .. Len(s) : (s \o t)[i] = s[i]
         /\ \A i \in 1 .. Len(t) : (s \o t)[Len(s) + i] = t[i]
OBVIOUS

\* A sequence between two elements and one more.
LEMMA Between ==
  ASSUME NEW U, NEW x \in U, NEW y \in U, NEW z \in U, NEW c \in Seq(U)
  PROVE  LET s == <<x>> \o <<y>> \o c \o <<z>>
         IN /\ s \in Seq(U) /\ Len(s) = Len(c) + 3
            /\ s[1] = x /\ s[2] = y /\ s[Len(c) + 3] = z
            /\ \A i \in 1 .. Len(c) : s[2 + i] = c[i]
<1> DEFINE xy == <<x>> \o <<y>>
           xyc == xy \o c
           s == xyc \o <<z>>
           n == Len(c)
<1>1. xy \in Seq(U)
  OBVIOUS
<1>2. /\ Len(xy) = 2 /\ n \in Nat
      /\ xy[1] = x /\ xy[2] = y
  OBVIOUS
<1> HIDE DEF xy
<1>3. /\ xyc \in Seq(U) /\ Len(xyc) = Len(xy) + Len(c)
      /\ \A i \in 1 .. Len(xy) : xyc[i] = xy[i]
      /\ \A i \in 1 .. Len(c) : xyc[Len(xy) + i] = c[i]
  BY <1>1, Joined
<1> HIDE DEF n, xyc
<1>4. /\ xyc \in Seq(U) /\ Len(xyc) = n + 2
      /\ xyc[1] = x /\ xyc[2] = y
      /\ \A i \in 1 .. n : xyc[2 + i] = c[i]
  BY <1>2, <1>3 DEF n
<1>5. /\ s \in Seq(U) /\ Len(s) = n + 3
      /\ s[1] = x /\ s[2] = y
      /\ \A i \in 1 .. n : s[2 + i] = c[i]
      /\ s[n + 3] = z
  BY <1>2, <1>4
<1> QED
  BY <1>5 DEF n, xyc, xy

\* Three sequences, one behind the other.
LEMMA JoinedThree ==
  ASSUME NEW U, NEW a \in Seq(U), NEW b \in Seq(U), NEW c \in Seq(U)
  PROVE  LET s == a \o b \o c
         IN /\ s \in Seq(U) /\ Len(s) = Len(a) + Len(b) + Len(c)
            /\ \A i \in 1 .. Len(a) : s[i] = a[i]
            /\ \A i \in 1 .. Len(b) : s[Len(a) + i] = b[i]
            /\ \A i \in 1 .. Len(c) : s[Len(a) + Len(b) + i] = c[i]
<1> DEFINE ab == a \o b
           l == Len(a)
           m == Len(b)
           n == Len(c)
           s == ab \o c
<1>1. ab \in Seq(U)
  OBVIOUS
<1>2. /\ Len(ab) = l + m /\ l \in Nat /\ m \in Nat /\ n \in Nat
      /\ \A i \in 1 .. l : ab[i] = a[i]
      /\ \A i \in 1 .. m : ab[l + i] = b[i]
  BY Joined
<1> HIDE DEF ab, l, m, n
<1>3. /\ s \in Seq(U) /\ Len(s) = Len(ab) + Len(c)
      /\ \A i \in 1 .. Len(ab) : s[i] = ab[i]
      /\ \A i \in 1 .. Len(c) : s[Len(ab) + i] = c[i]
  BY <1>1, Joined
<1> HIDE DEF s
<1>4. /\ s \in Seq(U) /\ Len(s) = l + m + n
      /\ \A i \in 1 .. l + m : s[i] = ab[i]
      /\ \A i \in 1 .. n : s[l + m + i] = c[i]
  BY <1>2, <1>3 DEF n
<1>5. \A i \in 1 .. l : s[i] = a[i]
  BY <1>2, <1>4
<1>6. \A i \in 1 .. m : s[l + i] = b[i]
  <2> TAKE i \in 1 .. m
  <2>1. l + i \in 1 .. l + m
    BY <1>2
  <2> QED
    BY <1>2, <1>4, <2>1
<1> QED
  BY <1>2, <1>4, <1>5, <1>6 DEF l, m, n, s, ab

\* A sequence with three more elements.
LEMMA ThreeMore ==
  ASSUME NEW U, NEW s \in Seq(U), NEW x \in U, NEW y \in U, NEW z \in U
  PROVE  LET t == s \o <<x>> \o <<y>> \o <<z>>
         IN /\ t \in Seq(U) /\ Len(t) = Len(s) + 3
            /\ \A i \in 1 .. Len(s) : t[i] = s[i]
            /\ t[Len(s) + 1] = x /\ t[Len(s) + 2] = y /\ t[Len(s) + 3] = z
<1> DEFINE a == s \o <<x>>
           b == a \o <<y>>
           c == b \o <<z>>
           n == Len(s)
<1>1. a \in Seq(U) /\ n \in Nat /\ Len(a) = n + 1 /\ a[n + 1] = x /\ \A i \in 1 .. n : a[i] = s[i]
  OBVIOUS
<1> HIDE DEF a, n
<1>2. b \in Seq(U) /\ Len(b) = n + 2 /\ b[n + 2] = y /\ \A i \in 1 .. n + 1 : b[i] = a[i]
  BY <1>1
<1> HIDE DEF b
<1>3. c \in Seq(U) /\ Len(c) = n + 3 /\ c[n + 3] = z /\ \A i \in 1 .. n + 2 : c[i] = b[i]
  BY <1>1, <1>2
<1> HIDE DEF c
<1>4. \A i \in 1 .. n : c[i] = s[i]
  BY <1>1, <1>2, <1>3
<1>5. c[n + 1] = x /\ c[n + 2] = y
  BY <1>1, <1>2, <1>3
<1> QED
  BY <1>3, <1>4, <1>5 DEF a, b, c, n

\* All of a sequence is the sequence.
LEMMA Uncut ==
  ASSUME NEW U, NEW s \in Seq(U)
  PROVE  SubSeq(s, 1, Len(s)) = s
OBVIOUS

\* A sequence begins what it is the first part of.
LEMMA PrefixOfConcat ==
  ASSUME NEW U, NEW s \in Seq(U), NEW t \in Seq(U)
  PROVE  IsPrefix(s, s \o t)
<1> DEFINE n == Len(s)
           st == s \o t
           z == SubSeq(st, 1, n)
<1>1. /\ st \in Seq(U) /\ Len(st) = n + Len(t) /\ n \in Nat /\ Len(t) \in Nat
      /\ \A i \in 1 .. n : st[i] = s[i]
  OBVIOUS
<1> HIDE DEF st, n
<1>2. n <= Len(st) /\ 1 <= n + 1 /\ 1 \in Nat \ {0}
  BY <1>1
<1>3. z \in Seq(U) /\ Len(z) = n - 1 + 1 /\ \A i \in 1 .. n - 1 + 1 : z[i] = st[1 + i - 1]
  BY <1>1, <1>2, PieceOf
<1> HIDE DEF z
<1>4. ASSUME NEW i \in 1 .. n PROVE z[i] = s[i]
  <2>1. i \in 1 .. n - 1 + 1 /\ 1 + i - 1 = i
    BY <1>1
  <2> QED BY <1>1, <1>3, <2>1
<1>5. z = s
  <2>1. Len(z) = Len(s) /\ \A i \in 1 .. Len(z) : z[i] = s[i]
    BY <1>1, <1>3, <1>4 DEF n
  <2> QED BY <1>3, <2>1, SeqEqual
<1>6. SubSeq(s, 1, Len(s)) = s
  BY Uncut
<1> QED BY <1>2, <1>5, <1>6 DEF IsPrefix, z, st, n

\* The head of a sequence may be appended to the one before it.
LEMMA HeadMoves ==
  ASSUME NEW U, NEW s \in Seq(U), NEW t \in Seq(U), t # <<>>
  PROVE  Append(s, Head(t)) \o Tail(t) = s \o t
<1> DEFINE h == Head(t)
           u == Tail(t)
           sh == Append(s, h)
           x == sh \o u
           y == s \o t
           n == Len(s)
           k == Len(u)
<1>1. /\ h \in U /\ u \in Seq(U) /\ n \in Nat /\ k \in Nat /\ Len(t) = k + 1
      /\ t[1] = h /\ \A i \in 1 .. k : u[i] = t[i + 1]
  <2>1. h \in U /\ u \in Seq(U) /\ k = Len(t) - 1 /\ \A i \in 1 .. k : u[i] = t[i + 1]
    BY HeadTailProperties
  <2>2. n \in Nat /\ Len(t) \in Nat
    OBVIOUS
  <2>3. Len(t) # 0
    BY EmptySeq
  <2>4. h = t[1]
    OBVIOUS
  <2> HIDE DEF h, u, k, n
  <2>5. k \in Nat /\ Len(t) = k + 1
    BY <2>1, <2>2, <2>3
  <2> QED BY <2>1, <2>2, <2>4, <2>5
<1> HIDE DEF h, u
<1>2. /\ sh \in Seq(U) /\ Len(sh) = n + 1 /\ sh[n + 1] = h /\ \A i \in 1 .. n : sh[i] = s[i]
  BY <1>1, AppendProperties
<1> HIDE DEF sh
<1>3. /\ x \in Seq(U) /\ Len(x) = Len(sh) + k
      /\ \A i \in 1 .. Len(sh) + k : x[i] = IF i <= Len(sh) THEN sh[i] ELSE u[i - Len(sh)]
  BY <1>1, <1>2, ConcatProperties
<1>4. /\ y \in Seq(U) /\ Len(y) = n + Len(t)
      /\ \A i \in 1 .. n + Len(t) : y[i] = IF i <= n THEN s[i] ELSE t[i - n]
  BY ConcatProperties
<1> HIDE DEF x, y, n, k
<1>5. ASSUME NEW i \in 1 .. n + 1 + k PROVE x[i] = y[i]
  <2>1. CASE i <= n
    <3>1. x[i] = sh[i] /\ y[i] = s[i]
      BY <1>1, <1>2, <1>3, <1>4, <2>1
    <3> QED BY <1>1, <1>2, <2>1, <3>1
  <2>2. CASE i = n + 1
    <3>1. x[i] = sh[i] /\ y[i] = t[i - n] /\ i - n = 1
      BY <1>1, <1>2, <1>3, <1>4, <2>2
    <3> QED BY <1>1, <1>2, <2>2, <3>1
  <2>3. CASE i > n + 1
    <3> DEFINE j == i - (n + 1)
    <3>1. j \in 1 .. k /\ i - n = j + 1 /\ ~(i <= n) /\ ~(i <= n + 1)
      BY <1>1, <2>3
    <3>2. x[i] = u[j] /\ y[i] = t[i - n]
      BY <1>1, <1>2, <1>3, <1>4, <3>1
    <3> HIDE DEF j
    <3> QED BY <1>1, <3>1, <3>2
  <2> QED BY <1>1, <2>1, <2>2, <2>3
<1>6. Len(x) = n + 1 + k /\ Len(y) = n + 1 + k
  BY <1>1, <1>2, <1>3, <1>4, SMTT(20)
<1>7. x = y
  BY <1>3, <1>4, <1>5, <1>6, SeqEqual
<1> QED BY <1>7 DEF x, y, sh, h, u

\* What is in a sequence that something is appended to.
LEMMA RangeAppend ==
  ASSUME NEW U, NEW s \in Seq(U), NEW e \in U
  PROVE  Range(Append(s, e)) = Range(s) \union {e}
<1> DEFINE t == Append(s, e)
           n == Len(s)
<1>1. /\ t \in Seq(U) /\ Len(t) = n + 1 /\ n \in Nat
      /\ t[n + 1] = e /\ \A i \in 1 .. n : t[i] = s[i]
  BY AppendProperties
<1>2. DOMAIN t = 1 .. n + 1 /\ DOMAIN s = 1 .. n
  BY <1>1
<1> HIDE DEF t, n
<1>3. \A i \in 1 .. n + 1 : i = n + 1 \/ i \in 1 .. n
  BY <1>1
<1>4. n + 1 \in 1 .. n + 1 /\ \A i \in 1 .. n : i \in 1 .. n + 1
  BY <1>1
<1>5. Range(t) = Range(s) \union {e}
  BY <1>1, <1>2, <1>3, <1>4 DEF Range
<1> QED BY <1>5 DEF t

\* What is in a sequence is in it with another one behind it.
LEMMA RangeConcat ==
  ASSUME NEW U, NEW s \in Seq(U), NEW t \in Seq(U)
  PROVE  Range(s) \subseteq Range(s \o t)
BY DEF Range

\* FlattenSeq of no sequences,
LEMMA FlattenEmpty == FlattenSeq(<<>>) = <<>>
BY DEF FlattenSeq

\* its type,
LEMMA FlattenType ==
  ASSUME NEW U, NEW ss \in Seq(Seq(U))
  PROVE  FlattenSeq(ss) \in Seq(U)
<1>1. PICK f \in [0 .. Len(ss) -> Seq(U)] : FlattenSeq(ss) = f[Len(ss)]
  BY FlattenSteps
<1> QED BY <1>1

\* and with one more sequence.
LEMMA FlattenAppend ==
  ASSUME NEW U, NEW ss \in Seq(Seq(U)), NEW s \in Seq(U)
  PROVE  FlattenSeq(Append(ss, s)) = FlattenSeq(ss) \o s
<1> DEFINE tt == Append(ss, s)
           n == Len(ss)
<1>1. /\ tt \in Seq(Seq(U)) /\ Len(tt) = n + 1 /\ n \in Nat
      /\ tt[n + 1] = s /\ \A i \in 1 .. n : tt[i] = ss[i]
  OBVIOUS
<1> HIDE DEF tt
<1>2. PICK f \in [0 .. n -> Seq(U)] :
         /\ f[0] = <<>> /\ \A i \in 1 .. n : f[i] = f[i - 1] \o ss[i]
         /\ FlattenSeq(ss) = f[n]
  BY FlattenSteps DEF Steps
<1> HIDE DEF n
<1>3. PICK g \in [0 .. n + 1 -> Seq(U)] :
         /\ g[0] = <<>> /\ \A i \in 1 .. n + 1 : g[i] = g[i - 1] \o tt[i]
         /\ FlattenSeq(tt) = g[n + 1]
  <2>1. Len(tt) = n + 1
    BY <1>1
  <2>2. \E g \in [0 .. Len(tt) -> Seq(U)] :
           /\ g[0] = <<>> /\ \A i \in 1 .. Len(tt) : g[i] = g[i - 1] \o tt[i]
           /\ FlattenSeq(tt) = g[Len(tt)]
    BY <1>1, FlattenSteps DEF Steps
  <2> QED BY ONLY <2>1, <2>2, Zenon
<1>4. \A i \in 1 .. n : g[i] = g[i - 1] \o tt[i]
  <2> SUFFICES ASSUME NEW i \in 1 .. n PROVE g[i] = g[i - 1] \o tt[i]
    OBVIOUS
  <2>1. i \in 1 .. n + 1
    BY <1>1
  <2> QED BY <1>3, <2>1
<1>5. g[n] = f[n]
  <2>1. \A i \in 1 .. n : f[i - 1] = g[i - 1] => f[i] = g[i]
    <3> SUFFICES ASSUME NEW i \in 1 .. n, f[i - 1] = g[i - 1] PROVE f[i] = g[i]
      OBVIOUS
    <3>1. f[i] = f[i - 1] \o ss[i]
      BY <1>2
    <3>2. g[i] = g[i - 1] \o tt[i] /\ tt[i] = ss[i]
      BY <1>1, <1>4
    <3> QED BY <3>1, <3>2
  <2>2. n \in Nat /\ f[0] = g[0]
    BY <1>1, <1>2, <1>3
  <2> QED BY ONLY <2>1, <2>2, StepsAgree, ZenonT(40)
<1>6. g[n + 1] = g[(n + 1) - 1] \o tt[n + 1]
  <2>1. n + 1 \in 1 .. n + 1
    BY <1>1
  <2>2. \A i \in 1 .. n + 1 : g[i] = g[i - 1] \o tt[i]
    BY <1>3
  <2> QED BY ONLY <2>1, <2>2, Zenon
<1>7. (n + 1) - 1 = n
  BY <1>1
<1> QED BY <1>1, <1>2, <1>3, <1>5, <1>6, <1>7 DEF tt

\* What begins a sequence begins it with another one behind it.
LEMMA BeginsConcat ==
  ASSUME NEW U, NEW r \in Seq(U), NEW s \in Seq(U), NEW t \in Seq(U), Begins(r, s)
  PROVE  Begins(r, s \o t)
BY DEF Begins

\* Each of the steps is a beginning of all that follow.
LEMMA StepsBegin ==
  ASSUME NEW U, NEW ss \in Seq(Seq(U)), NEW f \in [0 .. Len(ss) -> Seq(U)], Steps(f, ss),
         NEW i \in 0 .. Len(ss), NEW j \in i .. Len(ss)
  PROVE  Begins(f[i], f[j])
<1> DEFINE n == Len(ss)
           S == {d \in Nat : i + d <= n => Begins(f[i], f[i + d])}
<1>1. 0 \in S
  <2>1. f[i] \in Seq(U) /\ i + 0 = i
    OBVIOUS
  <2>2. Begins(f[i], f[i])
    BY <2>1 DEF Begins
  <2> QED BY <2>1, <2>2
<1>2. ASSUME NEW d \in Nat, d \in S PROVE d + 1 \in S
  <2> SUFFICES ASSUME i + (d + 1) <= n PROVE Begins(f[i], f[i + (d + 1)])
    OBVIOUS
  <2> DEFINE q == i + d
             m == i + (d + 1)
             r == f[i]
             s == f[q]
             t == ss[m]
  <2>1. m \in 1 .. n /\ m - 1 = q /\ q \in 0 .. n
    OBVIOUS
  <2>2. Begins(r, s)
    BY <1>2, <2>1
  <2> HIDE DEF m, q
  <2>3. \A k \in 1 .. n : f[k] = f[k - 1] \o ss[k]
    BY DEF Steps
  <2>4. f[m] = f[m - 1] \o ss[m]
    BY ONLY <2>1, <2>3, Zenon
  <2>5. r \in Seq(U) /\ s \in Seq(U) /\ t \in Seq(U)
    <3>1. f \in [0 .. n -> Seq(U)] /\ i \in 0 .. n /\ q \in 0 .. n
      BY <2>1
    <3>2. ss \in [1 .. n -> Seq(U)] /\ m \in 1 .. n
      BY <2>1
    <3> QED BY ONLY <3>1, <3>2, Zenon
  <2>6. r \in Seq(U) /\ s \in Seq(U) /\ t \in Seq(U) /\ f[m] = s \o t
    BY ONLY <2>1, <2>4, <2>5
  <2> HIDE DEF s, t
  <2>7. Begins(r, s \o t)
    BY <2>2, <2>6, BeginsConcat
  <2> QED BY <2>6, <2>7 DEF m
<1> HIDE DEF S
<1>3. j - i \in S /\ i + (j - i) = j
  <2>1. Nat \subseteq S
    BY <1>1, <1>2, SetInduction
  <2> QED BY <2>1
<1> QED BY <1>3 DEF S

\* What is in one of the sequences is in all of them flattened.
LEMMA FlattenHasAll ==
  ASSUME NEW U, NEW ss \in Seq(Seq(U)), NEW i \in 1 .. Len(ss)
  PROVE  Range(ss[i]) \subseteq Range(FlattenSeq(ss))
<1>1. PICK f \in [0 .. Len(ss) -> Seq(U)] : Steps(f, ss) /\ FlattenSeq(ss) = f[Len(ss)]
  BY FlattenSteps
<1> DEFINE n == Len(ss)
           r == f[i - 1]
           s == ss[i]
           t == f[n]
<1>2. Begins(f[i], t)
  <2>1. i \in 0 .. n /\ n \in i .. n
    OBVIOUS
  <2> QED BY <1>1, <2>1, StepsBegin
<1>3. r \in Seq(U) /\ s \in Seq(U) /\ t \in Seq(U)
  <2>1. f \in [0 .. n -> Seq(U)] /\ i - 1 \in 0 .. n /\ n \in 0 .. n
    OBVIOUS
  <2>2. ss \in [1 .. n -> Seq(U)] /\ i \in 1 .. n
    OBVIOUS
  <2> QED BY ONLY <2>1, <2>2, Zenon
<1>4. f[i] = r \o s
  <2>1. \A k \in 1 .. n : f[k] = f[k - 1] \o ss[k]
    BY <1>1 DEF Steps
  <2>2. i \in 1 .. n
    OBVIOUS
  <2> QED BY ONLY <2>1, <2>2, Zenon
<1>5. FlattenSeq(ss) = t
  BY <1>1
<1> HIDE DEF r, s, t
<1>6. ASSUME NEW k \in 1 .. Len(s) PROVE s[k] \in Range(t)
  <2>1. Begins(r \o s, t)
    BY <1>2, <1>4
  <2>2. Len(r) + k \in 1 .. Len(r \o s) /\ (r \o s)[Len(r) + k] = s[k] /\ Len(r) + k \in Nat
    BY <1>3
  <2>3. t[Len(r) + k] = s[k]
    BY <2>1, <2>2 DEF Begins
  <2>4. Len(r \o s) \in Nat /\ Len(t) \in Nat /\ DOMAIN t = 1 .. Len(t)
    BY <1>3
  <2>5. Len(r) + k \in 1 .. Len(t)
    BY <2>1, <2>2, <2>4 DEF Begins
  <2> QED BY <2>3, <2>4, <2>5 DEF Range
<1>7. DOMAIN s = 1 .. Len(s)
  BY <1>3
<1> QED BY <1>5, <1>6, <1>7 DEF Range, s

\* FlattenSeq begins with the first of the sequences.
LEMMA FlattenHead ==
  ASSUME NEW U, NEW ss \in Seq(Seq(U)), ss # <<>>
  PROVE  FlattenSeq(ss) = Head(ss) \o FlattenSeq(Tail(ss))
<1> DEFINE h == Head(ss)
           tt == Tail(ss)
           n == Len(tt)
<1>1. /\ h \in Seq(U) /\ tt \in Seq(Seq(U)) /\ n \in Nat /\ Len(ss) = n + 1
      /\ ss[1] = h /\ \A i \in 1 .. n : tt[i] = ss[i + 1] /\ tt[i] \in Seq(U)
  <2>1. h \in Seq(U) /\ tt \in Seq(Seq(U)) /\ n = Len(ss) - 1 /\ \A i \in 1 .. n : tt[i] = ss[i + 1]
    BY HeadTailProperties
  <2>2. Len(ss) \in Nat /\ Len(ss) # 0 /\ h = ss[1]
    BY EmptySeq
  <2> HIDE DEF h, tt
  <2>3. n \in Nat /\ Len(ss) = n + 1 /\ \A i \in 1 .. n : tt[i] \in Seq(U)
    BY <2>1, <2>2
  <2> QED
    BY <2>1, <2>2, <2>3
<1> HIDE DEF h, tt
<1>2. PICK f \in [0 .. n -> Seq(U)] : Steps(f, tt) /\ FlattenSeq(tt) = f[n]
  BY <1>1, FlattenSteps
<1>3. PICK g \in [0 .. Len(ss) -> Seq(U)] : Steps(g, ss) /\ FlattenSeq(ss) = g[Len(ss)]
  BY FlattenSteps
<1>4. /\ f[0] = <<>> /\ \A i \in 1 .. n : f[i] = f[i - 1] \o tt[i]
      /\ \A i \in 0 .. n : f[i] \in Seq(U)
  BY <1>2 DEF Steps
<1> HIDE DEF n
<1>5. g[0] = <<>> /\ \A i \in 1 .. n + 1 : g[i] = g[i - 1] \o ss[i]
  BY <1>1, <1>3 DEF Steps
<1> DEFINE F == [i \in 0 .. n |-> h \o f[i]]
           G == [i \in 0 .. n |-> g[i + 1]]
<1>6. F[0] = G[0]
  <2>1. g[1] = g[0] \o ss[1]
    <3>1. 1 \in 1 .. n + 1 /\ 1 - 1 = 0
      BY <1>1
    <3>2. g[1] = g[1 - 1] \o ss[1]
      BY ONLY <1>5, <3>1, Zenon
    <3> QED
      BY <3>1, <3>2, Zenon
  <2>2. <<>> \o h = h /\ h \o <<>> = h
    BY <1>1, ConcatEmptySeq
  <2>3. F[0] = h \o f[0] /\ G[0] = g[0 + 1] /\ 0 + 1 = 1
    BY <1>1
  <2> HIDE DEF F, G
  <2> QED
    BY <1>1, <1>4, <1>5, <2>1, <2>2, <2>3, Zenon
<1>7. ASSUME NEW i \in 1 .. n, F[i - 1] = G[i - 1] PROVE F[i] = G[i]
  <2> DEFINE x == f[i - 1]
             y == tt[i]
             j == i + 1
  <2>1. i \in 0 .. n /\ i - 1 \in 0 .. n /\ j \in 1 .. n + 1 /\ j - 1 = i /\ (i - 1) + 1 = i
    BY <1>1
  <2>2. F[i] = h \o f[i] /\ G[i] = g[j] /\ F[i - 1] = h \o x /\ G[i - 1] = g[i]
    BY <2>1
  <2>3. f[i] = x \o y /\ x \in Seq(U) /\ y \in Seq(U) /\ y = ss[j]
    BY <1>1, <1>4, <2>1
  <2> HIDE DEF F, G, x, y, j
  <2>4. g[j] = g[j - 1] \o ss[j]
    BY <1>5, <2>1
  <2>5. (h \o x) \o y = h \o (x \o y)
    <3>1. h \in Seq(U) /\ x \in Seq(U) /\ y \in Seq(U)
      BY <1>1, <2>3
    <3> QED
      BY ONLY <3>1, ConcatAssociative
  <2> QED
    BY <1>7, <2>1, <2>2, <2>3, <2>4, <2>5
<1>8. F[n] = G[n]
  <2> HIDE DEF F, G
  <2> QED
    BY <1>1, <1>6, <1>7, StepsAgree, ZenonT(20)
<1>9. h \o f[n] = g[n + 1]
  BY <1>1, <1>8
<1> QED
  BY <1>1, <1>2, <1>3, <1>9 DEF h, tt

\* What is behind the first of two sequences is the second.
LEMMA RestOfConcat ==
  ASSUME NEW U, NEW s \in Seq(U), NEW t \in Seq(U)
  PROVE  SubSeq(s \o t, Len(s) + 1, Len(s \o t)) = t
<1> DEFINE st == s \o t
           n == Len(s)
           l == Len(t)
           a == n + 1
           b == Len(st)
           x == SubSeq(st, a, b)
<1>1. /\ st \in Seq(U) /\ n \in Nat /\ l \in Nat /\ b = n + l
      /\ \A i \in 1 .. l : st[n + i] = t[i]
  BY Joined
<1> HIDE DEF st, n, l, b
<1>2. a \in Nat \ {0} /\ b \in Nat /\ a <= b + 1 /\ b <= Len(st) /\ b - a + 1 = l
  BY <1>1 DEF b
<1>3. \A i \in 1 .. l : a + i - 1 = n + i
  BY <1>1
<1> HIDE DEF a
<1>4. x \in Seq(U) /\ Len(x) = b - a + 1 /\ \A i \in 1 .. b - a + 1 : x[i] = st[a + i - 1]
  BY <1>1, <1>2, PieceOf
<1> HIDE DEF x
<1>5. \A i \in 1 .. l : x[i] = t[i]
  BY <1>1, <1>2, <1>3, <1>4
<1>6. x = t
  <2>1. Len(x) = Len(t) /\ \A i \in 1 .. Len(x) : x[i] = t[i]
    BY <1>2, <1>4, <1>5 DEF l
  <2> QED
    BY <1>4, <2>1, SeqEqual
<1> QED
  BY <1>6 DEF x, a, b, n, st

-----------------------------------------------------------------------------
(* The searches of Strings                                                  *)

\* p is where the needle is found first, from start on.
IsFirst(p, s, start, needle) ==
  \/ /\ p = NotFound
     /\ \A i \in start .. Len(s) : ~OccursAt(s, needle, i)
  \/ /\ p \in start .. Len(s) /\ OccursAt(s, needle, p)
     /\ \A i \in start .. p - 1 : ~OccursAt(s, needle, i)

\* The needle is found at i, character by character.
EachAt(s, needle, i) ==
  \A k \in 0 .. Len(needle) - 1 : i + k < Len(s) /\ CharAt(s, i + k) = CharAt(needle, k)

\* It is found so where it occurs.
LEMMA OccursEach ==
  ASSUME NEW U, NEW s \in Seq(U), NEW needle \in Seq(U), needle # <<>>, NEW i \in Nat
  PROVE  OccursAt(s, needle, i) <=> EachAt(s, needle, i)
<1>1. CASE i + Len(needle) <= Len(s)
  <2> DEFINE part == Part(s, i, Len(needle))
  <2>1. part \in Seq(U) /\ Len(part) = Len(needle)
        /\ \A k \in 1 .. Len(needle) : part[k] = s[i + k]
    BY <1>1 DEF Part
  <2> HIDE DEF part
  <2>2. part = needle <=> \A k \in 1 .. Len(needle) : part[k] = needle[k]
    BY <2>1, SeqEqual
  <2>3. (\A k \in 1 .. Len(needle) : s[i + k] = needle[k])
          <=> \A k \in 0 .. Len(needle) - 1 : CharAt(s, i + k) = CharAt(needle, k)
    <3>1. ASSUME \A k \in 1 .. Len(needle) : s[i + k] = needle[k], NEW k \in 0 .. Len(needle) - 1
          PROVE  CharAt(s, i + k) = CharAt(needle, k)
      <4>1. k + 1 \in 1 .. Len(needle) /\ i + k + 1 = i + (k + 1)
        OBVIOUS
      <4> QED BY <3>1, <4>1 DEF CharAt
    <3>2. ASSUME \A k \in 0 .. Len(needle) - 1 : CharAt(s, i + k) = CharAt(needle, k),
                 NEW k \in 1 .. Len(needle)
          PROVE  s[i + k] = needle[k]
      <4>1. k - 1 \in 0 .. Len(needle) - 1 /\ i + (k - 1) + 1 = i + k /\ (k - 1) + 1 = k
        OBVIOUS
      <4> QED BY <3>2, <4>1 DEF CharAt
    <3> QED BY <3>1, <3>2
  <2>4. \A k \in 0 .. Len(needle) - 1 : i + k < Len(s)
    BY <1>1
  <2>5. OccursAt(s, needle, i) <=> part = needle
    BY <1>1 DEF OccursAt, part
  <2> QED BY <2>1, <2>2, <2>3, <2>4, <2>5 DEF EachAt
<1>2. CASE ~(i + Len(needle) <= Len(s))
  <2>1. Len(needle) - 1 \in 0 .. Len(needle) - 1 /\ ~(i + (Len(needle) - 1) < Len(s))
    BY <1>2
  <2> QED BY <1>2, <2>1 DEF OccursAt, EachAt
<1> QED BY <1>1, <1>2

\* Where a needle occurs it lies in the text.
LEMMA OccursInside ==
  ASSUME NEW U, NEW s \in Seq(U), NEW needle \in Seq(U), needle # <<>>, NEW i \in Nat,
         OccursAt(s, needle, i)
  PROVE  i + Len(needle) <= Len(s) /\ i < Len(s)
BY DEF OccursAt

\* The first place is the one there is.
LEMMA FirstIsOne ==
  ASSUME NEW s, NEW needle, NEW start \in Nat, NEW p, NEW q, Len(s) \in Nat,
         IsFirst(p, s, start, needle), IsFirst(q, s, start, needle)
  PROVE  p = q
<1>1. CASE p = NotFound
  <2>1. \A i \in start .. Len(s) : ~OccursAt(s, needle, i)
    BY <1>1 DEF IsFirst, NotFound
  <2> QED BY <1>1, <2>1 DEF IsFirst
<1>2. CASE q = NotFound
  <2>1. \A i \in start .. Len(s) : ~OccursAt(s, needle, i)
    BY <1>2 DEF IsFirst, NotFound
  <2> QED BY <1>2, <2>1 DEF IsFirst
<1>3. CASE p # NotFound /\ q # NotFound
  <2>1. /\ p \in start .. Len(s) /\ OccursAt(s, needle, p)
        /\ q \in start .. Len(s) /\ OccursAt(s, needle, q)
        /\ ~(p \in start .. q - 1) /\ ~(q \in start .. p - 1)
    BY <1>3 DEF IsFirst
  <2> QED BY <2>1
<1> QED BY <1>1, <1>2, <1>3

\* Min and FirstOccurrence find it.
LEMMA FirstOccurrenceIsFirst ==
  ASSUME NEW s, NEW needle, NEW start \in Nat, Len(s) \in Nat
  PROVE  IsFirst(FirstOccurrence(s, start, needle), s, start, needle)
<1> DEFINE found == Occurrences(s, start, needle)
<1>1. CASE found = {}
  BY <1>1 DEF FirstOccurrence, IsFirst, Occurrences
<1>2. CASE found # {}
  <2>1. found \in SUBSET Nat
    BY DEF Occurrences
  <2>2. PICK x \in found : \A y \in found : x <= y
    BY <1>2, <2>1, LeastExists
  <2>3. Min(found) = x
    <3>1. Min(found) \in found /\ \A y \in found : Min(found) <= y
      BY <2>2 DEF Min
    <3>2. Min(found) <= x /\ x <= Min(found)
      BY <2>2, <3>1
    <3> QED BY <2>1, <2>2, <3>1, <3>2
  <2>4. FirstOccurrence(s, start, needle) = x
    BY <1>2, <2>3 DEF FirstOccurrence
  <2>5. x \in start .. Len(s) /\ OccursAt(s, needle, x)
    BY <2>2 DEF Occurrences
  <2>6. ASSUME NEW i \in start .. x - 1 PROVE ~OccursAt(s, needle, i)
    <3>1. i \in start .. Len(s) /\ ~(x <= i)
      BY <2>5
    <3>2. i \notin found
      BY <2>2, <3>1
    <3> QED BY <3>1, <3>2 DEF Occurrences
  <2> QED BY <2>4, <2>5, <2>6 DEF IsFirst
<1> QED BY <1>1, <1>2

\* From a place where the needle does not occur the search goes on at the next one.
LEMMA FirstFromNext ==
  ASSUME NEW s, NEW needle, Len(s) \in Nat, NEW start \in 0 .. Len(s), NEW p,
         ~OccursAt(s, needle, start), IsFirst(p, s, start + 1, needle)
  PROVE  IsFirst(p, s, start, needle)
<1>1. \A i \in Nat : i >= start => i = start \/ i >= start + 1
  OBVIOUS
<1>2. CASE p = NotFound
  <2>1. \A i \in start + 1 .. Len(s) : ~OccursAt(s, needle, i)
    BY <1>2 DEF IsFirst, NotFound
  <2> QED BY <1>2, <2>1 DEF IsFirst
<1>3. CASE p # NotFound
  <2>1. /\ p \in start + 1 .. Len(s) /\ OccursAt(s, needle, p)
        /\ \A i \in start + 1 .. p - 1 : ~OccursAt(s, needle, i)
    BY <1>3 DEF IsFirst
  <2> QED BY <2>1 DEF IsFirst
<1> QED BY <1>2, <1>3

\* The loop of pos(), as a function of where the match began and how far it is.
PosLoop(f, s, needle) ==
  f = [at \in (0 .. Len(s)) \X (0 .. Len(needle) - 1) |->
         IF at[1] + at[2] >= Len(s) THEN NotFound
         ELSE IF CharAt(s, at[1] + at[2]) # CharAt(needle, at[2]) THEN f[<<at[1] + 1, 0>>]
         ELSE IF at[2] + 1 = Len(needle) THEN at[1]
         ELSE f[<<at[1], at[2] + 1>>]]

\* What is left of the needle is found at the place that is looked at.
RestMatches(s, needle, first, matched) ==
  \A k \in matched .. Len(needle) - 1 :
    first + k < Len(s) /\ CharAt(s, first + k) = CharAt(needle, k)

\* What the loop finds from each of its states.
Found(s, needle, first, matched) ==
  IF RestMatches(s, needle, first, matched) THEN first ELSE FirstOccurrence(s, first + 1, needle)

\* A round of the loop.
LEMMA FoundMoves ==
  ASSUME NEW U, NEW s \in Seq(U), NEW needle \in Seq(U), needle # <<>>,
         NEW first \in 0 .. Len(s), NEW matched \in 0 .. Len(needle) - 1
  PROVE  Found(s, needle, first, matched) =
           IF first + matched >= Len(s) THEN NotFound
           ELSE IF CharAt(s, first + matched) # CharAt(needle, matched) THEN Found(s, needle, first + 1, 0)
           ELSE IF matched + 1 = Len(needle) THEN first
           ELSE Found(s, needle, first, matched + 1)
<1> DEFINE next == FirstOccurrence(s, first + 1, needle)
<1>0. first \in Nat /\ matched \in Nat /\ first + 1 \in Nat /\ Len(s) \in Nat
  OBVIOUS
<1>1. IsFirst(next, s, first + 1, needle)
  BY <1>0, FirstOccurrenceIsFirst
<1>2. matched \in matched .. Len(needle) - 1
  OBVIOUS
<1> HIDE DEF next
<1>3. CASE first + matched >= Len(s)
  <2>1. ~RestMatches(s, needle, first, matched)
    <3>1. ~(first + matched < Len(s))
      BY <1>3
    <3> QED BY <1>2, <3>1 DEF RestMatches
  <2>2. ASSUME NEW i \in first + 1 .. Len(s) PROVE ~OccursAt(s, needle, i)
    <3>1. ~(i + Len(needle) <= Len(s))
      BY <1>3
    <3> QED BY <3>1 DEF OccursAt
  <2>3. next = NotFound
    BY <1>1, <2>2 DEF IsFirst
  <2> QED BY <1>3, <2>1, <2>3 DEF Found, next
<1>4. CASE first + matched < Len(s) /\ CharAt(s, first + matched) # CharAt(needle, matched)
  <2>1. ~RestMatches(s, needle, first, matched)
    BY <1>2, <1>4 DEF RestMatches
  <2>2. Found(s, needle, first, matched) = next
    BY <2>1 DEF Found, next
  <2>3. first + 1 <= Len(s) /\ first + 1 \in 0 .. Len(s)
    BY <1>4
  <2>4. RestMatches(s, needle, first + 1, 0) <=> OccursAt(s, needle, first + 1)
    BY <1>0, OccursEach DEF RestMatches, EachAt
  <2>5. CASE OccursAt(s, needle, first + 1)
    <3>1. IsFirst(first + 1, s, first + 1, needle)
      BY <1>0, <2>3, <2>5 DEF IsFirst
    <3>2. next = first + 1
      BY <1>0, <1>1, <3>1, FirstIsOne
    <3> QED BY <1>4, <2>2, <2>4, <2>5, <3>2 DEF Found
  <2>6. CASE ~OccursAt(s, needle, first + 1)
    <3> DEFINE later == FirstOccurrence(s, first + 1 + 1, needle)
    <3>1. IsFirst(later, s, first + 1 + 1, needle)
      BY <1>0, FirstOccurrenceIsFirst
    <3> HIDE DEF later
    <3>2. IsFirst(later, s, first + 1, needle)
      BY <1>0, <2>3, <2>6, <3>1, FirstFromNext
    <3>3. next = later
      BY <1>0, <1>1, <3>2, FirstIsOne
    <3> QED BY <1>4, <2>2, <2>4, <2>6, <3>3 DEF Found, later
  <2> QED BY <2>5, <2>6
<1>5. CASE first + matched < Len(s) /\ CharAt(s, first + matched) = CharAt(needle, matched)
  <2>1. CASE matched + 1 = Len(needle)
    <3>1. \A k \in matched .. Len(needle) - 1 : k = matched
      BY <2>1
    <3>2. RestMatches(s, needle, first, matched)
      BY <1>5, <3>1 DEF RestMatches
    <3> QED BY <1>5, <2>1, <3>2 DEF Found
  <2>2. CASE matched + 1 # Len(needle)
    <3>1. \A k \in matched .. Len(needle) - 1 : k = matched \/ k \in matched + 1 .. Len(needle) - 1
      OBVIOUS
    <3>2. \A k \in matched + 1 .. Len(needle) - 1 : k \in matched .. Len(needle) - 1
      OBVIOUS
    <3>3. RestMatches(s, needle, first, matched) <=> RestMatches(s, needle, first, matched + 1)
      BY <1>5, <3>1, <3>2 DEF RestMatches
    <3> QED BY <1>5, <2>2, <3>3 DEF Found
  <2> QED BY <2>1, <2>2
<1> QED BY <1>0, <1>3, <1>4, <1>5

\* There is such a loop.
LEMMA PosLoopExists ==
  ASSUME NEW U, NEW s \in Seq(U), NEW needle \in Seq(U), needle # <<>>
  PROVE  \E f : PosLoop(f, s, needle)
<1> DEFINE D == (0 .. Len(s)) \X (0 .. Len(needle) - 1)
           f == [at \in D |-> Found(s, needle, at[1], at[2])]
<1>1. ASSUME NEW at \in D
      PROVE  f[at] = IF at[1] + at[2] >= Len(s) THEN NotFound
                     ELSE IF CharAt(s, at[1] + at[2]) # CharAt(needle, at[2]) THEN f[<<at[1] + 1, 0>>]
                     ELSE IF at[2] + 1 = Len(needle) THEN at[1]
                     ELSE f[<<at[1], at[2] + 1>>]
  <2>1. at[1] \in 0 .. Len(s) /\ at[2] \in 0 .. Len(needle) - 1
    OBVIOUS
  <2>2. at[1] + at[2] < Len(s) => f[<<at[1] + 1, 0>>] = Found(s, needle, at[1] + 1, 0)
    BY <2>1
  <2>3. at[2] + 1 # Len(needle) => f[<<at[1], at[2] + 1>>] = Found(s, needle, at[1], at[2] + 1)
    BY <2>1
  <2>4. f[at] = Found(s, needle, at[1], at[2])
    OBVIOUS
  <2> HIDE DEF f, D
  <2> DEFINE a == at[1]
             b == at[2]
  <2>5. a \in 0 .. Len(s) /\ b \in 0 .. Len(needle) - 1
    BY <2>1
  <2> HIDE DEF a, b
  <2>6. Found(s, needle, a, b) =
          IF a + b >= Len(s) THEN NotFound
          ELSE IF CharAt(s, a + b) # CharAt(needle, b) THEN Found(s, needle, a + 1, 0)
          ELSE IF b + 1 = Len(needle) THEN a
          ELSE Found(s, needle, a, b + 1)
    BY <2>5, FoundMoves
  <2>7. ~(a + b >= Len(s)) => a + b < Len(s)
    BY <2>5
  <2> QED BY <2>2, <2>3, <2>4, <2>6, <2>7 DEF a, b
<1>2. f = [at \in D |-> f[at]]
  OBVIOUS
<1> HIDE DEF f
<1>3. PosLoop(f, s, needle)
  BY <1>1, <1>2 DEF PosLoop
<1> QED BY <1>3

\* And it finds what was said.
LEMMA PosLoopFinds ==
  ASSUME NEW U, NEW s \in Seq(U), NEW needle \in Seq(U), needle # <<>>, NEW f,
         PosLoop(f, s, needle),
         NEW first \in 0 .. Len(s), NEW matched \in 0 .. Len(needle) - 1
  PROVE  f[<<first, matched>>] = Found(s, needle, first, matched)
<1> DEFINE Right(a, b) == f[<<a, b>>] = Found(s, needle, a, b)
           Behind == {n \in Nat : n <= Len(s) => \A b \in 0 .. Len(needle) - 1 : Right(Len(s) - n, b)}
<1>1. ASSUME NEW a \in 0 .. Len(s), NEW b \in 0 .. Len(needle) - 1
      PROVE  f[<<a, b>>] = IF a + b >= Len(s) THEN NotFound
                           ELSE IF CharAt(s, a + b) # CharAt(needle, b) THEN f[<<a + 1, 0>>]
                           ELSE IF b + 1 = Len(needle) THEN a
                           ELSE f[<<a, b + 1>>]
  BY DEF PosLoop
<1>2. ASSUME NEW a \in 0 .. Len(s), a < Len(s) => Right(a + 1, 0)
      PROVE  \A b \in 0 .. Len(needle) - 1 : Right(a, b)
  <2> DEFINE Left == {n \in Nat : n < Len(needle) => Right(a, Len(needle) - 1 - n)}
  <2>1. ASSUME NEW b \in 0 .. Len(needle) - 1, b + 1 < Len(needle) => Right(a, b + 1)
        PROVE  Right(a, b)
    <3>1. a + b < Len(s) => a < Len(s)
      OBVIOUS
    <3>2. b + 1 # Len(needle) => b + 1 < Len(needle)
      OBVIOUS
    <3>3. Found(s, needle, a, b) =
            IF a + b >= Len(s) THEN NotFound
            ELSE IF CharAt(s, a + b) # CharAt(needle, b) THEN Found(s, needle, a + 1, 0)
            ELSE IF b + 1 = Len(needle) THEN a
            ELSE Found(s, needle, a, b + 1)
      BY FoundMoves
    <3>4. ~(a + b >= Len(s)) => a + b < Len(s)
      OBVIOUS
    <3> QED BY <1>1, <1>2, <2>1, <3>1, <3>2, <3>3, <3>4 DEF Right
  <2> HIDE DEF Right
  <2>2. 0 \in Left
    <3>1. Len(needle) - 1 \in 0 .. Len(needle) - 1 /\ ~((Len(needle) - 1) + 1 < Len(needle))
          /\ Len(needle) - 1 - 0 = Len(needle) - 1
      OBVIOUS
    <3> QED BY <2>1, <3>1
  <2>3. ASSUME NEW n \in Nat, n \in Left PROVE n + 1 \in Left
    <3> SUFFICES ASSUME n + 1 < Len(needle) PROVE Right(a, Len(needle) - 1 - (n + 1))
      OBVIOUS
    <3>1. Len(needle) - 1 - (n + 1) \in 0 .. Len(needle) - 1
          /\ (Len(needle) - 1 - (n + 1)) + 1 = Len(needle) - 1 - n
      OBVIOUS
    <3>2. Right(a, Len(needle) - 1 - n)
      BY <2>3
    <3> QED BY <2>1, <3>1, <3>2
  <2> HIDE DEF Left
  <2>4. ASSUME NEW b \in 0 .. Len(needle) - 1 PROVE Right(a, b)
    <3>1. Len(needle) - 1 - b \in Nat /\ Len(needle) - 1 - b < Len(needle)
          /\ Len(needle) - 1 - (Len(needle) - 1 - b) = b
      OBVIOUS
    <3>2. Len(needle) - 1 - b \in Left
      BY <2>2, <2>3, <3>1, SetInduction
    <3> QED BY <3>1, <3>2 DEF Left
  <2> QED BY <2>4
<1> HIDE DEF Right
<1>3. 0 \in Behind
  <2>1. Len(s) - 0 = Len(s) /\ Len(s) \in 0 .. Len(s) /\ ~(Len(s) < Len(s))
    OBVIOUS
  <2> QED BY <1>2, <2>1
<1>4. ASSUME NEW n \in Nat, n \in Behind PROVE n + 1 \in Behind
  <2> SUFFICES ASSUME n + 1 <= Len(s) PROVE \A b \in 0 .. Len(needle) - 1 : Right(Len(s) - (n + 1), b)
    OBVIOUS
  <2>1. Len(s) - (n + 1) \in 0 .. Len(s) /\ (Len(s) - (n + 1)) + 1 = Len(s) - n /\ n <= Len(s)
    OBVIOUS
  <2>2. 0 \in 0 .. Len(needle) - 1
    OBVIOUS
  <2>3. Right(Len(s) - n, 0)
    BY <1>4, <2>1, <2>2
  <2> QED BY <1>2, <2>1, <2>3
<1> HIDE DEF Behind
<1>5. Len(s) - first \in Nat /\ Len(s) - first <= Len(s) /\ Len(s) - (Len(s) - first) = first
  OBVIOUS
<1>6. Len(s) - first \in Behind
  BY <1>3, <1>4, <1>5, SetInduction
<1>7. Right(first, matched)
  BY <1>5, <1>6 DEF Behind
<1> QED BY <1>7 DEF Right

\* String::pos finds the first occurrence of the needle.
THEOREM PosFindsFirst ==
  ASSUME NEW U, NEW s \in Seq(U), NEW needle \in Seq(U), needle # <<>>, NEW start \in 0 .. Len(s)
  PROVE  /\ pos(s, start, needle) = FirstOccurrence(s, start, needle)
         /\ IsFirst(pos(s, start, needle), s, start, needle)
<1> DEFINE f == CHOOSE f : PosLoop(f, s, needle)
<1>1. PosLoop(f, s, needle)
  BY PosLoopExists
<1>2. pos(s, start, needle) = f[<<start, 0>>]
  BY Zenon DEF pos, PosLoop
<1> HIDE DEF f
<1>3. 0 \in 0 .. Len(needle) - 1 /\ start \in Nat
  OBVIOUS
<1>4. pos(s, start, needle) = Found(s, needle, start, 0)
  BY <1>1, <1>2, <1>3, PosLoopFinds
<1>5. IsFirst(FirstOccurrence(s, start, needle), s, start, needle)
  BY <1>3, FirstOccurrenceIsFirst
<1>6. RestMatches(s, needle, start, 0) <=> OccursAt(s, needle, start)
  <2>1. OccursAt(s, needle, start) <=> EachAt(s, needle, start)
    BY <1>3, OccursEach
  <2> QED BY <2>1 DEF RestMatches, EachAt
<1>7. CASE OccursAt(s, needle, start)
  <2>1. IsFirst(start, s, start, needle)
    BY <1>3, <1>7 DEF IsFirst
  <2>2. FirstOccurrence(s, start, needle) = start
    BY <1>3, <1>5, <2>1, FirstIsOne
  <2> QED BY <1>4, <1>5, <1>6, <1>7, <2>2 DEF Found
<1>8. CASE ~OccursAt(s, needle, start)
  <2> DEFINE next == FirstOccurrence(s, start + 1, needle)
  <2>1. IsFirst(next, s, start + 1, needle)
    BY <1>3, FirstOccurrenceIsFirst
  <2> HIDE DEF next
  <2>2. IsFirst(next, s, start, needle)
    BY <1>8, <2>1, FirstFromNext
  <2>3. FirstOccurrence(s, start, needle) = next
    BY <1>3, <1>5, <2>2, FirstIsOne
  <2> QED BY <1>4, <1>5, <1>6, <1>8, <2>3 DEF Found, next
<1> QED BY <1>7, <1>8

\* Induction downwards: a set with i in it where it has all from i + 1 to n.
LEMMA DownInduction ==
  ASSUME NEW n \in Nat, NEW S, \A i \in 0 .. n : (\A j \in i + 1 .. n : j \in S) => i \in S
  PROVE  0 .. n \subseteq S
<1> DEFINE T == {d \in Nat : \A i \in 0 .. n : n - i <= d => i \in S}
<1>1. 0 \in T
  <2> SUFFICES ASSUME NEW i \in 0 .. n, n - i <= 0 PROVE i \in S
    OBVIOUS
  <2>1. i + 1 .. n = {}
    OBVIOUS
  <2> QED BY <2>1
<1>2. ASSUME NEW d \in Nat, d \in T PROVE d + 1 \in T
  <2> SUFFICES ASSUME NEW i \in 0 .. n, n - i <= d + 1 PROVE i \in S
    OBVIOUS
  <2>1. \A j \in i + 1 .. n : j \in 0 .. n /\ n - j <= d
    OBVIOUS
  <2>2. \A j \in i + 1 .. n : j \in S
    BY <1>2, <2>1
  <2> QED BY <2>2
<1> HIDE DEF T
<1>3. n \in T
  BY <1>1, <1>2, SetInduction
<1> QED BY <1>3 DEF T

\* f[i] is base[i] where it ends, and elsewhere what is before and f further on.
Unrolls(f, n, ends, base, before, next) ==
  \A i \in 0 .. n : f[i] = IF ends[i] THEN base[i] ELSE before[i] \o f[next[i]]

\* There is such a function.
LEMMA UnrolledExists ==
  ASSUME NEW U, NEW n \in Nat, NEW ends, NEW base \in [0 .. n -> Seq(U)],
         NEW before \in [0 .. n -> Seq(U)], NEW next,
         \A i \in 0 .. n : ~ends[i] => next[i] \in i + 1 .. n
  PROVE  \E f \in [0 .. n -> Seq(U)] : Unrolls(f, n, ends, base, before, next)
<1> DEFINE Above(f, m) == /\ f \in [0 .. n -> Seq(U)]
                         /\ \A i \in n - m .. n : f[i] = IF ends[i] THEN base[i] ELSE before[i] \o f[next[i]]
           S == {m \in Nat : m <= n => \E f : Above(f, m)}
<1>1. 0 \in S
  <2>1. ends[n]
    <3>1. n \in 0 .. n /\ n + 1 .. n = {}
      OBVIOUS
    <3> QED BY <3>1
  <2>2. Above(base, 0)
    BY <2>1
  <2> HIDE DEF Above
  <2> QED BY <2>2
<1>2. ASSUME NEW m \in Nat, m \in S PROVE m + 1 \in S
  <2> HIDE DEF Above
  <2> SUFFICES ASSUME m + 1 <= n PROVE \E f : Above(f, m + 1)
    OBVIOUS
  <2>1. PICK f : Above(f, m)
    BY <1>2
  <2> DEFINE k == n - (m + 1)
             v == IF ends[k] THEN base[k] ELSE before[k] \o f[next[k]]
             g == [f EXCEPT ![k] = v]
  <2>2. k \in 0 .. n /\ n - m = k + 1 /\ k \in Nat
    OBVIOUS
  <2> HIDE DEF k
  <2>3. f \in [0 .. n -> Seq(U)]
        /\ \A i \in k + 1 .. n : f[i] = IF ends[i] THEN base[i] ELSE before[i] \o f[next[i]]
    BY <2>1, <2>2 DEF Above
  <2>4. v \in Seq(U)
    <3>1. CASE ends[k]
      BY <2>2, <3>1
    <3>2. CASE ~ends[k]
      <4>1. next[k] \in 0 .. n
        BY <2>2, <3>2
      <4>2. before[k] \in Seq(U) /\ f[next[k]] \in Seq(U)
        BY <2>2, <2>3, <4>1
      <4> QED BY <3>2, <4>2
    <3> QED BY <3>1, <3>2
  <2> HIDE DEF v
  <2>5. g \in [0 .. n -> Seq(U)] /\ g[k] = v /\ \A i \in k + 1 .. n : g[i] = f[i]
    BY <2>2, <2>3, <2>4
  <2> HIDE DEF g
  <2>6. ASSUME NEW i \in k .. n
        PROVE  g[i] = IF ends[i] THEN base[i] ELSE before[i] \o g[next[i]]
    <3>1. ~ends[i] => next[i] \in k + 1 .. n
      BY <2>2
    <3>2. ~ends[i] => g[next[i]] = f[next[i]]
      BY <2>5, <3>1
    <3>3. CASE i = k
      BY <2>5, <3>2, <3>3 DEF v
    <3>4. CASE i # k
      <4>1. i \in k + 1 .. n
        BY <2>2, <3>4
      <4> QED BY <2>3, <2>5, <3>2, <4>1
    <3> QED BY <3>3, <3>4
  <2>7. Above(g, m + 1)
    BY <2>5, <2>6 DEF k, Above
  <2> QED BY <2>7
<1> HIDE DEF S
<1>3. n \in S
  BY <1>1, <1>2, SetInduction
<1>4. PICK f : Above(f, n)
  <2> HIDE DEF Above
  <2> QED BY <1>3 DEF S
<1>5. n - n = 0
  OBVIOUS
<1> QED BY <1>4, <1>5 DEF Unrolls

\* And one only.
LEMMA UnrolledIsOne ==
  ASSUME NEW n \in Nat, NEW ends, NEW base, NEW before, NEW next, NEW f, NEW g,
         \A i \in 0 .. n : ~ends[i] => next[i] \in i + 1 .. n,
         Unrolls(f, n, ends, base, before, next), Unrolls(g, n, ends, base, before, next)
  PROVE  \A i \in 0 .. n : f[i] = g[i]
<1> DEFINE S == {i \in 0 .. n : f[i] = g[i]}
<1>1. ASSUME NEW i \in 0 .. n, \A j \in i + 1 .. n : j \in S PROVE i \in S
  <2>1. ~ends[i] => f[next[i]] = g[next[i]]
    BY <1>1
  <2> QED BY <2>1 DEF Unrolls
<1> HIDE DEF S
<1>2. 0 .. n \subseteq S
  BY <1>1, DownInduction
<1> QED BY <1>2 DEF S

-----------------------------------------------------------------------------
(* String::replace                                                          *)

\* The loop of replace(), as a function of where in the text it is.
ReplaceLoop(f, s, a, b) ==
  f = [from \in 0 .. Len(s) |->
         IF pos(s, from, a) = NotFound THEN Rest(s, from)
         ELSE Part(s, from, pos(s, from, a) - from) \o b \o f[pos(s, from, a) + Len(a)]]

\* What pos() answers.
LEMMA PosAnswers ==
  ASSUME NEW U, NEW s \in Seq(U), NEW needle \in Seq(U), needle # <<>>, NEW start \in 0 .. Len(s)
  PROVE  LET p == pos(s, start, needle) IN
         p # NotFound => /\ p \in start .. Len(s) /\ p + Len(needle) \in start + 1 .. Len(s)
                         /\ OccursAt(s, needle, p)
<1> DEFINE p == pos(s, start, needle)
<1>1. IsFirst(p, s, start, needle)
  BY PosFindsFirst
<1> HIDE DEF p
<1>2. ASSUME p # NotFound
      PROVE  p \in start .. Len(s) /\ p + Len(needle) \in start + 1 .. Len(s) /\ OccursAt(s, needle, p)
  <2>1. p \in start .. Len(s) /\ OccursAt(s, needle, p)
    BY <1>1, <1>2 DEF IsFirst
  <2>2. p + Len(needle) <= Len(s) /\ Len(needle) > 0
    BY <2>1 DEF OccursAt
  <2> QED BY <2>1, <2>2
<1> QED BY <1>2 DEF p

\* There is such a loop, and replace() answers with what it has from the start.
LEMMA ReplaceIsTheLoop ==
  ASSUME NEW U, NEW s \in Seq(U), NEW a \in Seq(U), NEW b \in Seq(U), a # <<>>
  PROVE  \E f \in [0 .. Len(s) -> Seq(U)] : ReplaceLoop(f, s, a, b) /\ replace(s, a, b) = f[0]
<1> DEFINE n == Len(s)
           p(i) == pos(s, i, a)
           ends == [i \in 0 .. n |-> p(i) = NotFound]
           base == [i \in 0 .. n |-> Rest(s, i)]
           before == [i \in 0 .. n |-> IF ends[i] THEN <<>> ELSE Part(s, i, p(i) - i) \o b]
           next == [i \in 0 .. n |-> p(i) + Len(a)]
<1>0. n \in Nat
  OBVIOUS
<1>1. ASSUME NEW i \in 0 .. n, p(i) # NotFound PROVE p(i) \in i .. n /\ p(i) + Len(a) \in i + 1 .. n
  BY <1>1, PosAnswers
<1> HIDE DEF p
<1>2. base \in [0 .. n -> Seq(U)]
  BY DEF Rest
<1>3. before \in [0 .. n -> Seq(U)]
  <2>1. ASSUME NEW i \in 0 .. n, p(i) # NotFound PROVE Part(s, i, p(i) - i) \o b \in Seq(U)
    <3>1. p(i) \in i .. n
      BY <1>1, <2>1
    <3>2. Part(s, i, p(i) - i) \in Seq(U)
      BY <3>1 DEF Part
    <3> QED BY <3>2
  <2> HIDE DEF n
  <2>2. <<>> \in Seq(U)
    OBVIOUS
  <2> QED BY <2>1, <2>2
<1>4. \A i \in 0 .. n : ~ends[i] => next[i] \in i + 1 .. n
  BY <1>1
<1> HIDE DEF base, before
<1>5. PICK f \in [0 .. n -> Seq(U)] : Unrolls(f, n, ends, base, before, next)
  BY <1>0, <1>2, <1>3, <1>4, UnrolledExists, Zenon
<1>6. ASSUME NEW i \in 0 .. n
      PROVE  f[i] = IF p(i) = NotFound THEN Rest(s, i) ELSE Part(s, i, p(i) - i) \o b \o f[p(i) + Len(a)]
  <2>1. f[i] = IF ends[i] THEN base[i] ELSE before[i] \o f[next[i]]
    BY <1>5 DEF Unrolls
  <2> QED BY <2>1 DEF base, before
<1>7. ReplaceLoop(f, s, a, b)
  BY <1>6 DEF ReplaceLoop, p
<1> DEFINE g == CHOOSE g : ReplaceLoop(g, s, a, b)
<1>8. ReplaceLoop(g, s, a, b)
  BY <1>7
<1>9. replace(s, a, b) = g[0]
  BY Zenon DEF replace, ReplaceLoop
<1> HIDE DEF g
<1>10. Unrolls(g, n, ends, base, before, next)
  <2> SUFFICES ASSUME NEW i \in 0 .. n PROVE g[i] = IF ends[i] THEN base[i] ELSE before[i] \o g[next[i]]
    BY DEF Unrolls
  <2>1. g[i] = IF p(i) = NotFound THEN Rest(s, i) ELSE Part(s, i, p(i) - i) \o b \o g[p(i) + Len(a)]
    BY <1>8 DEF ReplaceLoop, p
  <2> QED BY <2>1 DEF base, before
<1> HIDE DEF ends, next
<1>11. 0 \in 0 .. n /\ \A i \in 0 .. n : f[i] = g[i]
  <2>1. \A i \in 0 .. n : f[i] = g[i]
    BY <1>0, <1>4, <1>5, <1>10, UnrolledIsOne
  <2> QED BY <2>1
<1> QED BY <1>5, <1>7, <1>9, <1>11

\* r is s, of length l, with t behind it, of length m.
Joins(U, r, s, l, t, m) ==
  /\ r \in Seq(U) /\ l \in Nat /\ m \in Nat /\ Len(r) = l + m
  /\ \A i \in 1 .. l : r[i] = s[i]
  /\ \A i \in 1 .. m : r[l + i] = t[i]

\* A text behind a text.
LEMMA JoinsThem ==
  ASSUME NEW U, NEW s \in Seq(U), NEW t \in Seq(U)
  PROVE  Joins(U, s \o t, s, Len(s), t, Len(t))
BY Joined DEF Joins

\* What is left of a text from a place on.
LEMMA RestIs ==
  ASSUME NEW U, NEW s \in Seq(U), NEW j \in 0 .. Len(s)
  PROVE  /\ Rest(s, j) \in Seq(U) /\ Len(Rest(s, j)) = Len(s) - j
         /\ \A i \in 1 .. Len(s) - j : Rest(s, j)[i] = s[j + i]
<1> DEFINE n == Len(s)
           a == j + 1
           r == SubSeq(s, a, n)
<1>1. /\ n \in Nat /\ a \in Nat \ {0} /\ a <= n + 1 /\ n <= Len(s) /\ n - a + 1 = Len(s) - j
      /\ \A i \in 1 .. Len(s) - j : a + i - 1 = j + i
  OBVIOUS
<1> HIDE DEF n, a
<1>2. r \in Seq(U) /\ Len(r) = n - a + 1 /\ \A i \in 1 .. n - a + 1 : r[i] = s[a + i - 1]
  BY <1>1, PieceOf
<1>3. Rest(s, j) = r
  BY DEF Rest, a, n
<1> QED BY <1>1, <1>2, <1>3

\* Of a text what is before a place.
LEMMA FirstPart ==
  ASSUME NEW U, NEW s \in Seq(U), NEW n \in 0 .. Len(s)
  PROVE  /\ SubSeq(s, 1, n) \in Seq(U) /\ Len(SubSeq(s, 1, n)) = n
         /\ \A i \in 1 .. n : SubSeq(s, 1, n)[i] = s[i]
OBVIOUS

\* r is the part of s from `first` on, of that length.
IsPiece(r, U, s, first, length) ==
  /\ r \in Seq(U) /\ Len(r) = length
  /\ \A i \in 1 .. length : r[i] = s[first + i]

\* A part of a text is as long as was asked for, and its characters are those of the text.
LEMMA PartIs ==
  ASSUME NEW U, NEW s \in Seq(U), NEW first \in Nat, NEW length \in Nat, first + length <= Len(s)
  PROVE  IsPiece(Part(s, first, length), U, s, first, length)
<1> DEFINE b == first + length
           a == first + 1
           r == SubSeq(s, a, b)
<1>1. /\ b \in Nat /\ a \in Nat \ {0} /\ a <= b + 1 /\ b <= Len(s) /\ b - a + 1 = length
      /\ \A i \in 1 .. length : a + i - 1 = first + i
  OBVIOUS
<1> HIDE DEF b, a
<1>2. r \in Seq(U) /\ Len(r) = b - a + 1 /\ \A i \in 1 .. b - a + 1 : r[i] = s[a + i - 1]
  BY <1>1, PieceOf
<1>3. Part(s, first, length) = r
  BY DEF Part, a, b
<1> QED BY <1>1, <1>2, <1>3 DEF IsPiece

\* Behind other text a needle occurs where it does without.
LEMMA OccursBehind ==
  ASSUME NEW U, NEW x \in Seq(U), NEW s \in Seq(U), NEW j \in 0 .. Len(s),
         NEW needle \in Seq(U), needle # <<>>, NEW i \in 0 .. Len(s) - j
  PROVE  OccursAt(x \o Rest(s, j), needle, Len(x) + i) <=> OccursAt(s, needle, j + i)
<1> DEFINE r == Rest(s, j)
           c == x \o r
           l == Len(x)
           n == Len(s)
           m == n - j
           li == l + i
           ji == j + i
<1>1. r \in Seq(U) /\ Len(r) = m /\ \A k \in 1 .. m : r[k] = s[j + k]
  BY RestIs
<1>2. l \in Nat /\ n \in Nat /\ j \in 0 .. n /\ m \in Nat /\ li \in Nat /\ ji \in Nat /\ m = n - j
      /\ li = l + i /\ ji = j + i /\ i \in Nat
  OBVIOUS
<1> HIDE DEF r
<1>3. c \in Seq(U) /\ Len(c) = l + Len(r) /\ \A k \in 1 .. Len(r) : c[l + k] = r[k]
  <2>1. Joins(U, c, x, l, r, Len(r))
    BY <1>1, JoinsThem
  <2> HIDE DEF c, l
  <2> QED BY <2>1 DEF Joins
<1> HIDE DEF c, l, n, m, li, ji
<1>4. OccursAt(c, needle, li) <=> EachAt(c, needle, li)
  BY <1>2, <1>3, OccursEach
<1>5. OccursAt(s, needle, ji) <=> EachAt(s, needle, ji)
  BY <1>2, OccursEach
<1>6. ASSUME NEW k \in Nat
      PROVE  /\ li + k < Len(c) <=> ji + k < Len(s)
             /\ li + k < Len(c) => CharAt(c, li + k) = CharAt(s, ji + k)
  <2>1. li + k < Len(c) <=> ji + k < Len(s)
    BY <1>1, <1>2, <1>3 DEF n
  <2>2. ASSUME li + k < Len(c) PROVE CharAt(c, li + k) = CharAt(s, ji + k)
    <3> DEFINE q == i + k + 1
    <3>1. q \in 1 .. m /\ li + k + 1 = l + q /\ ji + k + 1 = j + q
      BY <1>1, <1>2, <1>3, <2>2
    <3> HIDE DEF q
    <3>2. c[l + q] = r[q] /\ r[q] = s[j + q]
      BY <1>1, <1>3, <3>1
    <3> QED BY <3>1, <3>2 DEF CharAt
  <2> QED BY <2>1, <2>2
<1>7. OccursAt(c, needle, li) <=> OccursAt(s, needle, ji)
  <2>1. Len(needle) \in Nat /\ \A k \in 0 .. Len(needle) - 1 : k \in Nat
    OBVIOUS
  <2> QED BY <1>4, <1>5, <1>6, <2>1 DEF EachAt
<1> QED BY <1>7 DEF c, r, l, li, ji

\* And is found there.
LEMMA PosBehind ==
  ASSUME NEW U, NEW x \in Seq(U), NEW s \in Seq(U), NEW j \in 0 .. Len(s),
         NEW needle \in Seq(U), needle # <<>>
  PROVE  pos(x \o Rest(s, j), Len(x), needle) =
           IF pos(s, j, needle) = NotFound THEN NotFound ELSE Len(x) + (pos(s, j, needle) - j)
<1> DEFINE c == x \o Rest(s, j)
           l == Len(x)
           p == pos(s, j, needle)
           q == IF p = NotFound THEN NotFound ELSE l + (p - j)
           found == pos(c, l, needle)
<1>1. IsFirst(p, s, j, needle)
  BY PosFindsFirst
<1>2. Rest(s, j) \in Seq(U) /\ Len(Rest(s, j)) = Len(s) - j
  BY RestIs
<1>3. c \in Seq(U) /\ Len(c) = l + (Len(s) - j) /\ l \in Nat /\ Len(s) \in Nat /\ l \in 0 .. Len(c)
  <2>1. Joins(U, c, x, l, Rest(s, j), Len(s) - j)
    BY <1>2, JoinsThem
  <2>2. l \in Nat /\ Len(s) \in Nat /\ Len(s) - j \in Nat
    OBVIOUS
  <2> HIDE DEF c, l
  <2>3. c \in Seq(U) /\ Len(c) = l + (Len(s) - j)
    BY <2>1 DEF Joins
  <2> QED BY <2>2, <2>3
<1>4. ASSUME NEW i \in 0 .. Len(s) - j PROVE OccursAt(c, needle, l + i) <=> OccursAt(s, needle, j + i)
  BY OccursBehind
<1> HIDE DEF c, l, p
<1>5. IsFirst(found, c, l, needle)
  BY <1>3, PosFindsFirst
<1> HIDE DEF found
<1>6. IsFirst(q, c, l, needle)
  <2>1. CASE p = NotFound
    <3>1. ASSUME NEW i \in l .. Len(c) PROVE ~OccursAt(c, needle, i)
      <4> DEFINE k == i - l
      <4>1. k \in 0 .. Len(s) - j /\ l + k = i /\ j + k \in j .. Len(s)
        BY <1>3
      <4> HIDE DEF k
      <4>2. ~OccursAt(s, needle, j + k)
        BY <1>1, <2>1, <4>1 DEF IsFirst, NotFound
      <4> QED BY <1>4, <4>1, <4>2
    <3> QED BY <2>1, <3>1 DEF IsFirst
  <2>2. CASE p # NotFound
    <3>1. p \in j .. Len(s) /\ OccursAt(s, needle, p) /\ \A i \in j .. p - 1 : ~OccursAt(s, needle, i)
      BY <1>1, <2>2 DEF IsFirst
    <3>2. p - j \in 0 .. Len(s) - j /\ j + (p - j) = p /\ q = l + (p - j) /\ q \in l .. Len(c)
      BY <1>3, <2>2, <3>1
    <3>3. OccursAt(c, needle, q)
      BY <1>4, <3>1, <3>2
    <3>4. ASSUME NEW i \in l .. q - 1 PROVE ~OccursAt(c, needle, i)
      <4> DEFINE k == i - l
      <4>1. k \in 0 .. Len(s) - j /\ l + k = i /\ j + k \in j .. p - 1
        BY <1>3, <3>1, <3>2
      <4> HIDE DEF k
      <4>2. ~OccursAt(s, needle, j + k)
        BY <3>1, <4>1
      <4> QED BY <1>4, <4>1, <4>2
    <3> HIDE DEF q
    <3> QED BY <3>2, <3>3, <3>4 DEF IsFirst
  <2> QED BY <2>1, <2>2
<1>7. found = q
  <2> HIDE DEF q
  <2> QED BY <1>3, <1>5, <1>6, FirstIsOne
<1> QED BY <1>7 DEF c, l, p, q, found

\* With a needle no longer than what is put in its place, no text gets shorter.
LEMMA ReplaceGrows ==
  ASSUME NEW U, NEW s \in Seq(U), NEW a \in Seq(U), NEW b \in Seq(U), a # <<>>, Len(a) <= Len(b),
         NEW f \in [0 .. Len(s) -> Seq(U)], ReplaceLoop(f, s, a, b), NEW j \in 0 .. Len(s)
  PROVE  Len(f[j]) >= Len(s) - j
<1> DEFINE n == Len(s)
           S == {i \in 0 .. n : Len(f[i]) >= n - i}
<1>0. n \in Nat
  OBVIOUS
<1>1. ASSUME NEW i \in 0 .. n, \A k \in i + 1 .. n : k \in S PROVE i \in S
  <2> DEFINE p == pos(s, i, a)
             part == Part(s, i, p - i)
             pb == part \o b
             e == f[p + Len(a)]
  <2>1. f[i] = IF p = NotFound THEN Rest(s, i) ELSE pb \o e
    BY DEF ReplaceLoop
  <2>2. CASE p = NotFound
    <3>1. Len(Rest(s, i)) = n - i
      BY RestIs
    <3> QED BY <2>1, <2>2, <3>1
  <2>3. CASE p # NotFound
    <3>1. p \in i .. n /\ p + Len(a) \in i + 1 .. n
      BY <2>3, PosAnswers
    <3> HIDE DEF p
    <3>2. part \in Seq(U) /\ Len(part) = p - i
      <4>1. i \in Nat /\ p - i \in Nat /\ i + (p - i) <= Len(s)
        BY <3>1
      <4>2. IsPiece(part, U, s, i, p - i)
        BY <4>1, PartIs
      <4> QED BY <4>2 DEF IsPiece
    <3>3. e \in Seq(U) /\ Len(e) >= n - (p + Len(a))
      BY <1>1, <3>1
    <3> HIDE DEF part, e
    <3>4. pb \in Seq(U) /\ Len(pb) = (p - i) + Len(b)
      BY <3>2, Joined
    <3> HIDE DEF pb
    <3>5. Len(pb \o e) = Len(pb) + Len(e) /\ Len(e) \in Nat /\ Len(b) \in Nat /\ Len(a) \in Nat
      BY <3>3, <3>4, Joined
    <3>6. Len(f[i]) = (p - i) + Len(b) + Len(e)
      BY <2>1, <2>3, <3>4, <3>5
    <3> HIDE DEF n
    <3>7. Len(f[i]) >= n - i
      BY <1>0, <3>1, <3>3, <3>5, <3>6
    <3> QED BY <3>7 DEF n
  <2> QED BY <2>2, <2>3
<1> HIDE DEF S, n
<1>2. 0 .. n \subseteq S
  BY <1>0, <1>1, DownInduction
<1> QED BY <1>2 DEF S, n

\* Text behind other text, cut at a place of its own.
LEMMA CutBehind ==
  ASSUME NEW U, NEW x \in Seq(U), NEW s \in Seq(U), NEW j \in 0 .. Len(s), NEW k \in j .. Len(s)
  PROVE  /\ SubSeq(x \o Rest(s, j), 1, Len(x) + (k - j)) = x \o Part(s, j, k - j)
         /\ Rest(x \o Rest(s, j), Len(x) + (k - j)) = Rest(s, k)
<1> DEFINE r == Rest(s, j)
           c == x \o r
           l == Len(x)
           n == Len(s)
           d == k - j
           at == l + d
           part == Part(s, j, d)
           xp == x \o part
           first == SubSeq(c, 1, at)
           last == Rest(c, at)
           rest == Rest(s, k)
<1>1. l \in Nat /\ n \in Nat /\ d \in Nat /\ j \in Nat /\ k \in Nat /\ d = k - j /\ k <= n /\ at \in Nat
      /\ at = l + d /\ d <= n - j
  OBVIOUS
<1>2. r \in Seq(U) /\ Len(r) = n - j /\ \A i \in 1 .. n - j : r[i] = s[j + i]
  BY RestIs
<1>3. rest \in Seq(U) /\ Len(rest) = n - k /\ \A i \in 1 .. n - k : rest[i] = s[k + i]
  <2>1. k \in 0 .. Len(s)
    OBVIOUS
  <2> QED BY <2>1, RestIs
<1>4. part \in Seq(U) /\ Len(part) = d /\ \A i \in 1 .. d : part[i] = s[j + i]
  <2>1. j + d <= Len(s)
    OBVIOUS
  <2> HIDE DEF d
  <2>2. IsPiece(part, U, s, j, d)
    BY <1>1, <2>1, PartIs
  <2> HIDE DEF part
  <2> QED BY <2>2 DEF IsPiece
<1> HIDE DEF r, rest, part
<1>5. Joins(U, c, x, l, r, n - j)
  BY <1>2, JoinsThem
<1>6. Joins(U, xp, x, l, part, d)
  BY <1>4, JoinsThem
<1> HIDE DEF c, xp, l, n, d
<1>7. /\ c \in Seq(U) /\ Len(c) = l + (n - j)
      /\ \A i \in 1 .. l : c[i] = x[i]
      /\ \A i \in 1 .. n - j : c[l + i] = r[i]
  BY <1>5 DEF Joins
<1>8. /\ xp \in Seq(U) /\ Len(xp) = at
      /\ \A i \in 1 .. l : xp[i] = x[i]
      /\ \A i \in 1 .. d : xp[l + i] = part[i]
  BY <1>6 DEF Joins
<1> HIDE DEF at
<1>9. at \in 0 .. Len(c)
  BY <1>1, <1>7
<1>10. first \in Seq(U) /\ Len(first) = at /\ \A i \in 1 .. at : first[i] = c[i]
  BY <1>7, <1>9, FirstPart
<1>11. last \in Seq(U) /\ Len(last) = Len(c) - at /\ \A i \in 1 .. Len(c) - at : last[i] = c[at + i]
  BY <1>7, <1>9, RestIs
<1> HIDE DEF first, last
<1>12. ASSUME NEW i \in 1 .. at PROVE first[i] = xp[i]
  <2>1. CASE i <= l
    <3>1. i \in 1 .. l
      BY <2>1
    <3> QED BY <1>7, <1>8, <1>10, <3>1
  <2>2. CASE ~(i <= l)
    <3> DEFINE q == i - l
    <3>1. q \in 1 .. d /\ q \in 1 .. n - j /\ l + q = i
      BY <1>1, <2>2
    <3> HIDE DEF q
    <3>2. c[l + q] = r[q] /\ r[q] = s[j + q] /\ xp[l + q] = part[q] /\ part[q] = s[j + q]
      BY <1>2, <1>4, <1>7, <1>8, <3>1
    <3> QED BY <1>10, <3>1, <3>2
  <2> QED BY <2>1, <2>2
<1>13. first = xp
  BY <1>8, <1>10, <1>12, SeqEqual
<1>14. ASSUME NEW i \in 1 .. n - k PROVE last[i] = rest[i]
  <2> DEFINE q == d + i
  <2>1. i \in 1 .. Len(c) - at /\ q \in 1 .. n - j /\ at + i = l + q /\ j + q = k + i
    BY <1>1, <1>7
  <2> HIDE DEF q
  <2>2. last[i] = c[at + i] /\ rest[i] = s[k + i]
    BY <1>3, <1>11, <2>1
  <2>3. c[l + q] = r[q] /\ r[q] = s[j + q]
    BY <1>2, <1>7, <2>1
  <2> QED BY <2>1, <2>2, <2>3
<1>15. Len(c) - at = n - k
  BY <1>1, <1>7
<1>16. last = rest
  BY <1>3, <1>11, <1>14, <1>15, SeqEqual
<1> QED BY <1>13, <1>16 DEF first, last, xp, rest, part, c, r, at, l, d

(***************************************************************************)
(* Texts cut at a mark, and put together                                    *)
(***************************************************************************)

\* Where a needle of one character is: at its first place.
LEMMA MarkOccurs ==
  ASSUME NEW U, NEW s \in Seq(U), NEW m \in U, NEW i \in Nat
  PROVE  OccursAt(s, <<m>>, i) <=> i < Len(s) /\ s[i + 1] = m
<1>1. <<m>> \in Seq(U) /\ Len(<<m>>) = 1 /\ <<m>> # <<>>
  OBVIOUS
<1>2. OccursAt(s, <<m>>, i) <=> EachAt(s, <<m>>, i)
  BY <1>1, OccursEach
<1>3. EachAt(s, <<m>>, i) <=> i < Len(s) /\ s[i + 1] = m
  <2>1. CharAt(s, i + 0) = s[i + 1] /\ CharAt(<<m>>, 0) = m /\ i + 0 = i
    BY DEF CharAt
  <2>2. 0 .. Len(<<m>>) - 1 = {0}
    BY <1>1
  <2> QED BY <2>1, <2>2 DEF EachAt
<1> QED BY <1>2, <1>3

FreeText(U, s, m) == s \in Seq(U) /\ \A i \in 1 .. Len(s) : s[i] # m

\* A text without a mark is not cut.
LEMMA NoMark ==
  ASSUME NEW U, NEW s, NEW m \in U, FreeText(U, s, m)
  PROVE  pos(s, 0, <<m>>) = NotFound
<1>1. s \in Seq(U) /\ Len(s) \in Nat /\ 0 \in 0 .. Len(s)
  BY DEF FreeText
<1>2. <<m>> \in Seq(U) /\ <<m>> # <<>>
  OBVIOUS
<1>3. IsFirst(pos(s, 0, <<m>>), s, 0, <<m>>)
  BY <1>1, <1>2, PosFindsFirst
<1>4. ASSUME NEW i \in Nat, OccursAt(s, <<m>>, i) PROVE FALSE
  <2>1. i < Len(s) /\ s[i + 1] = m
    BY <1>1, <1>4, MarkOccurs
  <2>2. i + 1 \in 1 .. Len(s)
    BY <1>1, <2>1
  <2> QED BY <2>1, <2>2 DEF FreeText
<1> QED BY <1>1, <1>3, <1>4 DEF IsFirst

\* A text is cut at its first mark.
IsCut(s, m, a, b) ==
  LET p == pos(s, 0, <<m>>) IN p \in Nat /\ Part(s, 0, p) = a /\ Rest(s, p + 1) = b

\* That is where a part free of it ends.
LEMMA FirstMark ==
  ASSUME NEW U, NEW a, NEW m \in U, FreeText(U, a, m), NEW b \in Seq(U)
  PROVE  IsCut(a \o <<m>> \o b, m, a, b)
<1> DEFINE s == a \o <<m>> \o b
           p == pos(s, 0, <<m>>)
           l == Len(a)
<1>1. a \in Seq(U) /\ l \in Nat /\ Len(b) \in Nat
  BY DEF FreeText
<1>2. <<m>> \in Seq(U) /\ Len(<<m>>) = 1 /\ <<m>> # <<>> /\ <<m>>[1] = m
  OBVIOUS
<1>3. /\ s \in Seq(U) /\ Len(s) = l + 1 + Len(b)
      /\ \A i \in 1 .. l : s[i] = a[i]
      /\ \A i \in 1 .. 1 : s[l + i] = <<m>>[i]
      /\ \A i \in 1 .. Len(b) : s[l + 1 + i] = b[i]
  BY <1>1, <1>2, JoinedThree
<1> HIDE DEF s, l
<1>4. s[l + 1] = m
  BY <1>2, <1>3
<1>5. OccursAt(s, <<m>>, l)
  <2>1. l < Len(s)
    BY <1>1, <1>3
  <2> QED BY <1>1, <1>3, <1>4, <2>1, MarkOccurs
<1>6. ASSUME NEW i \in Nat, i < l PROVE ~OccursAt(s, <<m>>, i)
  <2>1. i + 1 \in 1 .. l
    BY <1>1, <1>6
  <2>2. s[i + 1] # m
    BY <1>3, <2>1 DEF FreeText, l
  <2> QED BY <1>3, <2>2, MarkOccurs
<1>7. IsFirst(p, s, 0, <<m>>)
  <2>1. 0 \in 0 .. Len(s)
    BY <1>1, <1>3
  <2> QED BY <1>2, <1>3, <2>1, PosFindsFirst
<1>8. IsFirst(l, s, 0, <<m>>)
  <2>1. l \in 0 .. Len(s)
    BY <1>1, <1>3
  <2>2. \A i \in 0 .. l - 1 : i \in Nat /\ i < l
    BY <1>1
  <2> QED BY <1>5, <1>6, <2>1, <2>2 DEF IsFirst
<1>9. p = l
  BY <1>1, <1>3, <1>7, <1>8, FirstIsOne
<1>10. Part(s, 0, l) = a
  <2>1. IsPiece(Part(s, 0, l), U, s, 0, l)
    BY <1>1, <1>3, PartIs
  <2> DEFINE t == Part(s, 0, l)
  <2>2. t \in Seq(U) /\ Len(t) = l /\ \A i \in 1 .. l : t[i] = s[0 + i]
    BY <2>1 DEF IsPiece
  <2> HIDE DEF t
  <2>3. \A i \in 1 .. l : t[i] = a[i]
    BY <1>1, <1>3, <2>2
  <2>4. t = a
    BY <1>1, <2>2, <2>3, SeqEqual DEF l
  <2> QED BY <2>4 DEF t
<1>11. Rest(s, l + 1) = b
  <2> DEFINE k == l + 1
             t == Rest(s, k)
  <2>1. k \in 0 .. Len(s) /\ Len(s) - k = Len(b) /\ \A i \in 1 .. Len(b) : s[k + i] = b[i]
    BY <1>1, <1>3
  <2> HIDE DEF k
  <2>2. t \in Seq(U) /\ Len(t) = Len(s) - k /\ \A i \in 1 .. Len(s) - k : t[i] = s[k + i]
    BY <1>3, <2>1, RestIs
  <2> HIDE DEF t
  <2>3. Len(t) = Len(b)
    BY <2>1, <2>2
  <2>4. \A i \in 1 .. Len(b) : t[i] = b[i]
    BY <2>1, <2>2
  <2>5. t = b
    BY <2>2, <2>3, <2>4, SeqEqual
  <2> QED BY <2>5 DEF t, k
<1> QED BY <1>1, <1>9, <1>10, <1>11 DEF IsCut, s

\* Texts put together in one way are those put together in another.
JoinThree(a, b, c) == (a \o b) \o c = a \o (b \o c)

\* Three texts, whichever are joined first,
LEMMA JoinsAssociate ==
  ASSUME NEW U, NEW a \in Seq(U), NEW b \in Seq(U), NEW c \in Seq(U)
  PROVE  JoinThree(a, b, c)
BY ConcatAssociative DEF JoinThree

JoinFour(a, b, c, d) == a \o b \o c \o d = a \o (b \o (c \o d))

\* four,
LEMMA FourJoined ==
  ASSUME NEW U, NEW a \in Seq(U), NEW b \in Seq(U), NEW c \in Seq(U), NEW d \in Seq(U)
  PROVE  JoinFour(a, b, c, d)
<1> DEFINE f == a \o b
           e == c \o d
<1>1. f \in Seq(U) /\ e \in Seq(U) /\ b \o e \in Seq(U)
  OBVIOUS
<1> HIDE DEF f, e
<1>2. JoinThree(f, c, d) /\ JoinThree(a, b, e)
  BY <1>1, JoinsAssociate
<1>3. (f \o c) \o d = f \o e /\ (a \o b) \o e = a \o (b \o e)
  BY <1>2 DEF JoinThree, e
<1> QED BY <1>3 DEF f, e, JoinFour

JoinFive(a, h, s, e, g) == (a \o h) \o (s \o e) \o g = a \o (h \o s \o (e \o g))

\* and five of them.
LEMMA FiveJoined ==
  ASSUME NEW U, NEW a \in Seq(U), NEW h \in Seq(U), NEW s \in Seq(U), NEW e \in Seq(U), NEW g \in Seq(U)
  PROVE  JoinFive(a, h, s, e, g)
<1> DEFINE q == s \o e
           w == e \o g
           x == h \o q
           y == h \o s
<1>1. q \in Seq(U) /\ w \in Seq(U) /\ x \in Seq(U) /\ y \in Seq(U)
  OBVIOUS
<1> HIDE DEF q, w, x, y
<1>2. /\ JoinThree(a, h, q) /\ JoinThree(a, x, g) /\ JoinThree(h, q, g)
      /\ JoinThree(s, e, g) /\ JoinThree(h, s, w)
  BY <1>1, JoinsAssociate
<1>3. (a \o h) \o q = a \o x
  BY <1>2 DEF JoinThree, x
<1>4. (a \o x) \o g = a \o (x \o g)
  BY <1>2 DEF JoinThree
<1>5. x \o g = h \o (q \o g)
  BY <1>2 DEF JoinThree, x
<1>6. q \o g = s \o w
  BY <1>2 DEF JoinThree, q, w
<1>7. y \o w = h \o (s \o w)
  BY <1>2 DEF JoinThree, y
<1>8. ((a \o h) \o q) \o g = a \o (y \o w)
  BY <1>3, <1>4, <1>5, <1>6, <1>7
<1> QED BY <1>8 DEF q, w, y, JoinFive

\* Two texts of one character.
LEMMA PairJoined ==
  ASSUME NEW x, NEW y
  PROVE  <<x>> \o <<y>> = <<x, y>>
<1> DEFINE U == {x, y}
           s == <<x>> \o <<y>>
           t == <<x, y>>
<1>1. <<x>> \in Seq(U) /\ <<y>> \in Seq(U) /\ t \in Seq(U) /\ Len(t) = 2
  OBVIOUS
<1>2. s \in Seq(U) /\ Len(s) = 2 /\ s[1] = x /\ s[2] = y
  OBVIOUS
<1>3. t[1] = x /\ t[2] = y
  OBVIOUS
<1> HIDE DEF U, s, t
<1>4. \A i \in 1 .. 2 : s[i] = t[i]
  BY <1>2, <1>3
<1>5. s = t
  BY <1>1, <1>2, <1>4, SeqEqual
<1> QED BY <1>5 DEF s, t

(***************************************************************************)
(* What replace() makes of a text that is put together                      *)
(***************************************************************************)

\* A piece of one character.
LEMMA OnePiece ==
  ASSUME NEW U, NEW s \in Seq(U), NEW b \in 1 .. Len(s)
  PROVE  SubSeq(s, b, b) = <<s[b]>>
<1> DEFINE one == SubSeq(s, b, b)
           other == <<s[b]>>
           c == b - b + 1
<1>1. b \in Nat \ {0} /\ b \in Nat /\ b <= b + 1 /\ b <= Len(s) /\ c = 1 /\ b + 1 - 1 = b
  OBVIOUS
<1>2. one \in Seq(U) /\ Len(one) = c /\ \A i \in 1 .. c : one[i] = s[b + i - 1]
  BY <1>1, PieceOf
<1> HIDE DEF one, c
<1>3. Len(one) = 1 /\ one[1] = s[b]
  BY <1>1, <1>2
<1>4. other \in Seq(U) /\ Len(other) = 1 /\ other[1] = s[b]
  OBVIOUS
<1> HIDE DEF other
<1>5. \A i \in 1 .. Len(one) : one[i] = other[i]
  BY <1>3, <1>4
<1>6. one = other
  BY <1>2, <1>3, <1>4, <1>5, SeqEqual
<1> QED BY <1>6 DEF one, other

\* In text behind other text the loop does what it does in that text alone.
LEMMA ReplaceBehind ==
  ASSUME NEW U, NEW v \in Seq(U), NEW t \in Seq(U), NEW a \in Seq(U), NEW b \in Seq(U), a # <<>>,
         NEW f, ReplaceLoop(f, v \o t, a, b), NEW g, ReplaceLoop(g, t, a, b)
  PROVE  \A j \in 0 .. Len(t) : f[Len(v) + j] = g[j]
<1> DEFINE c == v \o t
           l == Len(v)
           n == Len(t)
           S == {i \in 0 .. n : f[l + i] = g[i]}
<1>1. c \in Seq(U) /\ l \in Nat /\ n \in Nat /\ Len(c) = l + n /\ \A k \in 1 .. n : c[l + k] = t[k]
  BY Joined
<1> HIDE DEF c, l
<1>2. ASSUME NEW i \in 0 .. n, \A k \in i + 1 .. n : k \in S PROVE i \in S
  <2> DEFINE x == v \o Part(t, 0, i)
             li == l + i
             p == pos(t, i, a)
             q == pos(c, li, a)
  <2>1. x \in Seq(U) /\ Len(x) = li /\ c = x \o Rest(t, i)
    <3> DEFINE y == SubSeq(t, 1, i)
               z == Rest(t, i)
               d == i + 1
    <3>1. y \in Seq(U) /\ Len(y) = i /\ i \in Nat /\ i <= n
      BY FirstPart
    <3>2. z \in Seq(U)
      BY RestIs
    <3>3. y \o z = t
      <4>1. d = i + 1 /\ d \in Nat /\ 1 \in Nat \ {0} /\ 1 <= d /\ n <= Len(t)
            /\ i \in Nat /\ n \in Nat /\ i <= n
        BY <1>1, <3>1
      <4> HIDE DEF d, n
      <4>2. SubSeq(t, 1, i) \o SubSeq(t, d, n) = SubSeq(t, 1, n)
        BY <4>1, CutInTwo
      <4> QED BY <4>2, Uncut DEF Rest, d, n
    <3>4. Part(t, 0, i) = y
      BY <3>1 DEF Part
    <3> HIDE DEF y, z
    <3>5. JoinThree(v, y, z)
      BY <3>1, <3>2, JoinsAssociate
    <3>6. Len(v \o y) = Len(v) + Len(y) /\ v \o y \in Seq(U)
      BY <3>1, Joined
    <3> QED BY <3>1, <3>3, <3>4, <3>5, <3>6 DEF JoinThree, c, l, z
  <2>2. li \in 0 .. Len(c) /\ li \in Nat /\ i \in Nat
    BY <1>1
  <2> HIDE DEF x
  <2>3. q = IF p = NotFound THEN NotFound ELSE li + (p - i)
    BY <2>1, PosBehind
  <2>4. f[li] = IF q = NotFound THEN Rest(c, li) ELSE Part(c, li, q - li) \o b \o f[q + Len(a)]
    BY <2>2 DEF ReplaceLoop, c
  <2>5. g[i] = IF p = NotFound THEN Rest(t, i) ELSE Part(t, i, p - i) \o b \o g[p + Len(a)]
    BY DEF ReplaceLoop
  <2>6. CASE p = NotFound
    <3>1. /\ Rest(t, i) \in Seq(U) /\ Len(Rest(t, i)) = n - i
          /\ \A k \in 1 .. n - i : Rest(t, i)[k] = t[i + k]
      BY RestIs
    <3>2. /\ Rest(c, li) \in Seq(U) /\ Len(Rest(c, li)) = Len(c) - li
          /\ \A k \in 1 .. Len(c) - li : Rest(c, li)[k] = c[li + k]
      BY <1>1, <2>2, RestIs
    <3>3. Len(c) - li = n - i
      BY <1>1
    <3>4. ASSUME NEW k \in 1 .. n - i PROVE Rest(c, li)[k] = Rest(t, i)[k]
      <4> DEFINE ik == i + k
      <4>1. ik \in 1 .. n /\ li + k = l + ik
        BY <1>1
      <4> HIDE DEF ik
      <4>2. c[li + k] = t[ik]
        BY <1>1, <4>1
      <4> QED BY <3>1, <3>2, <3>3, <4>2 DEF ik
    <3>5. Rest(c, li) = Rest(t, i)
      BY <3>1, <3>2, <3>3, <3>4, SeqEqual
    <3> QED BY <2>3, <2>4, <2>5, <2>6, <3>5
  <2>7. CASE p # NotFound
    <3>1. p \in i .. n /\ p + Len(a) \in i + 1 .. n
      BY <2>7, PosAnswers
    <3> DEFINE m == p - i
               one == Part(c, li, m)
               other == Part(t, i, m)
    <3>2. m \in Nat /\ i + m <= Len(t) /\ li + m <= Len(c) /\ q = li + m /\ q - li = m /\ q # NotFound
      <4>1. p \in Int /\ i <= p /\ p <= n /\ n = Len(t) /\ Len(c) = l + n /\ l \in Nat /\ n \in Nat /\ i \in Nat
        BY <1>1, <2>2, <3>1
      <4>2. li = l + i /\ m = p - i /\ q = li + m
        BY <2>3, <2>7
      <4> HIDE DEF p, q, li, m, l, n, c
      <4>3. m \in Nat /\ i + m <= n /\ li \in Nat /\ li + m <= l + n /\ q \in Nat /\ q - li = m
        BY <4>1, <4>2
      <4> QED BY <4>1, <4>2, <4>3 DEF NotFound
    <3> HIDE DEF m
    <3>3. IsPiece(one, U, c, li, m) /\ IsPiece(other, U, t, i, m)
      BY <1>1, <2>2, <3>2, PartIs
    <3>4. ASSUME NEW k \in 1 .. m PROVE one[k] = other[k]
      <4> DEFINE ik == i + k
      <4>1. ik \in 1 .. n /\ li + k = l + ik
        BY <1>1, <3>2
      <4> HIDE DEF ik, one, other
      <4>2. c[li + k] = t[ik]
        BY <1>1, <4>1
      <4> QED BY <3>3, <4>2 DEF IsPiece, ik
    <3> HIDE DEF one, other
    <3>5. one = other
      BY <3>3, <3>4, SeqEqual DEF IsPiece
    <3> DEFINE at == p + Len(a)
    <3>6. at \in S /\ q + Len(a) = l + at
      <4>1. Len(a) \in Nat /\ at \in i + 1 .. n
        BY <3>1
      <4>2. q + Len(a) = l + at
        <5>1. p \in Int /\ i \in Int /\ l \in Int /\ q = (l + i) + (p - i) /\ at = p + Len(a)
          BY <1>1, <3>1, <3>2 DEF m
        <5> HIDE DEF p, q, l, at
        <5> QED BY <4>1, <5>1
      <4> QED BY <1>2, <4>1, <4>2
    <3>7. f[q + Len(a)] = g[at]
      BY <3>6
    <3> QED BY <2>4, <2>5, <2>7, <3>2, <3>5, <3>7 DEF one, other, m
  <2> QED BY <2>6, <2>7
<1> HIDE DEF S, n
<1>3. 0 .. n \subseteq S
  BY <1>1, <1>2, DownInduction
<1> QED BY <1>3 DEF S, n, l, c

\* The needle does not begin before j.
NoneBefore(s, needle, j) == \A i \in 0 .. j - 1 : ~OccursAt(s, needle, i)

\* The loop begins with what is before j and goes on from there.
Skips(f, s, j) == f[0] = SubSeq(s, 1, j) \o f[j]

\* What it skips, it copies.
LEMMA ReplaceSkips ==
  ASSUME NEW U, NEW s \in Seq(U), NEW a \in Seq(U), NEW b \in Seq(U), a # <<>>,
         NEW f \in [0 .. Len(s) -> Seq(U)], ReplaceLoop(f, s, a, b), NEW j \in 0 .. Len(s),
         NoneBefore(s, a, j)
  PROVE  Skips(f, s, j)
<1> DEFINE n == Len(s)
           p == pos(s, j, a)
           v == SubSeq(s, 1, j)
<1>1. n \in Nat /\ j \in Nat /\ j <= n /\ 0 \in 0 .. n
  OBVIOUS
<1>2. IsFirst(p, s, j, a)
  BY PosFindsFirst
<1>3. IsFirst(pos(s, 0, a), s, 0, a)
  BY <1>1, PosFindsFirst
<1> HIDE DEF p
<1>4. IsFirst(p, s, 0, a)
  <2>1. CASE p = NotFound /\ \A i \in j .. Len(s) : ~OccursAt(s, a, i)
    <3>1. \A i \in 0 .. Len(s) : i \in 0 .. j - 1 \/ i \in j .. Len(s)
      BY <1>1
    <3> QED BY <2>1, <3>1 DEF IsFirst, NoneBefore
  <2>2. CASE p \in j .. Len(s) /\ OccursAt(s, a, p) /\ \A i \in j .. p - 1 : ~OccursAt(s, a, i)
    <3>1. p \in 0 .. Len(s) /\ \A i \in 0 .. p - 1 : i \in 0 .. j - 1 \/ i \in j .. p - 1
      BY <1>1, <2>2
    <3> QED BY <2>2, <3>1 DEF IsFirst, NoneBefore
  <2> QED BY <1>2, <2>1, <2>2 DEF IsFirst
<1>5. pos(s, 0, a) = p
  BY <1>1, <1>3, <1>4, FirstIsOne
<1>6. f[0] = IF p = NotFound THEN Rest(s, 0) ELSE Part(s, 0, p - 0) \o b \o f[p + Len(a)]
  BY <1>1, <1>5 DEF ReplaceLoop
<1>7. f[j] = IF p = NotFound THEN Rest(s, j) ELSE Part(s, j, p - j) \o b \o f[p + Len(a)]
  BY DEF ReplaceLoop, p
<1>8. ASSUME NEW k \in j .. n PROVE v \o SubSeq(s, j + 1, k) = SubSeq(s, 1, k)
  <2> DEFINE d == j + 1
  <2>1. d \in Nat /\ d = j + 1 /\ 1 <= d /\ 1 \in Nat \ {0} /\ k \in Nat /\ j <= k /\ k <= Len(s)
    BY <1>1
  <2> HIDE DEF d
  <2>2. SubSeq(s, 1, j) \o SubSeq(s, d, k) = SubSeq(s, 1, k)
    BY <1>1, <2>1, CutInTwo
  <2> QED BY <2>2 DEF d
<1>9. v \in Seq(U)
  BY FirstPart
<1> SUFFICES f[0] = v \o f[j]
  BY DEF Skips
<1>10. CASE p = NotFound
  <2>1. v \o SubSeq(s, j + 1, n) = SubSeq(s, 1, n)
    <3>1. n \in j .. n
      BY <1>1
    <3> HIDE DEF n, v
    <3> QED BY <1>8, <3>1
  <2>2. f[0] = SubSeq(s, 1, n) /\ f[j] = SubSeq(s, j + 1, n)
    BY <1>6, <1>7, <1>10 DEF Rest
  <2> QED BY <2>1, <2>2
<1>11. CASE p # NotFound
  <2>1. p \in j .. n /\ p + Len(a) \in 0 .. n
    <3>1. p \in j .. n /\ p + Len(a) \in j + 1 .. n
      BY <1>11, PosAnswers DEF p
    <3> QED BY <1>1, <3>1
  <2> DEFINE m == Part(s, j, p - j)
             z == f[p + Len(a)]
  <2>2. p \in Nat /\ p - j \in Nat /\ j + (p - j) <= Len(s) /\ j + (p - j) = p /\ 0 + (p - 0) = p
    BY <1>1, <2>1
  <2>3. m \in Seq(U)
    BY <1>1, <2>2, PartIs DEF IsPiece
  <2>4. Part(s, 0, p - 0) = v \o m
    <3>1. v \o SubSeq(s, j + 1, p) = SubSeq(s, 1, p)
      BY <1>8, <2>1
    <3> QED BY <2>2, <3>1 DEF Part
  <2>5. z \in Seq(U)
    BY <2>1
  <2> HIDE DEF m, z, v
  <2>6. JoinFour(v, m, b, z) /\ JoinThree(m, b, z)
    BY <1>9, <2>3, <2>5, FourJoined, JoinsAssociate
  <2>7. f[0] = v \o m \o b \o z /\ f[j] = m \o b \o z
    BY <1>6, <1>7, <1>11, <2>4 DEF m, z
  <2> QED BY <2>6, <2>7 DEF JoinFour, JoinThree, v
<1> QED BY <1>10, <1>11

\* replace() leaves a text as it is in which the needle does not begin, and goes on
\* behind it as if it were not there;
LEMMA ReplacePasses ==
  ASSUME NEW U, NEW v \in Seq(U), NEW t \in Seq(U), NEW a \in Seq(U), NEW b \in Seq(U), a # <<>>,
         NoneBefore(v \o t, a, Len(v))
  PROVE  replace(v \o t, a, b) = v \o replace(t, a, b)
<1> DEFINE c == v \o t
           l == Len(v)
<1>1. c \in Seq(U) /\ l \in 0 .. Len(c) /\ l + 0 = l /\ 0 \in 0 .. Len(t)
  BY Joined
<1>2. SubSeq(c, 1, l) = v
  <2>1. Len(SubSeq(c, 1, l)) = Len(v) /\ \A i \in 1 .. Len(v) : SubSeq(c, 1, l)[i] = v[i]
    BY <1>1, FirstPart, Joined
  <2>2. SubSeq(c, 1, l) \in Seq(U)
    BY <1>1, FirstPart
  <2> HIDE DEF c, l
  <2> QED BY <2>1, <2>2, SeqEqual
<1> HIDE DEF c
<1>3. PICK f \in [0 .. Len(c) -> Seq(U)] : ReplaceLoop(f, c, a, b) /\ replace(c, a, b) = f[0]
  BY <1>1, ReplaceIsTheLoop
<1>4. PICK g \in [0 .. Len(t) -> Seq(U)] : ReplaceLoop(g, t, a, b) /\ replace(t, a, b) = g[0]
  BY ReplaceIsTheLoop
<1>5. f[l] = g[0]
  BY <1>1, <1>3, <1>4, ReplaceBehind DEF c
<1>6. Skips(f, c, l)
  <2>1. NoneBefore(c, a, l)
    BY DEF c
  <2>2. c \in Seq(U) /\ l \in 0 .. Len(c) /\ ReplaceLoop(f, c, a, b)
    BY <1>1, <1>3
  <2> HIDE DEF l
  <2> QED BY <2>1, <2>2, ReplaceSkips
<1> QED BY <1>2, <1>3, <1>4, <1>5, <1>6 DEF Skips, c

\* of the needle it makes what is put in its place;
LEMMA ReplaceFirst ==
  ASSUME NEW U, NEW t \in Seq(U), NEW a \in Seq(U), NEW b \in Seq(U), a # <<>>
  PROVE  replace(a \o t, a, b) = b \o replace(t, a, b)
<1> DEFINE c == a \o t
           l == Len(a)
<1>1. c \in Seq(U) /\ l \in Nat /\ l <= Len(c) /\ l + 0 = l /\ 0 \in 0 .. Len(t) /\ 0 \in 0 .. Len(c)
      /\ \A i \in 1 .. l : c[i] = a[i]
  BY Joined
<1> HIDE DEF c
<1>2. PICK f \in [0 .. Len(c) -> Seq(U)] : ReplaceLoop(f, c, a, b) /\ replace(c, a, b) = f[0]
  BY <1>1, ReplaceIsTheLoop
<1>3. PICK g \in [0 .. Len(t) -> Seq(U)] : ReplaceLoop(g, t, a, b) /\ replace(t, a, b) = g[0]
  BY ReplaceIsTheLoop
<1>4. f[l] = g[0]
  BY <1>1, <1>2, <1>3, ReplaceBehind DEF c
<1>5. OccursAt(c, a, 0)
  <2>1. 0 + l <= Len(c) /\ 0 \in Nat
    BY <1>1
  <2>2. IsPiece(Part(c, 0, l), U, c, 0, l)
    BY <1>1, <2>1, PartIs
  <2>3. Part(c, 0, l) = a
    BY <1>1, <2>2, SeqEqual DEF IsPiece
  <2> QED BY <2>1, <2>3 DEF OccursAt
<1>6. pos(c, 0, a) = 0
  <2>1. IsFirst(pos(c, 0, a), c, 0, a)
    BY <1>1, PosFindsFirst
  <2>2. IsFirst(0, c, 0, a)
    BY <1>1, <1>5 DEF IsFirst
  <2> QED BY <1>1, <2>1, <2>2, FirstIsOne
<1>7. f[0] = Part(c, 0, 0 - 0) \o b \o f[0 + Len(a)]
  <2>1. f[0] = IF pos(c, 0, a) = NotFound THEN Rest(c, 0)
               ELSE Part(c, 0, pos(c, 0, a) - 0) \o b \o f[pos(c, 0, a) + Len(a)]
    BY <1>1, <1>2 DEF ReplaceLoop
  <2>2. 0 # NotFound
    BY DEF NotFound
  <2> QED BY <1>6, <2>1, <2>2
<1>8. Part(c, 0, 0 - 0) = <<>> /\ 0 + Len(a) = l
  BY <1>1 DEF Part
<1>9. f[0] = b \o f[l]
  <2>1. <<>> \o b = b
    OBVIOUS
  <2> QED BY <1>7, <1>8, <2>1
<1> QED BY <1>2, <1>3, <1>4, <1>9 DEF c

\* of nothing, nothing.
LEMMA ReplaceNothing ==
  ASSUME NEW U, NEW a \in Seq(U), NEW b \in Seq(U), a # <<>>
  PROVE  replace(<<>>, a, b) = <<>>
<1> DEFINE none == <<>>
<1>1. none \in Seq(U) /\ Len(none) = 0 /\ 0 \in 0 .. Len(none)
  OBVIOUS
<1> HIDE DEF none
<1>2. PICK f \in [0 .. Len(none) -> Seq(U)] : ReplaceLoop(f, none, a, b) /\ replace(none, a, b) = f[0]
  <2>1. none \in Seq(U)
    BY <1>1
  <2> QED BY <2>1, ReplaceIsTheLoop
<1>3. pos(none, 0, a) = NotFound
  <2>1. none \in Seq(U) /\ 0 \in 0 .. Len(none)
    BY <1>1
  <2>2. IsFirst(pos(none, 0, a), none, 0, a)
    BY <2>1, PosFindsFirst
  <2>3. ~OccursAt(none, a, 0)
    BY <1>1 DEF OccursAt
  <2>4. 0 .. Len(none) = {0}
    BY <1>1
  <2> QED BY <2>2, <2>3, <2>4 DEF IsFirst
<1>4. f[0] = Rest(none, 0)
  BY <1>1, <1>2, <1>3 DEF ReplaceLoop
<1>5. Rest(none, 0) = none
  BY <1>1 DEF Rest, none
<1> QED BY <1>2, <1>4, <1>5 DEF none

\* What replace() makes of texts is a text.
LEMMA ReplaceType ==
  ASSUME NEW U, NEW s \in Seq(U), NEW a \in Seq(U), NEW b \in Seq(U), a # <<>>
  PROVE  replace(s, a, b) \in Seq(U)
<1>1. PICK f \in [0 .. Len(s) -> Seq(U)] : ReplaceLoop(f, s, a, b) /\ replace(s, a, b) = f[0]
  BY ReplaceIsTheLoop
<1>2. 0 \in 0 .. Len(s)
  OBVIOUS
<1> QED BY <1>1, <1>2

\* f begins with x, and takes the steps one after the other.
Iterates(f, x, n, step) == f[0] = x /\ \A i \in 1 .. n : f[i] = step[i][f[i - 1]]

\* There is such a function.
LEMMA IterationExists ==
  ASSUME NEW S, NEW x \in S, NEW n \in Nat, NEW step \in [1 .. n -> [S -> S]]
  PROVE  \E f \in [0 .. n -> S] : Iterates(f, x, n, step)
<1> DEFINE T == {m \in Nat : m <= n => \E f \in [0 .. m -> S] : Iterates(f, x, m, step)}
<1>1. 0 \in T
  <2> DEFINE f == [i \in 0 .. 0 |-> x]
  <2>1. f \in [0 .. 0 -> S] /\ f[0] = x /\ 1 .. 0 = {}
    OBVIOUS
  <2> HIDE DEF f
  <2>2. Iterates(f, x, 0, step)
    BY <2>1 DEF Iterates
  <2> QED BY <2>1, <2>2
<1>2. ASSUME NEW m \in Nat, m \in T PROVE m + 1 \in T
  <2> SUFFICES ASSUME m + 1 <= n PROVE \E f \in [0 .. m + 1 -> S] : Iterates(f, x, m + 1, step)
    OBVIOUS
  <2>1. PICK f \in [0 .. m -> S] : Iterates(f, x, m, step)
    BY <1>2
  <2> DEFINE y == step[m + 1][f[m]]
             g == [i \in 0 .. m + 1 |-> IF i = m + 1 THEN y ELSE f[i]]
  <2>2. y \in S
    <3>1. m + 1 \in 1 .. n /\ m \in 0 .. m
      OBVIOUS
    <3>2. step[m + 1] \in [S -> S] /\ f[m] \in S
      BY <3>1
    <3> QED BY <3>2
  <2>3. /\ g \in [0 .. m + 1 -> S] /\ g[m + 1] = y
        /\ \A i \in 0 .. m : g[i] = f[i]
    <3> HIDE DEF y
    <3>1. \A i \in 0 .. m : i \in 0 .. m + 1 /\ i # m + 1
      OBVIOUS
    <3>2. \A i \in 0 .. m + 1 : i # m + 1 => i \in 0 .. m
      OBVIOUS
    <3> QED BY <2>2, <3>1, <3>2
  <2> HIDE DEF g
  <2>4. g[0] = x
    BY <2>1, <2>3 DEF Iterates
  <2>5. ASSUME NEW i \in 1 .. m + 1 PROVE g[i] = step[i][g[i - 1]]
    <3>1. i - 1 \in 0 .. m
      OBVIOUS
    <3>2. CASE i = m + 1
      <4>1. i - 1 = m /\ m \in 0 .. m
        BY <3>2
      <4>2. g[i - 1] = f[m]
        BY <2>3, <4>1
      <4> QED BY <2>3, <3>2, <4>2
    <3>3. CASE i # m + 1
      <4>1. i \in 1 .. m /\ i \in 0 .. m
        BY <3>3
      <4> QED BY <2>1, <2>3, <3>1, <4>1 DEF Iterates
    <3> QED BY <3>2, <3>3
  <2>6. Iterates(g, x, m + 1, step)
    BY <2>4, <2>5 DEF Iterates
  <2> QED BY <2>3, <2>6
<1> HIDE DEF T
<1>3. n \in T
  BY <1>1, <1>2, SetInduction
<1> QED BY <1>3 DEF T
=============================================================================
