------------------------------- MODULE Codecs -------------------------------
(***************************************************************************)
(* The conversions of Materials/Functions.cpp: HTML entities over texts,   *)
(* and hexadecimal, Base64 and the one-character Huffman code over bytes.  *)
(* A conversion is modelled by what it does to a sequence; the tables that *)
(* give a number its letter are one to one and left out, so a Base64 text  *)
(* is a sequence of numbers below 64 and of two marks.                     *)
(***************************************************************************)
EXTENDS Strings

CONSTANT Base64Line      \* groups of four on a line of Base64 (19 in the code)

-----------------------------------------------------------------------------
(* HTML entities.  An entity is two symbols: "&" and the name with its ";". *)
(* That keeps what matters here, that an "&" may stand before a text that   *)
(* reads like the name of an entity.                                        *)

Entities == << <<"&", "amp;">>, <<"quot", "quot;">>, <<"apos", "apos;">>,
               <<"<", "lt;">>, <<">", "gt;">> >>

Plain(k)   == <<Entities[k][1]>>
Encoded(k) == <<"&", Entities[k][2]>>

\* The order of the calls of replace_ansi: "&" first going out, last coming in.
EncodeOrder == <<1, 2, 3, 4, 5>>
DecodeOrder == <<2, 3, 4, 5, 1>>

EncodeHtmlEntities(s) ==
  FoldLeft(LAMBDA text, k : replace(text, Plain(k), Encoded(k)), s, EncodeOrder)

DecodeHtmlEntities(s) ==
  FoldLeft(LAMBDA text, k : replace(text, Encoded(k), Plain(k)), s, DecodeOrder)

-----------------------------------------------------------------------------
(* StrToHex: two digits a byte, the high one first; HexToInt reads digits   *)
(* from the last one up.                                                    *)

CharToHex(byte) == <<byte \div 16, byte % 16>>

StrToHex(bytes) == FoldLeft(LAMBDA out, byte : out \o CharToHex(byte), <<>>, bytes)

HexToInt(digits) ==
  FoldLeft(LAMBDA res, i : res + CharAt(digits, Len(digits) - 1 - i) * 16 ^ i, 0,
           [i \in 1 .. Len(digits) |-> i - 1])

-----------------------------------------------------------------------------
(* StrToBase64                                                              *)

Pad  == 64    \* "="
Crlf == 65

\* Mutant: a mask one bit short.
CharsToBase64Masked(ic) ==
  <<ic[1] \div 4, (ic[1] % 4) * 16 + ic[2] \div 16,
    (ic[2] % 8) * 4 + ic[3] \div 64, ic[3] % 64>>

CharsToBase64(ic) ==
  <<ic[1] \div 4, (ic[1] % 4) * 16 + ic[2] \div 16,
    (ic[2] % 16) * 4 + ic[3] \div 64, ic[3] % 64>>

\* After the loop: j bytes wait in ic, the others are those of the group before.
\* ic[3] is cleared, ic[2] is not.
Base64End(ic, j) ==
  LET four == CharsToBase64([ic EXCEPT ![3] = 0])
  IN  IF j = 2 THEN SubSeq(four, 1, 3) \o <<Pad>>
      ELSE IF j = 1 THEN SubSeq(four, 1, 2) \o <<Pad, Pad>>
      ELSE <<>>

RECURSIVE Base64From(_, _, _, _)
Base64From(bytes, ic, j, inl) ==
  IF bytes = <<>> THEN Base64End(ic, j)
  ELSE LET filled == [ic EXCEPT ![j + 1] = Head(bytes)]
       IN  IF j < 2 THEN Base64From(Tail(bytes), filled, j + 1, inl)
           ELSE LET full == inl + 1 = Base64Line
                IN  CharsToBase64(filled) \o (IF full THEN <<Crlf>> ELSE <<>>)
                      \o Base64From(Tail(bytes), filled, 0, IF full THEN 0 ELSE inl + 1)

StrToBase64(bytes) == Base64From(bytes, <<0, 0, 0>>, 0, 0)

-----------------------------------------------------------------------------
(* StrToCharHuffman and CharHuffmanToStr: the characters of the text, most  *)
(* frequent first, in two tables; a character's code is the bit of its      *)
(* table, as many 0 as its index, and a 1.                                  *)

\* A char is signed: one of 128 or above is counted in front of OccurrencyTable, and
\* has no entry in it.  What that overwrites is not defined, and left out.
SignedChar(byte) == IF byte < 128 THEN byte ELSE byte - 256

OccurrencyTable(bytes) ==
  [entry \in 0 .. 255 |-> Cardinality({i \in DOMAIN bytes : SignedChar(bytes[i]) = entry})]

\* The loop over the counts ends before the length of the text: a text of one
\* character only has none in its tables.
Counted(bytes) ==
  LET count == OccurrencyTable(bytes)
  IN  {byte \in 0 .. 255 : count[byte] \in 1 .. Len(bytes) - 1}

\* Filled by rising count, and by byte among equals; then turned around.
HuffmanTable(bytes) ==
  LET count == OccurrencyTable(bytes)
  IN  SetToSortSeq(Counted(bytes),
                   LAMBDA a, b : count[a] > count[b] \/ (count[a] = count[b] /\ a > b))

HuffmanTables(bytes) ==
  LET table == HuffmanTable(bytes)
      half  == Len(table) \div 2
  IN  << SubSeq(table, 1, half), SubSeq(table, half + 1, Len(table)) >>

Zeros(n) == [i \in 1 .. n |-> 0]

\* A character without an entry has the index -1, and the code of the first.
Code(tables, byte) ==
  LET second == byte \in Range(tables[2])
      table  == IF second THEN tables[2] ELSE tables[1]
      index  == pos(table, 0, <<byte>>)
  IN  <<IF second THEN 1 ELSE 0>> \o Zeros(index) \o <<1>>

\* The last byte of the data is filled up with zeros.
Padding(bits) == Zeros((8 - (Len(bits) % 8)) % 8)

StrToCharHuffman(bytes, tables) ==
  LET bits == FoldLeft(LAMBDA out, byte : out \o Code(tables, byte), <<>>, bytes)
  IN  bits \o Padding(bits)

\* current: iCurrentBit, 0 before a code's first bit; table: which one that bit chose.
DecodeBit(state, bit) ==
  IF state.current = 0 THEN [state EXCEPT !.table = bit + 1, !.current = 1]
  ELSE IF bit = 0 THEN [state EXCEPT !.current = @ + 1]
  ELSE [state EXCEPT !.out = Append(@, <<state.table, state.current>>), !.current = 0]

\* What stands behind a table is no character of it.
NoCharacter == -1

CharHuffmanToStr(bits, tables) ==
  LET last == FoldLeft(DecodeBit, [current |-> 0, table |-> 1, out |-> <<>>], bits)
      character(table, n) == IF n \in DOMAIN table THEN table[n] ELSE NoCharacter
  IN  [i \in 1 .. Len(last.out) |-> character(tables[last.out[i][1]], last.out[i][2])]

-----------------------------------------------------------------------------
(* What Base64 stands for: the bits of the numbers in a row, eight a byte;  *)
(* bits that fill no byte are dropped.                                      *)

RECURSIVE FromSextets(_)
FromSextets(n) ==
  CASE Len(n) >= 4 -> <<n[1] * 4 + n[2] \div 16, (n[2] % 16) * 16 + n[3] \div 4,
                        (n[3] % 4) * 64 + n[4]>> \o FromSextets(SubSeq(n, 5, Len(n)))
    [] Len(n) = 3  -> <<n[1] * 4 + n[2] \div 16, (n[2] % 16) * 16 + n[3] \div 4>>
    [] Len(n) = 2  -> <<n[1] * 4 + n[2] \div 16>>
    [] OTHER       -> <<>>

FromBase64(text) == FromSextets(SelectSeq(text, LAMBDA x : x \notin {Pad, Crlf}))
=============================================================================
