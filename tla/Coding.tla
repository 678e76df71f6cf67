-------------------------------- MODULE Coding --------------------------------
(***************************************************************************)
(* The bits of a header block: the fields that Hpack exchanges, as          *)
(* HpackEncoder writes them and HpackDecoder reads them (hpack.py) through *)
(* a BitEncoder and a BitDecoder (encoding.py): flags of one bit, integers *)
(* that begin within a byte and go on in sevens, strings, which may be     *)
(* Huffman-coded and padded with ones.                                     *)
(*                                                                         *)
(* Either an encoder appends field after field to a block, or a peer that  *)
(* is another program sends any bytes.  Every state is a block to decode.  *)
(***************************************************************************)
EXTENDS Integers, SequencesExt

CONSTANTS
  Code,         \* _huffman_map: the bits of every character
  None,         \* what read_huffman_char returns at the end of its string
  Strings,      \* bound: names and values to write, sequences of characters
  Indices,      \* bound: the integers to write
  Bytes,        \* bound: the bytes of a foreign peer
  MaxFields,    \* bound: fields of a block
  MaxBytes      \* bound: bytes of a foreign block

\* No code is the beginning of another, nor of EOS, which is thirty ones.
ASSUME CodeAssumption ==
  /\ DOMAIN Code \subseteq 0 .. 255
  /\ \A c \in DOMAIN Code :
       Code[c] \in Seq({0, 1}) /\ \E i \in 1 .. Len(Code[c]) : Code[c][i] = 0
  /\ \A c, d \in DOMAIN Code : c # d => ~IsPrefix(Code[c], Code[d])

ASSUME ConstantsAssumption ==
  /\ None \notin DOMAIN Code
  /\ Strings \subseteq Seq(DOMAIN Code)
  /\ Indices \subseteq Nat
  /\ Bytes \subseteq 0 .. 255
  /\ MaxFields \in Nat

VARIABLES
  huffman,      \* _encode_huffman; it never changes
  data,         \* the block
  written       \* the fields it was made from; <<>> for bytes of a peer

vars == <<huffman, data, written>>

TypeOK ==
  /\ huffman \in BOOLEAN
  /\ data \in Seq(0 .. 255)
  /\ Len(written) <= MaxFields

Init ==
  /\ huffman \in BOOLEAN
  /\ data = <<>>
  /\ written = <<>>
-----------------------------------------------------------------------------
(* Loops.                                                                  *)

\* for i in 1 .. n
Loop(Round(_, _), start, n) ==
  LET after[i \in 0 .. n] == IF i = 0 THEN start ELSE Round(after[i - 1], i)
  IN  after[n]

\* while, of which n rounds are enough
While(Test(_), Round(_), start, n) ==
  Loop(LAMBDA s, i : IF Test(s) THEN Round(s) ELSE s, start, n)
-----------------------------------------------------------------------------
(* BitEncoder: the bytes so far, and the bits that are used of the last.    *)

BitEncoder(bytes) == [data |-> bytes, bit |-> 8]

\* An encoder with room in its last byte.
Begun(e) == IF e.bit = 8 THEN [data |-> Append(e.data, 0), bit |-> 0] ELSE e

\* Adding to a byte whose bits from e.bit on are zero is or-ing.
AddToLast(e, n) == [e EXCEPT !.data[Len(e.data)] = @ + n]

WriteBit(e, b) ==
  LET begun == Begun(e)
  IN  [AddToLast(begun, b * 2 ^ (7 - begun.bit)) EXCEPT !.bit = @ + 1]

WriteBits(e, bits) == Loop(LAMBDA w, i : WriteBit(w, bits[i]), e, Len(bits))

\* Mutant: the bits that have been written are not masked.
MutantSevens(i) ==
  LET sevens[k \in 0 .. i] ==
        IF k < 128 THEN <<k>> ELSE <<k + 128>> \o sevens[k \div 128]
  IN  sevens[i]

\* Seven bits a byte, the lowest first.
Sevens(i) ==
  LET sevens[k \in 0 .. i] ==
        IF k < 128 THEN <<k>> ELSE <<(k % 128) + 128>> \o sevens[k \div 128]
  IN  sevens[i]

\* Mutant: the largest integer that fits is written with no byte after it.
MutantWriteInt(e, i) ==
  LET begun == Begun(e)
      mask == 2 ^ (8 - begun.bit) - 1
  IN  IF i <= mask
      THEN [AddToLast(begun, i) EXCEPT !.bit = 8]
      ELSE [data |-> AddToLast(begun, mask).data \o Sevens(i - mask), bit |-> 8]

\* write_hpack_int, in what is left of the last byte and as many more as it takes.
WriteInt(e, i) ==
  LET begun == Begun(e)
      mask == 2 ^ (8 - begun.bit) - 1
  IN  IF i < mask
      THEN [AddToLast(begun, i) EXCEPT !.bit = 8]
      ELSE [data |-> AddToLast(begun, mask).data \o Sevens(i - mask), bit |-> 8]

\* write_huffman_string, and the bytes of the BitEncoder it was given.
Huffman(s) ==
  LET e == Loop(LAMBDA enc, i : WriteBits(enc, Code[s[i]]), BitEncoder(<<>>), Len(s))
  IN  WriteBits(e, [i \in 1 .. 8 - e.bit |-> 1]).data

\* HpackEncoder.write_string
WriteString(e, s) ==
  LET bytes == IF huffman THEN Huffman(s) ELSE s
      sized == WriteInt(WriteBit(e, IF huffman THEN 1 ELSE 0), Len(bytes))
  IN  [sized EXCEPT !.data = @ \o bytes]
-----------------------------------------------------------------------------
(* HpackEncoder.write_header, once it has looked for the header in its      *)
(* tables (see Hpack).  A change of the limit is a peer's: this program's  *)
(* encoder writes none.                                                    *)

Flags(f) ==
  CASE f.op = "indexed" -> <<1>>
    [] f.op = "YES" -> <<0, 1>>
    [] f.op = "NEVER" -> <<0, 0, 0, 1>>
    [] f.op = "NO" -> <<0, 0, 0, 0>>
    [] f.op = "limit" -> <<0, 0, 1>>

\* A literal field, of one of the modes of HeaderIndexMode, has an index or a name.
Literals ==
  [op : {"YES", "NEVER", "NO"}, idx : Indices \ {0}, name : {<<>>}, value : Strings]
    \cup [op : {"YES", "NEVER", "NO"}, idx : {0}, name : Strings, value : Strings]

Fields == [op : {"indexed", "limit"}, idx : Indices] \cup Literals

WriteField(f) ==
  LET begun == WriteInt(WriteBits(BitEncoder(data), Flags(f)), f.idx)
      named == IF f.idx = 0 THEN WriteString(begun, f.name) ELSE begun
  IN  /\ Len(written) < MaxFields
      /\ data # <<>> => written # <<>>
      /\ data' = (IF f \in Literals THEN WriteString(named, f.value) ELSE begun).data
      /\ written' = Append(written, f)
      /\ UNCHANGED huffman
-----------------------------------------------------------------------------
(* BitDecoder: the next byte and bit, the value that was read last, and     *)
(* whether all went well: EODError and IndexError end the block.           *)

BitDecoder(bytes) == [data |-> bytes, pos |-> 0, bit |-> 0, val |-> 0, ok |-> TRUE]

Eod(d) == d.pos >= Len(d.data)
Fail(d) == [d EXCEPT !.ok = FALSE]

\* The bit that is next is the k-th of the data; what the n from there are; n later.
At(d) == 8 * d.pos + d.bit
Bit(bytes, k) == (bytes[k \div 8 + 1] \div 2 ^ (7 - (k % 8))) % 2
Ahead(d, n) == [i \in 1 .. n |-> Bit(d.data, At(d) + i - 1)]
Skip(d, n) == [d EXCEPT !.pos = (At(d) + n) \div 8, !.bit = (At(d) + n) % 8]

ReadBit(d) ==
  IF ~d.ok \/ Eod(d) THEN Fail(d) ELSE [Skip(d, 1) EXCEPT !.val = Bit(d.data, At(d))]

\* One of the bytes that follow, seven bits each, the lowest first.
ReadSeven(s) ==
  IF Eod(s.d) THEN [s EXCEPT !.d = Fail(@)]
  ELSE LET b == s.d.data[s.d.pos + 1]
       IN  [d |-> [s.d EXCEPT !.val = @ + (b % 128) * s.weight, !.pos = @ + 1],
            weight |-> s.weight * 128,
            more |-> b >= 128]

ReadSevens(d) ==
  While(LAMBDA s : s.d.ok /\ s.more, ReadSeven,
        [d |-> d, weight |-> 1, more |-> TRUE], Len(d.data) - d.pos + 1).d

ReadInt(d) ==
  IF ~d.ok \/ Eod(d) THEN Fail(d)
  ELSE LET mask == 2 ^ (8 - d.bit) - 1
           i == d.data[d.pos + 1] % 2 ^ (8 - d.bit)
           first == [d EXCEPT !.val = i, !.bit = 0, !.pos = @ + 1]
       IN  IF i < mask THEN first ELSE ReadSevens(first)

\* The leaf of _huffman_tree that the bits from here lead to, up to the end-th byte:
\* one or none, as no code is the beginning of another.
Leaf(d, end) ==
  {c \in DOMAIN Code :
     At(d) + Len(Code[c]) <= 8 * end /\ Code[c] = Ahead(d, Len(Code[c]))}

\* Mutant: a character may go on beyond its string.
MutantReadHuffmanChar(d, limit) ==
  LET leaf == Leaf(d, Len(d.data))
      char == CHOOSE c \in leaf : TRUE
  IN  IF leaf # {} THEN [Skip(d, Len(Code[char])) EXCEPT !.val = char] ELSE Fail(d)

\* A character, or None at the limit.
ReadHuffmanChar(d, limit) ==
  LET leaf == Leaf(d, IF limit < Len(d.data) THEN limit ELSE Len(d.data))
      char == CHOOSE c \in leaf : TRUE
  IN  IF leaf # {} THEN [Skip(d, Len(Code[char])) EXCEPT !.val = char]
      ELSE IF limit > Len(d.data) THEN Fail(d)
      ELSE [d EXCEPT !.pos = limit, !.bit = 0, !.val = None]

\* Without a character, the end of the string has been reached.
ReadHuffman(d, dest) ==
  LET GotChar(s, r) ==
        [d |-> r,
         chars |-> IF r.ok /\ r.val # None THEN Append(s.chars, r.val) ELSE s.chars]
      Result(s) == [s.d EXCEPT !.val = s.chars]
  IN  Result(While(LAMBDA s : s.d.ok /\ s.d.pos < dest,
                   LAMBDA s : GotChar(s, ReadHuffmanChar(s.d, dest)),
                   [d |-> d, chars |-> <<>>], 8 * (Len(d.data) - d.pos) + 1))

\* HpackDecoder.read_string
ReadString(d) ==
  LET flag == ReadBit(d)
      sized == ReadInt(flag)
      dest == sized.pos + sized.val
  IN  IF ~sized.ok THEN Fail(sized)
      ELSE IF flag.val = 1 THEN ReadHuffman(sized, dest)
      ELSE IF dest > Len(d.data) THEN Fail(sized)
      ELSE [sized EXCEPT !.val = SubSeq(d.data, sized.pos + 1, dest), !.pos = dest]
-----------------------------------------------------------------------------
(* HpackDecoder.decode, down to the fields.                                *)

\* read_name_value_pair; val is then the field.
ReadLiteral(d, op) ==
  LET index == ReadInt(d)
      name == IF index.ok /\ index.val = 0 THEN ReadString(index)
              ELSE [index EXCEPT !.val = <<>>]
      value == ReadString(name)
  IN  [value EXCEPT !.val =
         [op |-> op, idx |-> index.val, name |-> name.val, value |-> value.val]]

ReadIndex(d, op) ==
  LET index == ReadInt(d) IN [index EXCEPT !.val = [op |-> op, idx |-> index.val]]

\* One round of the loop: one to four flags tell the operation.
ReadField(d) ==
  LET b1 == ReadBit(d)
      b2 == ReadBit(b1)
      b3 == ReadBit(b2)
      b4 == ReadBit(b3)
  IN  CASE ~b1.ok -> b1
        [] b1.ok /\ b1.val = 1 -> ReadIndex(b1, "indexed")
        [] b1.ok /\ b1.val = 0 /\ b2.val = 1 -> ReadLiteral(b2, "YES")
        [] b1.ok /\ b1.val = 0 /\ b2.val = 0 /\ b3.val = 1 -> ReadIndex(b3, "limit")
        [] b1.ok /\ b1.val = 0 /\ b2.val = 0 /\ b3.val = 0 ->
             ReadLiteral(b4, IF b4.val = 1 THEN "NEVER" ELSE "NO")

\* The loop of decode, to the end of the block.
AddField(s) ==
  LET GotField(r) ==
        [d |-> r, fields |-> IF r.ok THEN Append(s.fields, r.val) ELSE s.fields]
  IN  GotField(ReadField(s.d))

Decoded ==
  LET Result(s) == [s.d EXCEPT !.val = s.fields]
  IN  Result(While(LAMBDA s : s.d.ok /\ ~Eod(s.d), AddField,
                   [d |-> BitDecoder(data), fields |-> <<>>], Len(data)))
-----------------------------------------------------------------------------
\* A peer's bytes.
ForeignByte(b) ==
  /\ written = <<>>
  /\ Len(data) < MaxBytes
  /\ data' = Append(data, b)
  /\ UNCHANGED <<huffman, written>>

Next ==
  \/ \E f \in Fields : WriteField(f)
  \/ \E b \in Bytes : ForeignByte(b)

Spec == Init /\ [][Next]_vars
-----------------------------------------------------------------------------
(* Properties.                                                             *)

\* A block is read as the fields it was made from, and to its end, whatever
\* integers are at the boundaries of 4, 5, 6 or 7 bits and of each further byte, and
\* however a Huffman-coded string fills its last byte.
RoundTrip == written # <<>> => Decoded.ok /\ Decoded.val = written

\* A string takes the bytes its length announces and no bit more or less, so that
\* what follows is read from its beginning: whatever bytes a peer sends, also Huffman
\* codes that are cut off by the end of their string, and bits that are no code.
StringsEndWhereTheySay ==
  LET sized == ReadInt(ReadBit(BitDecoder(data)))
      string == ReadString(BitDecoder(data))
  IN  string.ok => string.pos = sized.pos + sized.val /\ string.bit = 0
=============================================================================
