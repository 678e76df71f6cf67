--------------------------------- MODULE Hpack ---------------------------------
(***************************************************************************)
(* HPACK (hpack.py): the encoder of one end of a connection, the decoder   *)
(* of the other, and the header blocks on their way between them.  Each    *)
(* keeps a dynamic table of its own; a block means what it should only as  *)
(* long as the decoder's table, when it reads the block, is the one the    *)
(* encoder had when it wrote it.                                           *)
(*                                                                         *)
(* A block is a sequence of fields, as hpack.py writes and reads them bit  *)
(* by bit: an indexed field, a literal field, which is added to the table  *)
(* or not, or a change of the table's limit.                               *)
(***************************************************************************)
EXTENDS Integers, SequencesExt

CONSTANTS
  Names,        \* header names
  Values,       \* header values
  ForeignNames, \* bound: names of a foreign peer
  None,         \* the value of a static entry that has a name only
  Static,       \* the static table, a sequence of <<name, value>>
  Size,         \* _entry_size of every <<name, value>>
  Limit,        \* the default of HEADER_TABLE_SIZE
  MaxHeaders,   \* bound: headers of a list, fields of a foreign block
  MaxUnderway   \* bound: blocks between encoder and decoder

Pairs == Names \X Values

ASSUME ConstantsAssumption ==
  /\ None \notin Values
  /\ ForeignNames \subseteq Names
  /\ Static \in Seq(Names \X (Values \cup {None}))
  /\ Size \in [Names \X (Values \cup {None}) -> Nat \ {0}]
  /\ Limit \in Nat
  /\ MaxHeaders \in Nat
  /\ MaxUnderway \in Nat

VARIABLES
  enc,          \* the encoder's dynamic table
  dec,          \* the decoder's
  wire,         \* blocks that were written and not read, each with the header
                \* list it was made from
  out,          \* the list the decoder returned last
  failed,       \* HpackError was raised: the connection ends
  foreign       \* the peer is another program, which may send any block; it never
                \* changes

vars == <<enc, dec, wire, out, failed, foreign>>

\* _dynamic_table (newest entry first), _dynamic_table_size, _dynamic_table_limit.
\* Entries come from literal fields, so that their values are no None.
Table == [entries : Seq(Pairs), size : Nat, limit : Nat]

EmptyTable == [entries |-> <<>>, size |-> 0, limit |-> Limit]

Fields ==
  [op : {"indexed"}, idx : Nat]
    \cup [op : {"literal"}, add : BOOLEAN, nameIdx : Nat, name : Names, value : Values]
    \cup [op : {"limit"}, limit : Nat]

TypeOK ==
  /\ enc \in Table
  /\ dec \in Table
  /\ wire \in Seq([fields : Seq(Fields), list : Seq(Pairs)])
  /\ out \in Seq(Names \X (Values \cup {None}))
  /\ failed \in BOOLEAN
  /\ foreign \in BOOLEAN

Init ==
  /\ enc = EmptyTable
  /\ dec = EmptyTable
  /\ wire = <<>>
  /\ out = <<>>
  /\ failed = FALSE
  /\ foreign \in BOOLEAN
-----------------------------------------------------------------------------
(* The tables.                                                             *)

Weight(entries) == SumFunction([i \in DOMAIN entries |-> Size[entries[i]]])

\* Mutant: the size is not brought up to date when entries are dropped.
MutantGc(t) ==
  LET left(k) == t.size - Weight(SubSeq(t.entries, k + 1, Len(t.entries)))
      keep == Max({k \in 0 .. Len(t.entries) : left(k) <= t.limit})
  IN  [t EXCEPT !.entries = SubSeq(@, 1, keep)]

\* _gc_dynamic_table: pop the oldest entries until the size is within the limit.
Gc(t) ==
  LET left(k) == t.size - Weight(SubSeq(t.entries, k + 1, Len(t.entries)))
      keep == Max({k \in 0 .. Len(t.entries) : left(k) <= t.limit})
  IN  [t EXCEPT !.entries = SubSeq(@, 1, keep), !.size = left(keep)]

\* add_to_dynamic_table, of the encoder and of the decoder.
AddToTable(t, pair) ==
  Gc([t EXCEPT !.entries = <<pair>> \o @, !.size = @ + Size[pair]])

SmallestOr0(S) == IF S = {} THEN 0 ELSE Min(S)
LargestOr0(S) == IF S = {} THEN 0 ELSE Max(S)

\* Indices 1 .. Len(Static) are static; the dynamic table comes after them.
\* _static_pairs keeps the last of equal entries, _static_keys the first.
StaticPairIndex(pair) == LargestOr0({i \in DOMAIN Static : Static[i] = pair})
StaticKeyIndex(name) == SmallestOr0({i \in DOMAIN Static : Static[i][1] = name})

FindPairIndex(t, pair) ==
  LET dynamic == {i \in DOMAIN t.entries : t.entries[i] = pair}
  IN  IF StaticPairIndex(pair) # 0 THEN StaticPairIndex(pair)
      ELSE IF dynamic = {} THEN 0 ELSE Len(Static) + Min(dynamic)

\* Mutant: names are searched in the dynamic table, too.  The decoder reads the
\* name before it adds the entry, the encoder searches it after.
MutantFindKeyIndex(t, name) ==
  LET dynamic == {i \in DOMAIN t.entries : t.entries[i][1] = name}
  IN  IF StaticKeyIndex(name) # 0 THEN StaticKeyIndex(name)
      ELSE IF dynamic = {} THEN 0 ELSE Len(Static) + Min(dynamic)

\* The search of the dynamic table compares each entry, a pair, with the name, and
\* never finds one.
FindKeyIndex(t, name) == StaticKeyIndex(name)
-----------------------------------------------------------------------------
(* The encoder.                                                            *)

\* HpackEncoder.write_header, on the table and the fields written so far.
WriteHeader(e, header) ==
  LET pair == <<header.name, header.value>>
      idx == FindPairIndex(e.table, pair)
      table == IF header.add THEN AddToTable(e.table, pair) ELSE e.table
      literal == [op |-> "literal", add |-> header.add,
                  nameIdx |-> FindKeyIndex(table, header.name),
                  name |-> header.name, value |-> header.value]
  IN  IF idx # 0
      THEN [e EXCEPT !.fields = Append(@, [op |-> "indexed", idx |-> idx])]
      ELSE [table |-> table, fields |-> Append(e.fields, literal)]

\* A header to encode: HeaderIndexMode.YES adds it to the table, NO and NEVER do not.
Headers == [name : Names, value : Values, add : BOOLEAN]
HeaderLists == UNION {[1 .. n -> Headers] : n \in 0 .. MaxHeaders}

PairOf(header) == <<header.name, header.value>>

\* The loop of encode: table and fields after i headers.
Writing(table, headers) ==
  LET e[i \in 0 .. Len(headers)] ==
        IF i = 0 THEN [table |-> table, fields |-> <<>>]
        ELSE WriteHeader(e[i - 1], headers[i])
  IN  e

\* HpackEncoder.encode, and the frame with the block on its way.
Encode(headers) ==
  LET e == Writing(enc, headers)[Len(headers)]
      list == [i \in DOMAIN headers |-> PairOf(headers[i])]
  IN  /\ ~foreign
      /\ Len(wire) < MaxUnderway
      /\ enc' = e.table
      /\ wire' = Append(wire, [fields |-> e.fields, list |-> list])
      /\ UNCHANGED <<dec, out, failed, foreign>>
-----------------------------------------------------------------------------
(* The decoder.                                                            *)

\* read_from_index finds an entry at idx, and which one.
HasIndex(t, idx) == idx \in 1 .. Len(Static) + Len(t.entries)
ReadFromIndex(t, idx) ==
  IF idx <= Len(Static) THEN Static[idx] ELSE t.entries[idx - Len(Static)]

\* Mutant: an indexed field is added to the table, too.
MutantReadIndexed(d, f) ==
  LET pair == ReadFromIndex(d.table, f.idx)
  IN  [d EXCEPT !.list = Append(@, pair), !.start = FALSE, !.table = AddToTable(@, pair)]

ReadIndexed(d, f) ==
  [d EXCEPT !.list = Append(@, ReadFromIndex(d.table, f.idx)), !.start = FALSE]

\* Mutant: a literal field is added to the table whatever it asks for.
MutantReadLiteral(d, f) ==
  LET name == IF f.nameIdx = 0 THEN f.name ELSE ReadFromIndex(d.table, f.nameIdx)[1]
  IN  [d EXCEPT !.list = Append(@, <<name, f.value>>), !.start = FALSE,
                !.table = AddToTable(@, <<name, f.value>>)]

\* A literal field; read_name_value_pair reads its name through the table it is
\* then added to.
ReadLiteral(d, f) ==
  LET name == IF f.nameIdx = 0 THEN f.name ELSE ReadFromIndex(d.table, f.nameIdx)[1]
  IN  [d EXCEPT !.list = Append(@, <<name, f.value>>), !.start = FALSE,
                !.table = IF f.add THEN AddToTable(@, <<name, f.value>>) ELSE @]

\* One round of HpackDecoder.decode, on the table and what it has read so far.
\* After an error the rest of the block is not read; the table stays changed.
ReadField(d, f) ==
  CASE d.failed -> d
    [] ~d.failed /\ f.op = "indexed" ->
         IF HasIndex(d.table, f.idx)
         THEN ReadIndexed(d, f)
         ELSE [d EXCEPT !.failed = TRUE]
    [] ~d.failed /\ f.op = "literal" ->
         IF f.nameIdx = 0 \/ HasIndex(d.table, f.nameIdx)
         THEN ReadLiteral(d, f)
         ELSE [d EXCEPT !.failed = TRUE]
    [] ~d.failed /\ f.op = "limit" ->
         IF d.start
         THEN [d EXCEPT !.table = Gc([@ EXCEPT !.limit = f.limit])]
         ELSE [d EXCEPT !.failed = TRUE]

\* The loop of decode: where it stands after i fields.
Reading(table, fields) ==
  LET d[i \in 0 .. Len(fields)] ==
        IF i = 0 THEN [table |-> table, list |-> <<>>, start |-> TRUE, failed |-> FALSE]
        ELSE ReadField(d[i - 1], fields[i])
  IN  d

\* HpackDecoder.decode.  HpackError ends the connection: nothing is decoded after.
Read(fields) ==
  LET d == Reading(dec, fields)[Len(fields)]
  IN  /\ ~failed
      /\ dec' = d.table
      /\ failed' = d.failed
      /\ out' = IF d.failed THEN out ELSE d.list

Decode ==
  /\ wire # <<>>
  /\ Read(Head(wire).fields)
  /\ wire' = Tail(wire)
  /\ UNCHANGED <<enc, foreign>>

ForeignFields ==
  LET indices == 0 .. Len(Static) + 2
  IN  [op : {"indexed"}, idx : indices]
        \cup [op : {"literal"}, add : BOOLEAN, nameIdx : indices, name : ForeignNames, value : Values]
        \cup [op : {"limit"}, limit : 0 .. Limit + 1]

\* A block of a peer that is not this program.
ForeignBlock(fields) ==
  /\ foreign
  /\ Read(fields)
  /\ UNCHANGED <<enc, wire, foreign>>
-----------------------------------------------------------------------------
Next ==
  \/ Decode
  \/ \E headers \in HeaderLists : Encode(headers)
  \/ \E n \in 0 .. MaxHeaders : \E fields \in [1 .. n -> ForeignFields] : ForeignBlock(fields)

Spec == Init /\ [][Next]_vars
-----------------------------------------------------------------------------
(* Properties.                                                             *)

\* The header lists come out as they went in, although the two tables change at
\* different times: up to MaxUnderway blocks lie between them, entries are evicted,
\* and an entry may be too large for the table.
Pipe == INSTANCE HeaderPipe WITH
  Lists     <- UNION {[1 .. n -> Pairs] : n \in 0 .. MaxHeaders},
  underway  <- [i \in DOMAIN wire |-> wire[i].list],
  delivered <- IF foreign THEN <<>> ELSE out

ImplementsHeaderPipe == Pipe!Spec

\* When nothing is underway the two tables are the same: no block, however it was
\* encoded, leaves one behind.
TablesAgree == ~foreign /\ wire = <<>> => dec = enc /\ ~failed

\* The table never exceeds its limit, and the size that decides on evictions is that
\* of the entries, whatever the peer sends: indices out of range, entries larger
\* than the table, changes of the limit in both directions, errors in mid-block.
TableFits ==
  \A t \in {enc, dec} : t.size <= t.limit /\ t.size = Weight(t.entries)
=============================================================================
