------------------------------- MODULE Hpack -------------------------------
(***************************************************************************)
(* Header compression of lkh2: the encoder of hpack_enc with its dynamic    *)
(* table, and what a decoder (the server's, or fluke_hpack for responses)   *)
(* makes of a header block.                                                 *)
(*                                                                         *)
(* A field is a pair <<name, value>>; Weight gives its entry_size in        *)
(* arbitrary units.  A header block is a sequence of instructions instead   *)
(* of bytes, so that cutting it into frames and putting it together again   *)
(* is what it is in the code.  Huffman coding and integer prefixes are left *)
(* out: no table depends on them.                                           *)
(***************************************************************************)
EXTENDS Integers, Sequences, SequencesExt

CONSTANTS
    StaticTable,   \* the fields every table starts with, in order
    Weight,        \* entry_size of a field
    DefaultTable,  \* DEFAULT_HEADER_TABLE_SIZE
    FieldLists     \* the header lists of requests and responses

WeightOf(fields) == FoldLeft(LAMBDA w, f : w + Weight[f], 0, fields)

-----------------------------------------------------------------------------
(* DynamicTable: the newest entry is first, pop_back takes the oldest.      *)

NewTable(max) == [entries |-> <<>>, max |-> max]

EvictTo(entries, room) ==
    SubSeq(entries, 1,
           Max({k \in 0..Len(entries) : WeightOf(SubSeq(entries, 1, k)) <= room}))

(* A field larger than the table empties it and is not kept.                *)
TableInsert(t, f) ==
    [t EXCEPT !.entries = IF Weight[f] > t.max
                          THEN <<>>
                          ELSE <<f>> \o EvictTo(@, t.max - Weight[f])]

set_max_size(t, n) == [entries |-> EvictTo(t.entries, n), max |-> n]

Indexed(t) == StaticTable \o t.entries

(* The first full match, else the first field of that name, else 0.         *)
find_header(f, t) ==
    LET table == Indexed(t)
        full  == {i \in DOMAIN table : table[i] = f}
        named == {i \in DOMAIN table : table[i][1] = f[1]}
    IN  [full  |-> full # {},
         index |-> IF full # {} THEN Min(full) ELSE IF named # {} THEN Min(named) ELSE 0]

-----------------------------------------------------------------------------
(* Encoder: a table and the size update it owes, if any, as a sequence.     *)

NewEncoder(max) == [table |-> NewTable(max), pending |-> <<>>]

(* Mutant: the new size is used and not announced.                          *)
ResizeUnannounced(enc, n) == [enc EXCEPT !.table = set_max_size(@, n)]

(* set_max_table_size: a later call replaces the update that is still owed. *)
ResizeEncoder(enc, n) == [table |-> set_max_size(enc.table, n), pending |-> <<n>>]

SizeUpdate(n) == [kind |-> "size", size |-> n]

(* A field that is asked for with indexing becomes an index or a literal    *)
(* that both sides insert; without, a literal that neither does.            *)
Instruction(f, indexing, found) ==
    IF indexing /\ found.full
    THEN [kind |-> "indexed", index |-> found.index]
    ELSE [kind |-> "literal", insert |-> indexing, index |-> found.index,
          name |-> IF found.index = 0 THEN f[1] ELSE "", value |-> f[2]]

encode_header(e, f, indexing) ==
    LET found == find_header(f, e.enc.table)
    IN  [enc   |-> IF indexing /\ ~found.full
                   THEN [e.enc EXCEPT !.table = TableInsert(@, f)] ELSE e.enc,
         block |-> Append(e.block, Instruction(f, indexing, found))]

(* encode_with_policy: the update owed, then the fields; Indexing is the    *)
(* policy's answer, IncrementalIndexing or Indexed on one side and          *)
(* WithoutIndexing or NeverIndexed on the other.                            *)
EncodeBlock(enc, fields, Indexing) ==
    FoldLeft(LAMBDA e, f : encode_header(e, f, f \in Indexing),
             [enc   |-> [enc EXCEPT !.pending = <<>>],
              block |-> [i \in DOMAIN enc.pending |-> SizeUpdate(enc.pending[i])]],
             fields)

-----------------------------------------------------------------------------
(* A decoder (external): every instruction in turn, size updates up to      *)
(* limit.  ok turns FALSE at an index out of the table or a size above the  *)
(* limit, a compression error.                                              *)

DecodeInstruction(d, i, limit) ==
    LET table == Indexed(d.table)
    IN  CASE i.kind = "size" ->
                 [d EXCEPT !.table = set_max_size(@, i.size), !.ok = @ /\ i.size <= limit]
          [] i.kind = "indexed" ->
                 IF i.index \in DOMAIN table
                 THEN [d EXCEPT !.fields = Append(@, table[i.index])]
                 ELSE [d EXCEPT !.ok = FALSE]
          [] i.kind = "literal" ->
                 IF i.index \in {0} \cup DOMAIN table
                 THEN LET f == <<IF i.index = 0 THEN i.name ELSE table[i.index][1], i.value>>
                      IN  [d EXCEPT !.fields = Append(@, f),
                                    !.table  = IF i.insert THEN TableInsert(@, f) ELSE @]
                 ELSE [d EXCEPT !.ok = FALSE]

DecodeBlock(table, block, limit) ==
    FoldLeft(LAMBDA d, i : DecodeInstruction(d, i, limit),
             [table |-> table, fields |-> <<>>, ok |-> TRUE], block)
=============================================================================
