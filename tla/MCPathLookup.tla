----------------------------- MODULE MCPathLookup -----------------------------
(***************************************************************************)
(* Instances for TLC, in the code's own byte layout.  The object table has *)
(* three 70-byte records behind three slots; its header fields, its length *)
(* and its records vary, then the directories do: ones that contain        *)
(* themselves or each other, repeat a name, or cannot be listed.  Some     *)
(* listings are decoded from the bytes of a leaf page (RowReaders), where  *)
(* a name may be lossy, a directory's value too short for its identifier,  *)
(* or a row not an entry.                                                  *)
(***************************************************************************)
EXTENDS PathLookup, RowReaders, TLC

Home == 84                       \* where the node header is when the field says 4
At(n) == Home + 44 + 70 * (n - 1)    \* record n
FullLen == At(4)

\* A record as its identifier, its root block, and the lengths of key and value.
Rec(id, block, key, value) == [id |-> id, block |-> block, key |-> key, value |-> value]

\* The upper half of a slot is not part of the offset.
Table(len, rel, roff, claimed, recs) ==
    [len |-> len,
     u32 |-> (NodeHeaderField :> rel) @@ (Home + 16 :> roff) @@ (Home + 20 :> claimed)
             @@ [p \in {Home + 28 + 4 * n : n \in 1 .. 3} |->
                    65536 + At((p - Home - 28) \div 4) - Home],
     u16 |-> [p \in {At(n) + 4 : n \in 1 .. 3} |-> 14]
             @@ [p \in {At(n) + 6 : n \in 1 .. 3} |-> recs[(p - Home - 50) \div 70 + 1].key]
             @@ [p \in {At(n) + 10 : n \in 1 .. 3} |-> 30]
             @@ [p \in {At(n) + 12 : n \in 1 .. 3} |-> recs[(p - Home - 56) \div 70 + 1].value],
     u64 |-> [p \in {At(n) + 22 : n \in 1 .. 3} |-> recs[(p - Home - 66) \div 70 + 1].id]
             @@ [p \in {At(n) + 62 : n \in 1 .. 3} |-> recs[(p - Home - 106) \div 70 + 1].block]]

MCRoot == 6
MCSub  == 7

Sound == <<Rec(MCSub, 11, 16, 40), Rec(MCRoot, 10, 16, 40), Rec(MCRoot, 11, 16, 40)>>

MCRecs ==
    {Rec(MCRoot, 10, 16, 40), Rec(MCSub, 11, 16, 40), Rec(MCRoot, 11, 16, 39),
     Rec(MCSub, 12, 15, 40), Rec(MCRoot, 11, 16, 400)}

MCTables ==
    {Table(FullLen, 4, 32, 3, recs) : recs \in [1 .. 3 -> MCRecs]}
    \cup {Table(len, 4, roff, claimed, Sound) :
            len \in {83, 84, 115, 116, 119, 122, 124, 128, 197, 198, FullLen - 1},
            roff \in {32, 36, 400}, claimed \in {0, 2, 9}}
    \cup {Table(FullLen, rel, 32, 3, Sound) : rel \in {0, 4, 200, 400}}
    \cup {NoTable}

\* The names "a" and "b", and that of an unpaired surrogate, as they decode.
a == <<97>>
b == <<98>>
lossy == <<Replacement>>
MCNames == {a, b, lossy}

Dir(name, id) == [name |-> name, kind |-> "directory", id |-> id]
File(name)    == [name |-> name, kind |-> "file", id |-> 0]
Bare(name)    == [name |-> name, kind |-> "other", id |-> 0]

MCWalks ==
    {[status |-> "unresolved"], [status |-> "truncated"]}
    \cup {[status |-> "ok", entries |-> list] :
            list \in {<< >>, <<Dir(a, MCRoot)>>, <<Dir(a, MCSub), File(b)>>,
                      <<File(a), Dir(b, MCSub)>>, <<File(b), Dir(b, MCSub)>>,
                      <<Bare(a), Dir(b, MCRoot)>>, <<Dir(b, 9), File(a)>>}}

\* A leaf page of two rows, each a record type, an entry type, a name of one
\* code unit, a child identifier and the length its value declares.
Row(record, type, unit, id, value) ==
    [record |-> record, type |-> type, unit |-> unit, id |-> id, value |-> value]
LeafAt(n) == Home + 40 + 30 * (n - 1)
LeafPage(rows) ==
    [len |-> LeafAt(3),
     u32 |-> (NodeHeaderField :> 4) @@ (Home + 16 :> 32) @@ (Home + 20 :> 2)
             @@ (Home + 32 :> 40) @@ (Home + 36 :> 70),
     u16 |-> [p \in {LeafAt(n) + o : n \in 1 .. 2, o \in {4, 6, 10, 12, 14, 16, 18}} |->
                LET n == (p - LeafAt(1)) \div 30 + 1
                    o == (p - LeafAt(1)) % 30
                IN  CASE o = 4 -> 14 [] o = 6 -> 6 [] o = 10 -> 20 [] o = 12 -> rows[n].value
                      [] o = 14 -> rows[n].record [] o = 16 -> rows[n].type
                      [] o = 18 -> rows[n].unit],
     u64 |-> [p \in {LeafAt(n) + 20 : n \in 1 .. 2} |-> rows[(p - LeafAt(1)) \div 30 + 1].id]]

\* The listing of a directory that is one leaf page.
Decoded(d) ==
    LET used == SelectSeq([n \in 1 .. RecordCount(d) |-> n - 1], LAMBDA r : Used("entries", d, r))
        Plain(e) == [name |-> e.name, kind |-> e.kind, id |-> Max(e.id \cup {0})]
    IN  [status |-> "ok", entries |-> [n \in DOMAIN used |-> Plain(EntryOf(d, used[n]))]]

MCRows ==
    {Row(record, type, unit, MCRoot, value) :
        record \in {16, 48}, type \in {1, 2, 3}, unit \in {97, 55296}, value \in {7, 8}}
MCLeaves ==
    {LeafPage(<<first, Row(48, 2, unit, MCSub, 8)>>) : first \in MCRows, unit \in {97, 98, 57343}}

MCListing(w10, w11) == (10 :> w10) @@ (11 :> w11)

MCImages ==
    {[table |-> table,
      listing |-> MCListing([status |-> "ok", entries |-> <<Dir(a, MCSub), File(b)>>],
                            [status |-> "ok", entries |-> <<Dir(a, MCRoot), File(b)>>])] :
        table \in MCTables}
    \cup {[table |-> Table(FullLen, 4, 32, 3, Sound), listing |-> MCListing(w10, w11)] :
            w10 \in MCWalks, w11 \in MCWalks}
    \cup {[table |-> Table(FullLen, 4, 32, 3, Sound),
           listing |-> MCListing(Decoded(leaf),
                                 [status |-> "ok", entries |-> <<File(a), Dir(lossy, MCRoot)>>])] :
            leaf \in MCLeaves}

MCPaths == UNION {[1 .. n -> {a, b}] : n \in 0 .. 3} \cup {<<lossy>>, <<lossy, lossy, a>>}
=============================================================================
