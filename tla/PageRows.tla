------------------------------- MODULE PageRows -------------------------------
(***************************************************************************)
(* The row loop over one Minstore page (minstore.rs:166-170), as each of   *)
(* its four users runs it; RowReaders says what they make of one row.  The *)
(* page read is the first bytes of a whole one: an image may end, or a     *)
(* caller cut its slice, anywhere.                                         *)
(***************************************************************************)
EXTENDS RowReaders

CONSTANTS
    Pages,      \* the whole pages
    Cuts,       \* how much of one may be read
    Readers     \* who reads it

ASSUME RowsAssumption ==
    /\ \A d \in Pages : IsSlice(d)
    /\ Cuts \subseteq Nat
    /\ Readers \subseteq {"entries", "children", "containers", "objects"}

VARIABLES
    whole,     \* history: the page the bytes are of
    cut,       \* how many of them are read
    reader,
    answer,    \* what the reader returns
    row,       \* the row the loop is at
    out        \* what it has yielded

vars == <<whole, cut, reader, answer, row, out>>

\* The bytes read.
page == [whole EXCEPT !.len = Min({cut, whole.len})]

-----------------------------------------------------------------------------
MetadataType == [size : Nat, allocated : Nat, times : [1 .. 4 -> Nat], attributes : Nat]

IsYield(who, v) ==
    CASE who = "entries" ->
            /\ \A k \in DOMAIN v.name : IsCharacter(v.name[k])
            /\ v.kind = "directory" <=> v.id # {}
            /\ v.kind = "other" <=> v.metadata = {}
            /\ v.id \subseteq Nat /\ v.metadata \subseteq MetadataType
      [] who = "children"   -> v \in Nat
      [] who = "containers" -> v \in [band : Nat, lcn : Nat, count : Nat]
      [] who = "objects"    -> v \in [id : Nat, block : Nat]

TypeOK ==
    /\ IsSlice(whole)
    /\ cut \in Cuts
    /\ reader \in Readers
    /\ answer \in {"reading", "ok", "truncated"}
    /\ row \in 0 .. MaxRecords
    /\ Len(out) <= row
    /\ \A k \in DOMAIN out : IsYield(reader, out[k])

Init ==
    /\ whole \in Pages
    /\ cut \in Cuts
    /\ reader \in Readers
    /\ answer = "reading"
    /\ row = 0
    /\ out = << >>

RefusePage ==
    /\ answer = "reading"
    /\ ~Parses(page)
    /\ answer' = "truncated"
    /\ UNCHANGED <<whole, cut, reader, row, out>>

AtRow == answer = "reading" /\ Parses(page) /\ row < RecordCount(page)

PassRow ==
    /\ AtRow
    /\ ~Used(reader, page, row)
    /\ row' = row + 1
    /\ UNCHANGED <<whole, cut, reader, answer, out>>

UseRow ==
    /\ AtRow
    /\ Used(reader, page, row)
    /\ out' = Append(out, Yielded(reader, page, row))
    /\ row' = row + 1
    /\ UNCHANGED <<whole, cut, reader, answer>>

EndRows ==
    /\ answer = "reading"
    /\ Parses(page)
    /\ row = RecordCount(page)
    /\ answer' = "ok"
    /\ UNCHANGED <<whole, cut, reader, row, out>>

Next == RefusePage \/ PassRow \/ UseRow \/ EndRows

Spec == Init /\ [][Next]_vars

-----------------------------------------------------------------------------
(***************************************************************************)
(* ContainerTable::physical_base and cluster_count: two searches of their  *)
(* own, each for the first record of the band; none or one.                *)
(***************************************************************************)
FirstOf(band) ==
    {k \in DOMAIN out : out[k].band = band /\ \A j \in 1 .. k - 1 : out[j].band # band}
PhysicalBase(band) == {out[k].lcn : k \in FirstOf(band)}
ClusterCount(band) == {out[k].count : k \in FirstOf(band)}

-----------------------------------------------------------------------------
(***************************************************************************)
(* Reading a part of a page is reading the page less the rows that are not *)
(* all there: slot, record header, key and value.  No field is made up     *)
(* from the cut, none is taken from bytes after its row, and a row that is *)
(* not there costs no other.  So a longer slice, such as the one           *)
(* object_table takes from its cluster to the end of the image             *)
(* (directory.rs:262), reads a table whose slots and rows lie in one page  *)
(* as that page (minstore.rs:132-135 and 166-196, directory.rs:402-421).   *)
(***************************************************************************)
LiesIn(d, i, n) ==
    /\ Slot(d, i) + 4 <= n
    /\ Record(d, i) + 14 <= n
    /\ KeyEnd(d, i) <= n
    /\ ValueEnd(d, i) <= n

CutReadsSame ==
    answer = "ok" =>
        LET kept == {i \in 0 .. RecordCount(whole) - 1 :
                        LiesIn(whole, i, page.len) /\ Used(reader, whole, i)}
        IN  /\ Len(out) = Cardinality(kept)
            /\ \A i \in kept :
                  out[Cardinality({j \in kept : j <= i})] = Yielded(reader, whole, i)

(***************************************************************************)
(* Where a band is and how long it is are said by one record, the first of *)
(* the band that is long enough for both; neither is a zero read past the  *)
(* end of a short one (container.rs:133-168).                              *)
(***************************************************************************)
PlacementIsOneRecord ==
    answer = "ok" /\ reader = "containers" =>
        \A band \in {out[k].band : k \in DOMAIN out} :
            \E i \in 0 .. RecordCount(page) - 1 :
                LET at == ValueStart(page, i)
                IN  /\ IsRow(page, i) /\ at + 160 <= ValueEnd(page, i)
                    /\ U64(page, at) = band
                    /\ PhysicalBase(band) = {U64(page, at + 144)}
                    /\ ClusterCount(band) = {U64(page, at + 152)}

(***************************************************************************)
(* Two entries of one page that are given the same name without U+FFFD in  *)
(* it have the same code units on disk: decoding loses a name only where   *)
(* it shows (directory.rs:164-175).                                        *)
(***************************************************************************)
NamesCollideVisibly ==
    answer = "ok" /\ reader = "entries" =>
        \A i, j \in 0 .. RecordCount(page) - 1 :
            LET Entry(r) == EntryOf(page, r).name
            IN  /\ Used(reader, page, i) /\ Used(reader, page, j)
                /\ Entry(i) = Entry(j)
                /\ NameUnits(page, i) # NameUnits(page, j)
                => \E k \in DOMAIN Entry(i) : Entry(i)[k] = Replacement
=============================================================================
