------------------------------ MODULE RowReaders ------------------------------
(***************************************************************************)
(* What the four users of a Minstore page make of one row, as pure         *)
(* operators: the entries of a leaf (collect_entries, directory.rs), the   *)
(* children of a branch (descend, directory.rs), the records of the        *)
(* container tree (ContainerTable, container.rs) and the objects of the    *)
(* object table (ObjectTable::lookup, minstore.rs).                        *)
(***************************************************************************)
EXTENDS MinstorePage, Sequences

(***************************************************************************)
(* A field of a key or value, at an offset in it: zero unless all of it    *)
(* lies in the key or value, whatever bytes follow.                        *)
(***************************************************************************)
Within(from, to, offset, width) == from + offset + width <= to

KeyU16(d, i, offset) ==
    IF Within(KeyStart(d, i), KeyEnd(d, i), offset, 2)
    THEN U16(d, KeyStart(d, i) + offset) ELSE 0
ValueU32(d, i, offset) ==
    IF Within(ValueStart(d, i), ValueEnd(d, i), offset, 4)
    THEN U32(d, ValueStart(d, i) + offset) ELSE 0

ValueU64_of_page(d, i, offset) == U64(d, ValueStart(d, i) + offset)
ValueU64(d, i, offset) ==
    IF Within(ValueStart(d, i), ValueEnd(d, i), offset, 8)
    THEN U64(d, ValueStart(d, i) + offset) ELSE 0

ValueHas(d, i, bytes) == ValueStart(d, i) + bytes <= ValueEnd(d, i)

(***************************************************************************)
(* decode_utf16le: a pair of surrogates is one character, a surrogate that *)
(* is not in a pair becomes U+FFFD, an odd last byte is dropped.           *)
(***************************************************************************)
IsHigh(unit) == 55296 <= unit /\ unit < 56320
IsLow(unit)  == 56320 <= unit /\ unit < 57344
Replacement  == 65533

IsCharacter(c) == c \in Nat /\ c < 1114112 /\ ~IsHigh(c) /\ ~IsLow(c)

Decode_dropping(units) == SelectSeq(units, LAMBDA unit : ~IsHigh(unit) /\ ~IsLow(unit))
Decode_raw(units) == units
IsPair(units, k) == k < Len(units) /\ IsHigh(units[k]) /\ IsLow(units[k + 1])
CharacterAt(units, k) ==
    IF IsPair(units, k)
    THEN 65536 + (units[k] - 55296) * 1024 + (units[k + 1] - 56320)
    ELSE IF IsHigh(units[k]) \/ IsLow(units[k]) THEN Replacement ELSE units[k]

\* The characters from each code unit on.
DecodeFrom(units) ==
    LET from[k \in 1 .. Len(units) + 1] ==
            IF k > Len(units) THEN << >>
            ELSE <<CharacterAt(units, k)>> \o from[k + IF IsPair(units, k) THEN 2 ELSE 1]
    IN  from
Decode(units) == DecodeFrom(units)[1]

\* The whole code units of a key from byte 4 on.
NameUnits(d, i) ==
    LET bytes == KeyEnd(d, i) - KeyStart(d, i) - 4
    IN  [k \in 1 .. (IF bytes > 0 THEN bytes \div 2 ELSE 0) |->
            U16(d, KeyStart(d, i) + 4 + 2 * (k - 1))]

-----------------------------------------------------------------------------
(***************************************************************************)
(* collect_entries and parse_metadata.  A record that is not of the entry  *)
(* type is passed over; nothing else is, and a field the value is too      *)
(* short for is zero, the child identifier of a directory included.        *)
(***************************************************************************)
EntryRecord   == 48      \* RECORD_TYPE_ENTRY, 0x0030
EntryFile     == 1       \* ENTRY_TYPE_FILE
EntryDirectory == 2      \* ENTRY_TYPE_DIRECTORY

Kind(type) ==
    CASE type = EntryDirectory -> "directory"
      [] type = EntryFile -> "file"
      [] OTHER -> "other"

\* Where the times are, and the attributes; only a file has sizes.
Times(kind) == IF kind = "directory" THEN <<16, 24, 40, 32>> ELSE <<0, 8, 24, 16>>
AttributesAt(kind) == IF kind = "directory" THEN 64 ELSE 32

Metadata(d, i, kind) ==
    [size       |-> IF kind = "file" THEN ValueU64(d, i, 64) ELSE 0,
     allocated  |-> IF kind = "file" THEN ValueU64(d, i, 72) ELSE 0,
     times      |-> [t \in 1 .. 4 |-> ValueU64(d, i, Times(kind)[t])],
     attributes |-> ValueU32(d, i, AttributesAt(kind))]

EntryOf(d, i) ==
    LET kind == Kind(KeyU16(d, i, 2))
    IN  [name |-> Decode(NameUnits(d, i)), kind |-> kind,
         id   |-> IF kind = "directory" THEN {ValueU64(d, i, 0)} ELSE {},
         metadata |-> IF kind = "other" THEN {} ELSE {Metadata(d, i, kind)}]

\* ContainerTable::records.
ContainerOf(d, i) ==
    [band |-> ValueU64(d, i, 0), lcn |-> ValueU64(d, i, 144), count |-> ValueU64(d, i, 152)]

\* ObjectTable::lookup, whatever the identifier it looks for.
ObjectOf(d, i) == [id |-> U64(d, KeyStart(d, i) + 8), block |-> RootBlock(d, i)]

(***************************************************************************)
(* The rows each reader uses, and what it makes of one.  A container or a  *)
(* child with too short a value is passed over.                            *)
(***************************************************************************)
Used_without_count(who, d, i) ==
    /\ IsRow(d, i)
    /\ CASE who = "entries"    -> KeyU16(d, i, 0) = EntryRecord
         [] who = "children"   -> ValueHas(d, i, 8)
         [] who = "containers" -> ValueHas(d, i, 152)
         [] who = "objects"    -> Answers(d, i, U64(d, KeyStart(d, i) + 8))
Used(who, d, i) ==
    /\ IsRow(d, i)
    /\ CASE who = "entries"    -> KeyU16(d, i, 0) = EntryRecord
         [] who = "children"   -> ValueHas(d, i, 8)
         [] who = "containers" -> ValueHas(d, i, 160)
         [] who = "objects"    -> Answers(d, i, U64(d, KeyStart(d, i) + 8))

Yielded(who, d, i) ==
    CASE who = "entries"    -> EntryOf(d, i)
      [] who = "children"   -> ValueU64(d, i, 0)
      [] who = "containers" -> ContainerOf(d, i)
      [] who = "objects"    -> ObjectOf(d, i)
=============================================================================
