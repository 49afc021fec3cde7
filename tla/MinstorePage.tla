----------------------------- MODULE MinstorePage -----------------------------
(***************************************************************************)
(* The bounds arithmetic of a Minstore node, and the object table on top   *)
(* of it (core/src/minstore.rs), as pure operators.  Every offset and      *)
(* count comes from the bytes, which may say anything.                     *)
(*                                                                         *)
(* A slice is its length and the little-endian values at the positions     *)
(* something was put at, one function for each width.  The functions are   *)
(* independent of each other, so every byte slice is one of these.  No     *)
(* sum here can exceed a usize: each adds a few 32-bit values.             *)
(***************************************************************************)
EXTENDS Integers, FiniteSets, FiniteSetsExt

IsSlice(d) ==
    /\ d = [len |-> d.len, u16 |-> d.u16, u32 |-> d.u32, u64 |-> d.u64]
    /\ d.len \in Nat
    /\ \A values \in {d.u16, d.u32, d.u64} :
          /\ DOMAIN values \subseteq Nat
          /\ \A p \in DOMAIN values : values[p] \in Nat
    /\ \A p \in DOMAIN d.u16 : d.u16[p] < 65536

(***************************************************************************)
(* le_u16, le_u32, le_u64 (core/src/bytes.rs): zero when the field does    *)
(* not lie in the slice.                                                   *)
(***************************************************************************)
Read(d, values, p, width) ==
    IF p \in DOMAIN values /\ p + width <= d.len THEN values[p] ELSE 0

U16(d, p) == Read(d, d.u16, p, 2)
U32(d, p) == Read(d, d.u32, p, 4)
U64(d, p) == Read(d, d.u64, p, 8)

-----------------------------------------------------------------------------
NodeHeaderField == 80      \* NODE_HEADER_OFFSET_FIELD
NodeHeaderLen   == 32      \* NODE_HEADER_LEN
MaxRecords      == 4096    \* MAX_RECORDS

\* MinstorePage::parse.
NodeHeader(d) == NodeHeaderField + U32(d, NodeHeaderField)

Parses(d) ==
    /\ NodeHeaderField + 4 <= d.len
    /\ NodeHeader(d) + NodeHeaderLen <= d.len

RecordOffsets(d) == NodeHeader(d) + U32(d, NodeHeader(d) + 16)

\* Whole record-offset slots between the array's start and the end of the slice.
Capacity_rounded_up(d) ==
    IF RecordOffsets(d) <= d.len THEN (d.len - RecordOffsets(d) + 3) \div 4 ELSE 0
Capacity(d) ==
    IF RecordOffsets(d) <= d.len THEN (d.len - RecordOffsets(d)) \div 4 ELSE 0

RecordCount(d) == Min({U32(d, NodeHeader(d) + 20), Capacity(d), MaxRecords})

-----------------------------------------------------------------------------
(***************************************************************************)
(* row(i): the lower half of the i-th slot leads to the record, which is   *)
(* skipped unless its header, its key and its value lie in the slice.      *)
(***************************************************************************)
Slot(d, i)   == RecordOffsets(d) + 4 * i
Record(d, i) == NodeHeader(d) + (U32(d, Slot(d, i)) % 65536)

KeyStart(d, i)   == Record(d, i) + U16(d, Record(d, i) + 4)
KeyEnd(d, i)     == KeyStart(d, i) + U16(d, Record(d, i) + 6)
ValueStart(d, i) == Record(d, i) + U16(d, Record(d, i) + 10)
ValueEnd(d, i)   == ValueStart(d, i) + U16(d, Record(d, i) + 12)

IsRow(d, i) ==
    /\ Record(d, i) + 14 <= d.len
    /\ KeyEnd(d, i) <= d.len
    /\ ValueEnd(d, i) <= d.len

(***************************************************************************)
(* The closure of ObjectTable::lookup: the row carries the object          *)
(* identifier at key + 8 and is long enough for a block number at value +  *)
(* 0x20.  A row with the identifier and a short value does not end the     *)
(* search.                                                                 *)
(***************************************************************************)
Answers(d, i, id) ==
    /\ IsRow(d, i)
    /\ KeyStart(d, i) + 16 <= KeyEnd(d, i)
    /\ U64(d, KeyStart(d, i) + 8) = id
    /\ ValueStart(d, i) + 40 <= ValueEnd(d, i)

RootBlock(d, i) == U64(d, ValueStart(d, i) + 32)
=============================================================================
