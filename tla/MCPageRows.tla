------------------------------ MODULE MCPageRows ------------------------------
(***************************************************************************)
(* Instances for TLC, in the code's own byte layout: a node header at 84,  *)
(* two or three slots behind it, and two records of 200 bytes.  The slots  *)
(* name the records in either order, one of them twice, or nothing; a      *)
(* record's key and value are declared as long as they are or shorter.     *)
(***************************************************************************)
EXTENDS PageRows, TLC

Home  == 84
Slots == Home + 32
At(k) == Slots + 12 + 200 * (k - 1)
FullLen == At(3)

Shift(values, by) == [p \in {by + q : q \in DOMAIN values} |-> values[p - by]]

\* A record: key at 14, value at 38, with the lengths it declares.
Rec(key, value, k16, k64, v32, v64) ==
    [u16 |-> (4 :> 14) @@ (6 :> key) @@ (10 :> 38) @@ (12 :> value) @@ Shift(k16, 14),
     u32 |-> Shift(v32, 38),
     u64 |-> Shift(k64, 14) @@ Shift(v64, 38)]

MCPage(len, claimed, slots, r1, r2) ==
    [len |-> len,
     u16 |-> Shift(r1.u16, At(1)) @@ Shift(r2.u16, At(2)),
     u32 |-> (NodeHeaderField :> 4) @@ (Home + 16 :> 32) @@ (Home + 20 :> claimed)
             @@ [p \in {Slots + 4 * (k - 1) : k \in 1 .. 3} |->
                    slots[(p - Slots) \div 4 + 1]]
             @@ Shift(r1.u32, At(1)) @@ Shift(r2.u32, At(2)),
     u64 |-> Shift(r1.u64, At(1)) @@ Shift(r2.u64, At(2))]

\* An entry: its type, its name, and a value in which every field is distinct.
EntryRec(type, key, value, units) ==
    Rec(key, value,
        (0 :> 48) @@ (2 :> type) @@ [p \in {4 + 2 * k : k \in 0 .. Len(units) - 1} |->
                                        units[(p - 4) \div 2 + 1]],
        << >>, (32 :> 1032) @@ (64 :> 1064),
        [p \in {0, 8, 16, 24, 40, 72} |-> 100 + p])
BaseRec == Rec(6, 40, 0 :> 16, << >>, << >>, 0 :> 100)

Letter == 97
High   == 55357
Low    == 56832

MCEntries ==
    {EntryRec(type, 4 + 2 * Len(units), value, units) :
        type \in {1, 2, 3}, value \in {4, 80}, units \in {<<Letter, High>>, <<High, Low>>}}
    \cup {EntryRec(2, key, 8, <<Letter, Letter>>) : key \in {1, 3, 4, 7, 8}}
    \cup {EntryRec(2, 8, 8, units) : units \in {<<Letter, Low>>, <<Low, High>>, <<Low, Letter>>}}
    \cup {BaseRec}

\* A container: band, first cluster, count.
MCContainers ==
    {Rec(16, value, << >>, << >>, << >>, (0 :> band) @@ (144 :> 64) @@ (152 :> 32)) :
        value \in {8, 152, 159, 160}, band \in {1, 2}}

\* An object: identifier and root block; a child: a block number.
MCObjects ==
    {Rec(key, value, << >>, 8 :> 5, << >>, (0 :> 7) @@ (32 :> 9)) :
        key \in {15, 16}, value \in {7, 8, 39, 40}}

\* The upper half of a slot is not part of the offset.
SlotOf(k) == 65536 + At(k) - Home
MCSlots ==
    {<<2, <<SlotOf(1), SlotOf(2), 0>> >>, <<3, <<SlotOf(2), SlotOf(1), 500>> >>,
     <<2, <<SlotOf(1), SlotOf(1), 0>> >>}

MCPages ==
    UNION {{MCPage(FullLen, s[1], s[2], r1, r2) : s \in MCSlots, r1 \in pair[1], r2 \in pair[2]} :
           pair \in {<<MCEntries, {EntryRec(2, 8, 80, <<Letter, High>>), BaseRec,
                                    EntryRec(1, 8, 80, <<Letter, Letter>>)}>>,
                     <<MCContainers, MCContainers>>, <<MCObjects, MCObjects>>}}

\* Cuts at each place a slot, a record, a key, a value or a field of one ends.
MCCuts ==
    {83, 84, 115, 116, 119, 120, 124, FullLen}
    \cup {At(k) + n : k \in {1, 2}, n \in {13, 14, 21, 22, 37, 42, 46, 77, 78, 197, 198}}
=============================================================================
