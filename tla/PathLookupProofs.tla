--------------------------- MODULE PathLookupProofs ---------------------------
(***************************************************************************)
(* Theorems about the object-table lookup, for every slice: its header may *)
(* hold any offset and any count.                                          *)
(***************************************************************************)
EXTENDS PathLookup, NaturalsInduction, WellFoundedInduction, TLAPS

(***************************************************************************)
(* A read is a natural number, zero past the end (bytes.rs:6-9).           *)
(***************************************************************************)
LEMMA ReadType ==
    ASSUME NEW d, IsSlice(d), NEW p
    PROVE  U16(d, p) \in Nat /\ U32(d, p) \in Nat /\ U64(d, p) \in Nat
  BY DEF IsSlice, U16, U32, U64, Read

\* Min of three naturals is one of them and none exceeds it
\* (minstore.rs:136).
LEMMA MinOfThree ==
    ASSUME NEW a \in Nat, NEW b \in Nat, NEW c \in Nat
    PROVE  /\ Min({a, b, c}) \in Nat
           /\ Min({a, b, c}) <= a /\ Min({a, b, c}) <= b /\ Min({a, b, c}) <= c
<1>1. \E x \in {a, b, c} : \A y \in {a, b, c} : x <= y
  <2>1. CASE a <= b /\ a <= c  BY <2>1
  <2>2. CASE b <= a /\ b <= c  BY <2>2
  <2>3. CASE c <= a /\ c <= b  BY <2>3
  <2> QED  BY <2>1, <2>2, <2>3
<1> DEFINE least == CHOOSE x \in {a, b, c} : \A y \in {a, b, c} : x <= y
<1>2. least \in {a, b, c} /\ \A y \in {a, b, c} : least <= y
  BY <1>1
<1>3. Min({a, b, c}) = least
  BY DEF Min
<1> QED  BY <1>2, <1>3

\* Whole four-byte slots in the room left fit in it (minstore.rs:135).
LEMMA CapacityFits ==
    ASSUME NEW d, IsSlice(d)
    PROVE  /\ NodeHeader(d) \in Nat /\ RecordOffsets(d) \in Nat /\ Capacity(d) \in Nat
           /\ Capacity(d) > 0 => RecordOffsets(d) + 4 * Capacity(d) <= d.len
<1>1. d.len \in Nat
  BY DEF IsSlice
<1>2. NodeHeader(d) \in Nat
  BY ReadType DEF NodeHeader, NodeHeaderField
<1>3. RecordOffsets(d) \in Nat
  BY ReadType, <1>2 DEF RecordOffsets
<1>4. CASE RecordOffsets(d) <= d.len
  <2>1. d.len - RecordOffsets(d) \in Nat
    BY <1>1, <1>3, <1>4
  <2>2. \A room \in Nat : room \div 4 \in Nat /\ 4 * (room \div 4) <= room
    OBVIOUS
  <2>3. Capacity(d) = (d.len - RecordOffsets(d)) \div 4
    BY <1>4 DEF Capacity
  <2> QED  BY <1>1, <1>2, <1>3, <2>1, <2>2, <2>3
<1>5. CASE ~(RecordOffsets(d) <= d.len)
  BY <1>2, <1>3, <1>5 DEF Capacity
<1> QED  BY <1>4, <1>5

\* The slot of every counted record lies in the slice (minstore.rs:132-136).
LEMMA SlotInside ==
    ASSUME NEW d, IsSlice(d), NEW n \in Nat, n < RecordCount(d)
    PROVE  Slot(d, n) + 4 <= d.len
<1>1. RecordCount(d) \in Nat /\ RecordCount(d) <= Capacity(d)
  BY ReadType, CapacityFits, MinOfThree DEF RecordCount, MaxRecords
<1>2. n + 1 <= Capacity(d) /\ Capacity(d) > 0
  BY <1>1, CapacityFits
<1>3. RecordOffsets(d) + 4 * Capacity(d) <= d.len /\ d.len \in Nat
  BY <1>2, CapacityFits DEF IsSlice
<1>4. RecordOffsets(d) \in Nat /\ Capacity(d) \in Nat
  BY CapacityFits
<1> QED  BY <1>2, <1>3, <1>4 DEF Slot

\* A record count is a natural no cap is below (minstore.rs:136).
LEMMA CountType ==
    ASSUME NEW d, IsSlice(d)
    PROVE  RecordCount(d) \in Nat /\ RecordCount(d) <= MaxRecords
  BY ReadType, CapacityFits, MinOfThree DEF RecordCount, MaxRecords

\* The fields a row answers with lie in the slice (minstore.rs:240-260).
LEMMA AnswerInside ==
    ASSUME NEW d, IsSlice(d), NEW n \in Nat, NEW id, Answers(d, n, id)
    PROVE  KeyStart(d, n) + 16 <= d.len /\ ValueStart(d, n) + 40 <= d.len
<1>1. RecordOffsets(d) \in Nat /\ NodeHeader(d) \in Nat /\ d.len \in Nat
  BY CapacityFits DEF IsSlice
<1>2. U32(d, Slot(d, n)) % 65536 \in Nat
  <2>1. U32(d, Slot(d, n)) \in Nat
    BY ReadType
  <2> QED  BY <2>1
<1>3. Record(d, n) \in Nat
  BY <1>1, <1>2 DEF Record
<1>4. KeyStart(d, n) \in Nat /\ ValueStart(d, n) \in Nat
  BY <1>3, ReadType DEF KeyStart, ValueStart
<1>5. KeyEnd(d, n) \in Nat /\ ValueEnd(d, n) \in Nat
  BY <1>4, ReadType DEF KeyEnd, ValueEnd
<1>6. KeyStart(d, n) + 16 <= KeyEnd(d, n) /\ KeyEnd(d, n) <= d.len
  BY DEF Answers, IsRow
<1>7. ValueStart(d, n) + 40 <= ValueEnd(d, n) /\ ValueEnd(d, n) <= d.len
  BY DEF Answers, IsRow
<1> QED  BY <1>1, <1>4, <1>5, <1>6, <1>7

\* Every set of naturals that is not empty has a least member.
LEMMA LeastExists ==
    ASSUME NEW S \in SUBSET Nat, S # {}
    PROVE  \E x \in S : \A y \in S : x <= y
<1> DEFINE Less == {ss \in Nat \X Nat : ss[1] < ss[2]}
<1>1. IsWellFoundedOn(Less, Nat)
  BY NatLessThanWellFounded DEF OpToRel
<1> HIDE DEF Less
<1>2. PICK x \in S : \A y \in S : ~ (<<y, x>> \in Less)
  BY <1>1, WFMin
<1>3. \A y \in S : ~ (y < x)
  BY <1>2 DEF Less
<1> QED  BY <1>3

\* The first of the entries that match is one of them (directory.rs:493).
LEMMA MinIsMember ==
    ASSUME NEW S \in SUBSET Nat, S # {}
    PROVE  Min(S) \in S
  BY LeastExists DEF Min

-----------------------------------------------------------------------------
(***************************************************************************)
(* The inductive invariant.  RootIsRegistered needs to know what the rows  *)
(* already passed were, and that the table being read was there at all.    *)
(***************************************************************************)
TableOpen == step \in {"lookup", "walk"} => TableReadable

RowsPassed ==
    step = "lookup" => \A q \in 0 .. row - 1 : ~Answers(image.table, q, dir)

LookupInv == TypeOK /\ TableOpen /\ RowsPassed /\ RootIsRegistered

\* What is read of an open table is a slice (directory.rs:252-268).
LEMMA OpenIsSlice ==
    ASSUME TypeOK, TableOpen, step \in {"lookup", "walk"}
    PROVE  IsSlice(image.table)
  BY DEF TypeOK, TableOpen, TableReadable, IsImage

\* The invariant holds before the first step (directory.rs:485-490).
LEMMA InitHolds == Init => LookupInv
<1> SUFFICES ASSUME Init PROVE LookupInv
  OBVIOUS
<1>1. TypeOK
  BY LookupAssumption DEF Init, TypeOK, MaxRecords, Pending, Listed, Answer
<1>2. TableOpen /\ RowsPassed /\ RootIsRegistered
  BY DEF Init, TableOpen, RowsPassed, RootIsRegistered, Running
<1> QED  BY <1>1, <1>2 DEF LookupInv

\* No step leaves it (directory.rs:491-501, minstore.rs:243-260).
LEMMA StepHolds == LookupInv /\ [Next]_vars => LookupInv'
<1> SUFFICES ASSUME LookupInv, [Next]_vars PROVE LookupInv'
  OBVIOUS
<1> USE DEF LookupInv
<1>1. CASE UNCHANGED vars
  BY <1>1 DEF vars, TypeOK, TableOpen, TableReadable, RowsPassed, RootIsRegistered,
              Running, RowsFor
<1>2. ASSUME NEW a \in Answer, a # Pending, Return(a)
      PROVE  LookupInv'
  <2>1. TypeOK'
    BY <1>2 DEF Return, TypeOK
  <2>2. TableOpen' /\ RowsPassed'
    BY <1>2 DEF Return, TableOpen, TableReadable, RowsPassed
  <2>3. RootIsRegistered'
    BY <1>2 DEF Return, RootIsRegistered, Running
  <2> QED  BY <2>1, <2>2, <2>3
<1>3. None \in Answer /\ None # Pending
  BY DEF None, Pending, Answer
<1>4. CASE EmptyPath
  BY <1>2, <1>3, <1>4 DEF EmptyPath
<1>5. ASSUME NEW result \in Listed, ListDir(result),
             result.status = "not_found" => RowsFor(image, dir) = {}
      PROVE  LookupInv'
  <2>1. TypeOK'
    BY <1>5 DEF ListDir, TypeOK
  <2>2. TableOpen' /\ RowsPassed'
    BY <1>5 DEF ListDir, TableOpen, RowsPassed
  <2>3. RootIsRegistered'
    BY <1>5 DEF ListDir, RootIsRegistered, Running, RowsFor
  <2> QED  BY <2>1, <2>2, <2>3
<1>6. CASE NoObjectTable
  <2>1. Err("truncated") \in Listed /\ Err("truncated").status # "not_found"
    BY DEF Err, Listed, Walked
  <2> QED  BY <1>5, <1>6, <2>1 DEF NoObjectTable
<1>7. CASE OpenTable
  <2>1. TypeOK'
    BY <1>7 DEF OpenTable, TypeOK, MaxRecords
  <2>2. TableOpen' /\ RowsPassed'
    BY <1>7 DEF OpenTable, TableOpen, TableReadable, RowsPassed
  <2>3. RootIsRegistered'
    BY <1>7 DEF OpenTable, RootIsRegistered, Running
  <2> QED  BY <2>1, <2>2, <2>3
<1>8. CASE NextRow
  <2>1. IsSlice(image.table)
    BY <1>8, OpenIsSlice DEF NextRow, InRows, Running
  <2>2. row' \in 0 .. MaxRecords
    <3>1. row \in Nat /\ MaxRecords \in Nat
      BY DEF TypeOK, MaxRecords
    <3>2. row < RecordCount(image.table)
      BY <1>8 DEF NextRow, InRows
    <3> HIDE DEF LookupInv
    <3> QED  BY <1>8, <2>1, <3>1, <3>2, CountType DEF NextRow
  <2>3. TypeOK'
    BY <1>8, <2>2 DEF NextRow, TypeOK
  <2>4. TableOpen'
    BY <1>8 DEF NextRow, InRows, Running, TableOpen, TableReadable
  <2>5. RowsPassed'
    <3>1. step = "lookup" /\ row \in Nat
      BY <1>8 DEF NextRow, InRows, Running, TypeOK
    <3>2. \A q \in 0 .. row : q \in 0 .. row - 1 \/ q = row
      BY <3>1
    <3> QED  BY <1>8, <3>1, <3>2 DEF NextRow, RowsPassed
  <2>6. RootIsRegistered'
    BY <1>8 DEF NextRow, InRows, RootIsRegistered, Running
  <2> QED  BY <2>3, <2>4, <2>5, <2>6
<1>9. CASE FoundRoot
  <2>1. IsSlice(image.table)
    BY <1>9, OpenIsSlice DEF FoundRoot, InRows, Running
  <2>2. RootBlock(image.table, row) \in Nat
    BY <2>1, ReadType DEF RootBlock
  <2>3. TypeOK'
    BY <1>9, <2>2 DEF FoundRoot, TypeOK
  <2>4. TableOpen' /\ RowsPassed'
    BY <1>9 DEF FoundRoot, InRows, Running, TableOpen, TableReadable, RowsPassed
  <2>5. row \in RowsFor(image, dir)
    <3>1. row \in Nat /\ RecordCount(image.table) \in Nat
      BY <2>1, CountType DEF TypeOK
    <3> QED  BY <1>9, <3>1 DEF FoundRoot, InRows, RowsFor
  <2>6. \A q \in RowsFor(image, dir) : row <= q
    <3>1. row \in Nat /\ RecordCount(image.table) \in Nat
      BY <2>1, CountType DEF TypeOK
    <3>2. \A q \in Nat : ~(row <= q) => q \in 0 .. row - 1
      BY <3>1
    <3>3. RowsFor(image, dir) \subseteq Nat
      BY <3>1 DEF RowsFor
    <3> QED  BY <1>9, <3>2, <3>3 DEF FoundRoot, InRows, Running, RowsPassed, RowsFor
  <2>7. RootIsRegistered'
    BY <1>9, <2>5, <2>6 DEF FoundRoot, RootIsRegistered, Running, RowsFor
  <2> QED  BY <2>3, <2>4, <2>7
<1>10. CASE NotFound
  <2>1. IsSlice(image.table)
    BY <1>10, OpenIsSlice DEF NotFound, Running
  <2>2. RowsFor(image, dir) = {}
    <3>1. row \in Nat /\ RecordCount(image.table) \in Nat
      BY <2>1, CountType DEF TypeOK
    <3>2. \A q \in 0 .. RecordCount(image.table) - 1 : q \in 0 .. row - 1
      BY <1>10, <3>1 DEF NotFound
    <3> QED  BY <1>10, <3>2 DEF NotFound, Running, RowsPassed, RowsFor
  <2>3. Err("not_found") \in Listed
    BY DEF Err, Listed
  <2> QED  BY <1>5, <1>10, <2>2, <2>3 DEF NotFound
<1>11. CASE WalkRoot
  <2>1. Err("unresolved") \in Walked
    BY DEF Err, Walked
  <2>2. PICK result \in Walked : ListDir(result)
    BY <1>11, <2>1 DEF WalkRoot, TypeOK, IsImage
  <2>3. result \in Listed /\ result.status # "not_found"
    BY DEF Walked, Listed
  <2> QED  BY <1>5, <2>2, <2>3
<1>12. CASE Unlisted
  BY <1>2, <1>3, <1>12 DEF Unlisted
<1>13. CASE Missing
  BY <1>2, <1>3, <1>13 DEF Missing
<1>14. ASSUME Matched PROVE First \in Entry
  <2>1. listed.entries \in Seq(Entry)
    BY <1>14 DEF Matched, TypeOK, Listed, Walked
  <2>2. Matching \in SUBSET Nat /\ Matching # {} /\ Matching \subseteq DOMAIN listed.entries
    BY <1>14, <2>1 DEF Matched, Matching
  <2>3. Min(Matching) \in DOMAIN listed.entries
    BY <2>2, MinIsMember
  <2> QED  BY <2>1, <2>3 DEF First
<1>15. CASE ReturnLast
  <2>1. Some(dir, First) \in Answer /\ Some(dir, First) # Pending
    BY <1>14, <1>15 DEF ReturnLast, Some, Pending, Answer, TypeOK
  <2> QED  BY <1>2, <1>3, <1>15, <2>1 DEF ReturnLast
<1>16. CASE NotADirectory
  BY <1>2, <1>3, <1>16 DEF NotADirectory
<1>17. CASE Descend
  <2>1. First.id \in Nat
    BY <1>14, <1>17 DEF Descend, Entry
  <2>2. i' \in DOMAIN path
    BY <1>17, LookupAssumption DEF Descend, Matched, Running, IsLast, TypeOK
  <2>3. TypeOK'
    BY <1>17, <2>1, <2>2 DEF Descend, TypeOK
  <2>4. TableOpen' /\ RowsPassed'
    BY <1>17 DEF Descend, TableOpen, RowsPassed
  <2>5. RootIsRegistered'
    BY <1>17 DEF Descend, RootIsRegistered, Running
  <2> QED  BY <2>3, <2>4, <2>5
<1> QED
  BY <1>1, <1>4, <1>6, <1>7, <1>8, <1>9, <1>10, <1>11, <1>12, <1>13, <1>15, <1>16, <1>17
  DEF Next

\* The invariant holds throughout (directory.rs:484-502).
LEMMA LookupInvariant == Spec => []LookupInv
  BY InitHolds, StepHolds, PTL DEF Spec

(***************************************************************************)
(* The lookup keeps its types on every image and path; in particular the   *)
(* row count stays under MAX_RECORDS (minstore.rs:136).                    *)
(***************************************************************************)
THEOREM LookupTypeCorrect == Spec => []TypeOK
<1>1. LookupInv => TypeOK
  BY DEF LookupInv
<1> QED  BY <1>1, LookupInvariant, PTL

(***************************************************************************)
(* Whatever the header of the object table says, every slot the lookup     *)
(* tries and every field it answers with lies in the slice                 *)
(* (minstore.rs:33-39, 132-136 and 174-198).                               *)
(***************************************************************************)
THEOREM LookupStaysInside == Spec => []LookupReadsInside
<1>1. LookupInv => LookupReadsInside
  <2> SUFFICES ASSUME LookupInv, InRows PROVE
        /\ Slot(image.table, row) + 4 <= image.table.len
        /\ Answers(image.table, row, dir) =>
              /\ KeyStart(image.table, row) + 16 <= image.table.len
              /\ ValueStart(image.table, row) + 40 <= image.table.len
    BY DEF LookupReadsInside
  <2>1. IsSlice(image.table)
    BY OpenIsSlice DEF LookupInv, InRows, Running
  <2>2. row \in Nat /\ row < RecordCount(image.table)
    BY DEF LookupInv, TypeOK, InRows
  <2> QED  BY <2>1, <2>2, SlotInside, AnswerInside
<1> QED  BY <1>1, LookupInvariant, PTL

(***************************************************************************)
(* The tree walked is the one the first complete row of the identifier     *)
(* names, and "not found" means there is no such row, at every component   *)
(* of every path (minstore.rs:240-260, directory.rs:444-453).              *)
(***************************************************************************)
THEOREM LookupFindsFirstRow == Spec => []RootIsRegistered
<1>1. LookupInv => RootIsRegistered
  BY DEF LookupInv
<1> QED  BY <1>1, LookupInvariant, PTL

-----------------------------------------------------------------------------
(***************************************************************************)
(* What a path means.  The directories one more component leads to; Leads  *)
(* is the function that starts at the root and takes this step for each    *)
(* component.  That there is one follows by least counterexample.          *)
(***************************************************************************)
Onward(img, name, dirs) ==
    {e.id : e \in {f \in UNION {Named(img, id, name) : id \in dirs} : f.kind = "directory"}}

LeadBody(img, components, after, k) ==
    IF k = 0 THEN {RootId} ELSE Onward(img, components[k], after[k - 1])

LEMMA LeadsExists ==
    ASSUME NEW img, NEW components, NEW n \in Nat
    PROVE  \E f : f = [k \in 0 .. n |-> LeadBody(img, components, f, k)]
<1> DEFINE Solves(f, m) ==
             /\ f = [k \in 0 .. n |-> f[k]]
             /\ \A k \in 0 .. m : f[k] = LeadBody(img, components, f, k)
           Open == {m \in 0 .. n : \A f : ~ Solves(f, m)}
<1>1. Open = {}
  <2>1. SUFFICES ASSUME Open # {} PROVE FALSE
    OBVIOUS
  <2>2. PICK m \in Open : \A y \in Open : m <= y
    <3>1. Open \in SUBSET Nat
      OBVIOUS
    <3> HIDE DEF Open
    <3> QED BY <2>1, <3>1, LeastExists
  <2>3. m # 0
    <3> DEFINE f == [k \in 0 .. n |-> {RootId}]
    <3>1. Solves(f, 0)
      BY DEF LeadBody
    <3> HIDE DEF Solves
    <3> QED BY <3>1
  <2>4. m - 1 \in 0 .. n /\ m - 1 \notin Open
    BY <2>2, <2>3
  <2>5. PICK f : Solves(f, m - 1)
    <3> HIDE DEF Solves
    <3> QED BY <2>4
  <2> DEFINE g == [k \in 0 .. n |-> IF k = m THEN LeadBody(img, components, f, m) ELSE f[k]]
  <2>6. \A k \in 0 .. m : g[k] = LeadBody(img, components, g, k)
    <3> SUFFICES ASSUME NEW k \in 0 .. m PROVE g[k] = LeadBody(img, components, g, k)
      OBVIOUS
    <3>1. g[k] = LeadBody(img, components, f, k)
      BY <2>5
    <3>2. k # 0 => g[k - 1] = f[k - 1]
      OBVIOUS
    <3> HIDE DEF g
    <3>3. LeadBody(img, components, g, k) = LeadBody(img, components, f, k)
      BY <3>2 DEF LeadBody
    <3> QED BY <3>1, <3>3
  <2>7. Solves(g, m)
    BY <2>6
  <2> HIDE DEF Solves
  <2> QED BY <2>2, <2>7
<1>2. PICK f : Solves(f, n)
  <2> HIDE DEF Solves
  <2> QED BY <1>1
<1>3. f = [k \in 0 .. n |-> LeadBody(img, components, f, k)]
  BY <1>2
<1> QED BY <1>3

LEMMA LeadsSteps ==
    ASSUME NEW img, NEW components, Len(components) \in Nat
    PROVE  /\ Leads(img, components)[0] = {RootId}
           /\ \A k \in 1 .. Len(components) :
                 Leads(img, components)[k]
                   = Onward(img, components[k], Leads(img, components)[k - 1])
<1> DEFINE f == Leads(img, components)
<1>a. f = CHOOSE g : g = [k \in 0 .. Len(components) |-> LeadBody(img, components, g, k)]
  BY DEF Leads, LeadBody, Onward
<1>b. \E g : g = [k \in 0 .. Len(components) |-> LeadBody(img, components, g, k)]
  BY LeadsExists
<1> HIDE DEF f
<1>1. f = [k \in 0 .. Len(components) |-> LeadBody(img, components, f, k)]
  BY <1>a, <1>b
<1> HIDE DEF f
<1>2. \A k \in 0 .. Len(components) : f[k] = LeadBody(img, components, f, k)
  BY <1>1
<1> QED BY <1>2 DEF LeadBody, f

\* Once a path leads nowhere, the rest of it does.
LEMMA NowhereLeadsNowhere ==
    ASSUME NEW img, NEW components, Len(components) \in Nat,
           NEW k \in 0 .. Len(components), Leads(img, components)[k] = {},
           NEW m \in k .. Len(components)
    PROVE  Leads(img, components)[m] = {}
<1> DEFINE f == Leads(img, components)
           Bad == {q \in k .. Len(components) : f[q] # {}}
<1>1. \A q \in 1 .. Len(components) : f[q] = Onward(img, components[q], f[q - 1])
  BY LeadsSteps
<1>2. f[k] = {}
  OBVIOUS
<1> HIDE DEF f
<1>3. Bad = {}
  <2>1. SUFFICES ASSUME Bad # {} PROVE FALSE
    OBVIOUS
  <2>2. PICK q \in Bad : \A y \in Bad : q <= y
    <3>1. Bad \in SUBSET Nat
      OBVIOUS
    <3> HIDE DEF Bad
    <3> QED BY <2>1, <3>1, LeastExists
  <2>3. q # k
    BY <1>2, <2>2
  <2>4. q - 1 \in k .. Len(components) /\ q - 1 \notin Bad /\ q \in 1 .. Len(components)
    BY <2>2, <2>3
  <2>5. f[q - 1] = {}
    BY <2>4
  <2>6. f[q] = {}
    BY <1>1, <2>4, <2>5 DEF Onward
  <2> QED BY <2>2, <2>6
<1> QED BY <1>3 DEF f

(***************************************************************************)
(* The entry a directory gives for a name: the first one of that name.     *)
(***************************************************************************)
LEMMA MinIs ==
    ASSUME NEW S \in SUBSET Nat, NEW x \in S, \A y \in S : x <= y
    PROVE  Min(S) = x
<1>1. \A a, b \in Nat : a <= b /\ b <= a => a = b
  OBVIOUS
<1> QED BY <1>1 DEF Min

LEMMA NamedIs ==
    ASSUME NEW img, NEW id, NEW name, NEW list \in Seq(Entry),
           EntriesOf(img, id) = list,
           NEW M, M = {n \in DOMAIN list : list[n].name = name}
    PROVE  /\ M = {} => Named(img, id, name) = {}
           /\ M # {} => Named(img, id, name) = {list[Min(M)]}
<1>1. DOMAIN list = 1 .. Len(list) /\ Len(list) \in Nat
  OBVIOUS
<1>2. Named(img, id, name) =
        {e \in {list[n] : n \in DOMAIN list} :
           /\ e.name = name
           /\ \E n \in DOMAIN list :
                 list[n] = e /\ \A m \in 1 .. n - 1 : list[m].name # name}
  BY DEF Named
<1>3. CASE M = {}
  BY <1>2, <1>3
<1>4. CASE M # {}
  <2>1. M \in SUBSET Nat
    BY <1>1
  <2>2. PICK k \in M : \A y \in M : k <= y
    <3>1. \E x \in M : \A y \in M : x <= y
      BY <1>4, <2>1, LeastExists
    <3> QED BY <3>1
  <2>3. Min(M) = k
    BY <2>1, <2>2, MinIs
  <2>4. k \in DOMAIN list /\ list[k].name = name
    BY <2>2
  <2>5. \A m \in 1 .. k - 1 : list[m].name # name
    <3> SUFFICES ASSUME NEW m \in 1 .. k - 1, list[m].name = name PROVE FALSE
      OBVIOUS
    <3>1. m \in DOMAIN list /\ ~ (k <= m)
      BY <1>1, <2>4
    <3> QED BY <2>2, <3>1
  <2>6. \A n \in DOMAIN list :
          list[n].name = name /\ (\A m \in 1 .. n - 1 : list[m].name # name) => n = k
    <3> SUFFICES ASSUME NEW n \in DOMAIN list, list[n].name = name,
                        \A m \in 1 .. n - 1 : list[m].name # name
                 PROVE  n = k
      OBVIOUS
    <3>1. k <= n
      BY <2>2
    <3>2. ~ (k \in 1 .. n - 1)
      BY <2>4
    <3> QED BY <1>1, <2>4, <3>1, <3>2
  <2>7. list[k] \in Named(img, id, name)
    BY <1>2, <2>4, <2>5
  <2>8. \A e \in Named(img, id, name) : e = list[k]
    BY <1>2, <2>6
  <2> QED BY <1>4, <2>3, <2>7, <2>8
<1> QED BY <1>3, <1>4

-----------------------------------------------------------------------------
(***************************************************************************)
(* The lookup follows the path's meaning: the directory it is in is the    *)
(* one the components so far lead to, and what list_dir gave it is what    *)
(* that directory lists.                                                   *)
(***************************************************************************)
InItsDirectory == path # << >> => Leads(image, path)[i - 1] = {dir}

ListedIsListing ==
    Running("match") =>
        EntriesOf(image, dir) = IF listed.status = "ok" THEN listed.entries ELSE << >>

PathInv == LookupInv /\ InItsDirectory /\ ListedIsListing /\ AnswerIsPathMeaning

\* The answers a path allows.
Ends(img, p) ==
    IF Len(p) = 0 THEN {}
    ELSE {Some(id, e) : id \in Leads(img, p)[Len(p) - 1],
                        e \in UNION {Named(img, id, p[Len(p)]) :
                                       id \in Leads(img, p)[Len(p) - 1]}}

LEMMA PathType ==
    ASSUME TypeOK
    PROVE  /\ Len(path) \in Nat /\ DOMAIN path = 1 .. Len(path)
           /\ path # << >> => i \in 1 .. Len(path)
           /\ path = << >> <=> Len(path) = 0
  BY LookupAssumption DEF TypeOK

(***************************************************************************)
(* The object table and the walk under it give list_dir what the path's    *)
(* meaning gives the directory (directory.rs:444-453).                     *)
(***************************************************************************)
LEMMA RootLists ==
    ASSUME LookupInv, Running("walk")
    PROVE  EntriesOf(image, dir) =
             IF root \in DOMAIN image.listing /\ image.listing[root].status = "ok"
             THEN image.listing[root].entries ELSE << >>
<1>1. image.table # NoTable /\ Parses(image.table) /\ IsSlice(image.table)
  BY OpenIsSlice DEF LookupInv, TableOpen, TableReadable, Running
<1>2. RowsFor(image, dir) \in SUBSET Nat
  BY <1>1, CountType DEF RowsFor
<1>3. PICK r \in RowsFor(image, dir) :
        root = RootBlock(image.table, r) /\ \A q \in RowsFor(image, dir) : r <= q
  BY DEF LookupInv, RootIsRegistered
<1>4. Min(RowsFor(image, dir)) = r
  BY <1>2, <1>3, MinIs
<1> QED BY <1>1, <1>3, <1>4 DEF EntriesOf

(***************************************************************************)
(* The first entry of a name is the only one the path's meaning knows.     *)
(***************************************************************************)
LEMMA MatchIsNamed ==
    ASSUME LookupInv, ListedIsListing, Running("match")
    PROVE  /\ listed.status # "ok" => Named(image, dir, path[i]) = {}
           /\ listed.status = "ok" /\ Matching = {} => Named(image, dir, path[i]) = {}
           /\ Matched => Named(image, dir, path[i]) = {First}
<1>1. CASE listed.status # "ok"
  <2>1. EntriesOf(image, dir) = << >>
    BY <1>1 DEF ListedIsListing
  <2>2. Named(image, dir, path[i]) = {}
    BY <2>1 DEF Named
  <2> QED BY <1>1, <2>2 DEF Matched
<1>2. CASE listed.status = "ok"
  <2>1. EntriesOf(image, dir) = listed.entries
    BY <1>2 DEF ListedIsListing
  <2>2. listed.entries \in Seq(Entry)
    BY <1>2 DEF LookupInv, TypeOK, Listed, Walked
  <2>3. Matching = {n \in DOMAIN listed.entries : listed.entries[n].name = path[i]}
    BY DEF Matching
  <2>4. /\ Matching = {} => Named(image, dir, path[i]) = {}
        /\ Matching # {} => Named(image, dir, path[i]) = {listed.entries[Min(Matching)]}
    <3>1. \A list \in Seq(Entry) : EntriesOf(image, dir) = list =>
            \A M : M = {n \in DOMAIN list : list[n].name = path[i]} =>
              /\ M = {} => Named(image, dir, path[i]) = {}
              /\ M # {} => Named(image, dir, path[i]) = {list[Min(M)]}
      BY NamedIs
    <3> QED BY <2>1, <2>2, <2>3, <3>1
  <2> QED BY <1>2, <2>4 DEF Matched, First
<1> QED BY <1>1, <1>2

\* A component that names no directory makes the rest of the path nothing.
LEMMA LostMeansNone ==
    ASSUME LookupInv, InItsDirectory, path # << >>, i # Len(path),
           \A e \in Named(image, dir, path[i]) : e.kind # "directory"
    PROVE  Ends(image, path) = {}
<1>1. /\ Len(path) \in Nat /\ i \in 1 .. Len(path)
      /\ Leads(image, path)[i - 1] = {dir}
  BY PathType DEF LookupInv, InItsDirectory
<1>2. Leads(image, path)[i] = Onward(image, path[i], {dir})
  <2>1. Len(path) \in Nat /\ i \in 1 .. Len(path)
    BY <1>1
  <2>2. Leads(image, path)[i] = Onward(image, path[i], Leads(image, path)[i - 1])
    BY <2>1, LeadsSteps
  <2> QED BY <1>1, <2>2
<1>3. Onward(image, path[i], {dir}) = {}
  BY DEF Onward
<1>4. Len(path) - 1 \in i .. Len(path) /\ i \in 0 .. Len(path)
  BY <1>1
<1>5. Leads(image, path)[Len(path) - 1] = {}
  BY <1>1, <1>2, <1>3, <1>4, NowhereLeadsNowhere
<1> QED BY <1>5 DEF Ends

\* At the last component, the answers are what it names in this directory.
LEMMA LastMeans ==
    ASSUME LookupInv, InItsDirectory, path # << >>, i = Len(path)
    PROVE  Ends(image, path) = {Some(dir, e) : e \in Named(image, dir, path[i])}
<1>1. /\ Len(path) \in Nat /\ i \in 1 .. Len(path)
      /\ Leads(image, path)[Len(path) - 1] = {dir}
  BY PathType DEF LookupInv, InItsDirectory
<1>2. Len(path) # 0
  BY <1>1
<1> QED BY <1>1, <1>2 DEF Ends

LEMMA PathInvInit == Init => PathInv
<1> SUFFICES ASSUME Init PROVE PathInv
  OBVIOUS
<1>1. LookupInv
  BY InitHolds
<1>2. InItsDirectory
  <2>1. Len(path) \in Nat /\ i - 1 = 0 /\ dir = RootId
    BY <1>1, PathType DEF Init, LookupInv
  <2> QED BY <2>1, LeadsSteps DEF InItsDirectory
<1>3. ListedIsListing /\ AnswerIsPathMeaning
  BY DEF Init, ListedIsListing, Running, AnswerIsPathMeaning
<1> QED BY <1>1, <1>2, <1>3 DEF PathInv

LEMMA PathInvStep == PathInv /\ [Next]_vars => PathInv'
<1> SUFFICES ASSUME PathInv, [Next]_vars PROVE PathInv'
  OBVIOUS
<1>1. LookupInv /\ InItsDirectory /\ ListedIsListing /\ AnswerIsPathMeaning /\ LookupInv'
  BY StepHolds DEF PathInv
<1>2. /\ Len(path) \in Nat
      /\ path # << >> => i \in 1 .. Len(path)
      /\ path = << >> <=> Len(path) = 0
  BY <1>1, PathType DEF LookupInv
<1>3. CASE UNCHANGED vars
  <2>1. InItsDirectory'
    BY <1>1, <1>3 DEF vars, InItsDirectory
  <2>2. ListedIsListing'
    BY <1>1, <1>3 DEF vars, ListedIsListing, Running
  <2>3. AnswerIsPathMeaning'
    BY <1>1, <1>3 DEF vars, AnswerIsPathMeaning
  <2> QED BY <1>1, <2>1, <2>2, <2>3 DEF PathInv
<1>4. ASSUME NEW a, a # Pending, Return(a),
             LET real == {e \in Ends(image, path) : e.entry.kind # "other"}
             IN  IF real = {} THEN a = None ELSE a \in real
      PROVE  PathInv'
  <2>1. InItsDirectory'
    BY <1>1, <1>4 DEF Return, InItsDirectory
  <2>2. ListedIsListing'
    BY <1>4 DEF Return, ListedIsListing, Running
  <2>3. AnswerIsPathMeaning'
    <3>1. answer' = a /\ image' = image /\ path' = path
      BY <1>4 DEF Return
    <3>2. LET real == {e \in Ends(image', path') : e.entry.kind # "other"}
          IN  IF real = {} THEN answer' = None ELSE answer' \in real
      BY <1>4, <3>1
    <3> QED BY <3>2 DEF AnswerIsPathMeaning, Ends
  <2> QED BY <1>1, <2>1, <2>2, <2>3 DEF PathInv
<1>5. ASSUME NEW result, ListDir(result), answer = Pending,
             EntriesOf(image, dir) = IF result.status = "ok" THEN result.entries ELSE << >>
      PROVE  PathInv'
  <2>1. InItsDirectory'
    BY <1>1, <1>5 DEF ListDir, InItsDirectory
  <2>2. ListedIsListing'
    BY <1>5 DEF ListDir, ListedIsListing
  <2>3. AnswerIsPathMeaning'
    BY <1>5 DEF ListDir, AnswerIsPathMeaning
  <2> QED BY <1>1, <2>1, <2>2, <2>3 DEF PathInv
<1>6. ASSUME answer' = Pending, step' # "match", UNCHANGED <<image, path, i, dir>>
      PROVE  PathInv'
  <2>1. InItsDirectory'
    BY <1>1, <1>6 DEF InItsDirectory
  <2>2. ListedIsListing' /\ AnswerIsPathMeaning'
    BY <1>6 DEF ListedIsListing, Running, AnswerIsPathMeaning
  <2> QED BY <1>1, <2>1, <2>2 DEF PathInv
<1>7. None # Pending
  BY DEF None, Pending
<1>8. CASE EmptyPath
  <2>1. Ends(image, path) = {}
    BY <1>2, <1>8 DEF EmptyPath, Ends
  <2> QED BY <1>4, <1>7, <1>8, <2>1 DEF EmptyPath
<1>9. CASE NoObjectTable
  <2>1. EntriesOf(image, dir) = << >>
    BY <1>9 DEF NoObjectTable, TableReadable, EntriesOf
  <2>2. Err("truncated").status # "ok"
    BY DEF Err
  <2> QED BY <1>5, <1>9, <2>1, <2>2 DEF NoObjectTable, Running
<1>10. CASE OpenTable
  BY <1>6, <1>10 DEF OpenTable, Running
<1>11. CASE NextRow
  BY <1>6, <1>11 DEF NextRow, InRows, Running
<1>12. CASE FoundRoot
  BY <1>6, <1>12 DEF FoundRoot, InRows, Running
<1>13. CASE NotFound
  <2>1. RowsFor(image, dir) = {}
    <3>1. Running("match")' /\ listed'.status = "not_found" /\ UNCHANGED <<image, dir>>
      BY <1>13 DEF NotFound, ListDir, Running, Err
    <3>2. RowsFor(image, dir)' = {}
      BY <1>1, <3>1 DEF LookupInv, RootIsRegistered
    <3> QED BY <3>1, <3>2 DEF RowsFor
  <2>2. EntriesOf(image, dir) = << >>
    BY <2>1 DEF EntriesOf
  <2>3. Err("not_found").status # "ok"
    BY DEF Err
  <2> QED BY <1>5, <1>13, <2>2, <2>3 DEF NotFound, Running
<1>14. CASE WalkRoot
  <2>1. EntriesOf(image, dir) =
          IF root \in DOMAIN image.listing /\ image.listing[root].status = "ok"
          THEN image.listing[root].entries ELSE << >>
    BY <1>1, <1>14, RootLists DEF WalkRoot
  <2>2. CASE root \in DOMAIN image.listing
    <3>1. ListDir(image.listing[root]) /\ answer = Pending
      BY <1>14, <2>2 DEF WalkRoot, Running
    <3> QED BY <1>5, <2>1, <2>2, <3>1
  <2>3. CASE root \notin DOMAIN image.listing
    <3>1. ListDir(Err("unresolved")) /\ answer = Pending
      BY <1>14, <2>3 DEF WalkRoot, Running
    <3>2. Err("unresolved").status # "ok"
      BY DEF Err
    <3> QED BY <1>5, <2>1, <2>3, <3>1, <3>2
  <2> QED BY <2>2, <2>3
<1>15. ASSUME Running("match"), Return(None),
              \A e \in Named(image, dir, path[i]) : e.kind = "other" \/ i # Len(path),
              \A e \in Named(image, dir, path[i]) : e.kind # "directory" \/ i = Len(path)
       PROVE  PathInv'
  <2>0. path # << >>
    BY <1>15 DEF Running
  <2>1. \A a \in Ends(image, path) : a.entry.kind = "other"
    <3>1. CASE i # Len(path)
      <4>1. \A e \in Named(image, dir, path[i]) : e.kind # "directory"
        BY <1>15, <3>1
      <4>2. Ends(image, path) = {}
        BY <1>1, <2>0, <3>1, <4>1, LostMeansNone
      <4> QED BY <4>2
    <3>2. CASE i = Len(path)
      <4>1. Ends(image, path) = {Some(dir, e) : e \in Named(image, dir, path[i])}
        BY <1>1, <2>0, <3>2, LastMeans
      <4>2. \A e : Some(dir, e).entry = e
        BY DEF Some
      <4> QED BY <1>15, <3>2, <4>1, <4>2
    <3> QED BY <3>1, <3>2
  <2>2. {a \in Ends(image, path) : a.entry.kind # "other"} = {}
    BY <2>1
  <2> QED BY <1>4, <1>7, <1>15, <2>2
<1>16. CASE Unlisted
  <2>1. Named(image, dir, path[i]) = {}
    BY <1>1, <1>16, MatchIsNamed DEF Unlisted
  <2> QED BY <1>15, <1>16, <2>1 DEF Unlisted
<1>17. CASE Missing
  <2>1. Named(image, dir, path[i]) = {}
    BY <1>1, <1>17, MatchIsNamed DEF Missing
  <2> QED BY <1>15, <1>17, <2>1 DEF Missing
<1>18. ASSUME Matched PROVE Named(image, dir, path[i]) = {First}
  BY <1>1, <1>18, MatchIsNamed DEF Matched
<1>19. CASE ReturnLast
  <2>1. Matched /\ Running("match") /\ i = Len(path) /\ path # << >>
    BY <1>19 DEF ReturnLast, Matched, IsLast, Running
  <2>2. CASE First.kind = "other"
    <3>1. Return(None)
      BY <1>19, <2>2 DEF ReturnLast
    <3> QED BY <1>15, <1>18, <2>1, <2>2, <3>1
  <2>3. CASE First.kind # "other"
    <3>1. Return(Some(dir, First))
      BY <1>19, <2>3 DEF ReturnLast
    <3>2. Some(dir, First).entry = First /\ Some(dir, First) # Pending
      BY DEF Some, Pending
    <3>3. Ends(image, path) = {Some(dir, First)}
      BY <1>1, <1>18, <2>1, LastMeans
    <3>4. {a \in Ends(image, path) : a.entry.kind # "other"} = {Some(dir, First)}
      BY <2>3, <3>2, <3>3
    <3> QED BY <1>4, <3>1, <3>2, <3>4
  <2> QED BY <2>2, <2>3
<1>20. CASE NotADirectory
  <2>1. Matched /\ Running("match") /\ i # Len(path) /\ Return(None)
        /\ First.kind # "directory"
    BY <1>20 DEF NotADirectory, Matched, IsLast
  <2> QED BY <1>15, <1>18, <2>1
<1>21. CASE Descend
  <2>1. Matched /\ answer = Pending /\ path # << >> /\ i # Len(path)
        /\ First.kind = "directory"
    BY <1>21 DEF Descend, Matched, IsLast, Running
  <2>2. dir' = First.id /\ i' = i + 1 /\ step' = "table" /\ UNCHANGED <<image, path, answer>>
    BY <1>21 DEF Descend
  <2>3. InItsDirectory'
    <3>1. i \in 1 .. Len(path) /\ i' - 1 = i
      BY <1>2, <2>1, <2>2
    <3>2. Leads(image, path)[i] = Onward(image, path[i], {dir})
      <4>1. Leads(image, path)[i] = Onward(image, path[i], Leads(image, path)[i - 1])
        BY <1>2, <3>1, LeadsSteps
      <4>2. Leads(image, path)[i - 1] = {dir}
        BY <1>1, <2>1 DEF InItsDirectory
      <4> QED BY <4>1, <4>2
    <3>3. Onward(image, path[i], {dir}) = {First.id}
      BY <1>18, <2>1 DEF Onward
    <3> QED BY <2>2, <3>1, <3>2, <3>3 DEF InItsDirectory
  <2>4. ListedIsListing' /\ AnswerIsPathMeaning'
    BY <2>1, <2>2 DEF ListedIsListing, Running, AnswerIsPathMeaning
  <2> QED BY <1>1, <2>3, <2>4 DEF PathInv
<1> QED
  BY <1>3, <1>8, <1>9, <1>10, <1>11, <1>12, <1>13, <1>14, <1>16, <1>17, <1>19, <1>20, <1>21
  DEF Next

(***************************************************************************)
(* find_by_path answers what the path means on every image: the entry and  *)
(* the directory that holds it, or None exactly when there is none         *)
(* (directory.rs:474-503).                                                 *)
(***************************************************************************)
THEOREM LookupAnswersTheMeaning == Spec => []AnswerIsPathMeaning
<1>1. PathInv => AnswerIsPathMeaning
  BY DEF PathInv
<1> QED BY <1>1, PathInvInit, PathInvStep, PTL DEF Spec
=============================================================================
