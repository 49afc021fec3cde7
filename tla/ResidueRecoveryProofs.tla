------------------------ MODULE ResidueRecoveryProofs ------------------------
(***************************************************************************)
(* Theorems about what recover_residue makes of an allocate-on-write       *)
(* volume, after any history of updates, torn ones included, and for any   *)
(* number of clusters, names and leaves.                                   *)
(***************************************************************************)
EXTENDS ResidueRecovery, FiniteSetTheorems, TLAPS

\* A page of the root directory at a cluster.
IsRoot(c) == c \in Cluster /\ image[c] # NoPage /\ image[c].table = RootTable

Self(c)  == image[c].self
Names(c) == Range(image[c].entries)

VolumeTyped ==
    /\ image \in Image
    /\ leaf \in Seq(Cluster) /\ Len(leaf) # 0
    /\ mapped \in Cluster
    /\ nextBlock \in Nat
    /\ \/ update = Idle
       \/ /\ update \in [slot : Slot, written : Seq(Cluster)]
          /\ Len(update.written) = 1 \/ (Len(update.written) = 2 /\ ~SingleLeaf)

\* Block numbers are handed out once and only to pages that parse.
BlocksFresh ==
    /\ \A c \in Cluster : image[c] # NoPage => Self(c) < nextBlock /\ image[c].parses
    /\ \A c, d \in Cluster : IsRoot(c) /\ IsRoot(d) /\ Self(c) = Self(d) => c = d

\* The live tree is on the medium; names are in its leaves only.
TreeLive ==
    /\ IsRoot(mapped)
    /\ \A slot \in Slot : IsRoot(leaf[slot])
    /\ SingleLeaf => leaf[1] = mapped
    /\ ~SingleLeaf => Names(mapped) = {}

\* What an update wrote last has the highest number of the root pages.
LastWritten == update.written[Len(update.written)]

UpdateHighest ==
    update # Idle =>
        /\ \A k \in DOMAIN update.written : IsRoot(update.written[k])
        /\ \A d \in Cluster : IsRoot(d) => Self(d) <= Self(LastWritten)
        /\ ~SingleLeaf /\ Len(update.written) = 2 => Names(LastWritten) = {}

\* So has the mapped page, once the update completed.
MappedHighest ==
    update = Idle /\ ~torn => \A d \in Cluster : IsRoot(d) => Self(d) <= Self(mapped)

\* A page numbered above the mapped one was written by an update of the
\* directory as it is, which changes one name.
OrphansClose ==
    SingleLeaf =>
        \A d \in Cluster : IsRoot(d) /\ Self(mapped) < Self(d) =>
            \E name \in Entries : LiveNames \subseteq Names(d) \cup {name}

VolumeInv ==
    /\ VolumeTyped /\ BlocksFresh /\ TreeLive
    /\ UpdateHighest /\ MappedHighest /\ OrphansClose

-----------------------------------------------------------------------------
\* A page as written carries the names it was given.
LEMMA NamesOfSeq ==
    ASSUME NEW S \in SUBSET Entries
    PROVE  SetToSeq(S) \in Seq(Entries) /\ Range(SetToSeq(S)) = S
<1> DEFINE n == Cardinality(S)
<1>1. IsFiniteSet(S) /\ n \in Nat /\ ExistsBijection(1 .. n, S)
  BY VolumeAssumption, FS_Subset, FS_CardinalityType
<1>2. PICK b : b \in Bijection(1 .. n, S)
  BY <1>1 DEF ExistsBijection
<1>3. b \in [1 .. n -> S] /\ IsInjective(b)
  BY <1>2 DEF Bijection, Injection
<1>4. SetToSeq(S) \in [1 .. n -> S] /\ IsInjective(SetToSeq(S))
  BY <1>3 DEF SetToSeq
<1>5. SetToSeq(S) \in Injection(1 .. n, S)
  BY <1>4 DEF Injection
<1>6. IsFiniteSet(1 .. n) /\ Cardinality(1 .. n) = n
  BY <1>1, FS_Interval
<1>7. SetToSeq(S) \in Surjection(1 .. n, S)
  BY <1>1, <1>5, <1>6, FS_Injection
<1>8. Range(SetToSeq(S)) = S
  BY <1>4, <1>7 DEF Surjection, Range
<1>9. SetToSeq(S) \in Seq(Entries)
  BY <1>1, <1>4
<1> QED  BY <1>8, <1>9

\* The pages the driver writes (forensic/src/lib.rs:524-533).
LEMMA PageOfType ==
    ASSUME NEW table \in Tables, NEW block \in Nat, NEW names \in SUBSET Entries,
           NEW rows \in Seq(Nat \cup {NoBlock})
    PROVE  /\ PageOf(table, block, names, rows) \in Page
           /\ PageOf(table, block, names, rows).self = block
           /\ PageOf(table, block, names, rows).table = table
           /\ PageOf(table, block, names, rows).parses
           /\ Range(PageOf(table, block, names, rows).entries) = names
           /\ PageOf(table, block, names, rows) # NoPage
<1>1. PageOf(table, block, names, rows) \in Page
  BY NamesOfSeq DEF PageOf, Page
<1> QED  BY <1>1, NamesOfSeq, NoPageAssumption DEF PageOf

\* The names a root page holds are entries.
LEMMA NamesType ==
    ASSUME image \in Image, NEW c \in Cluster, image[c] # NoPage
    PROVE  Names(c) \subseteq Entries /\ Self(c) \in Nat
  BY DEF Names, Self, Range, Image, Page

LEMMA LiveNamesType ==
    ASSUME VolumeTyped, TreeLive
    PROVE  /\ LiveNames \subseteq Entries
           /\ \A slot \in Slot : NamesIn(slot) \subseteq Entries
           /\ SingleLeaf => LiveNames = Names(mapped)
<1>1. \A slot \in Slot : NamesIn(slot) = Names(leaf[slot]) /\ Names(leaf[slot]) \subseteq Entries
  BY NamesType DEF VolumeTyped, TreeLive, IsRoot, NamesIn, Names
<1>2. SingleLeaf => Slot = {1}
  BY DEF VolumeTyped, SingleLeaf, Slot
<1> QED  BY <1>1, <1>2 DEF LiveNames, TreeLive

-----------------------------------------------------------------------------
(***************************************************************************)
(* What writing a new page with the next block number leaves: every other  *)
(* page as it was, all of them numbered below.                             *)
(***************************************************************************)
LEMMA WriteStep ==
    ASSUME VolumeTyped, BlocksFresh, NEW c \in Cluster, NEW page \in Page,
           page # NoPage, page.parses, page.self = nextBlock,
           image' = [image EXCEPT ![c] = page], nextBlock' = nextBlock + 1
    PROVE  /\ image' \in Image /\ nextBlock' \in Nat
           /\ image'[c] = page
           /\ \A d \in Cluster : d # c => image'[d] = image[d]
           /\ \A d \in Cluster : d # c => (IsRoot(d)' <=> IsRoot(d))
           /\ \A d \in Cluster : d # c /\ IsRoot(d) => Self(d)' = Self(d) /\ Self(d) < nextBlock
           /\ BlocksFresh'
<1>1. /\ image' \in Image /\ nextBlock' \in Nat /\ image'[c] = page
      /\ \A d \in Cluster : d # c => image'[d] = image[d]
  BY DEF VolumeTyped, Image
<1>2. \A d \in Cluster : d # c => (IsRoot(d)' <=> IsRoot(d))
  BY <1>1 DEF IsRoot
<1>3. \A d \in Cluster : image[d] # NoPage => Self(d) \in Nat /\ Self(d) < nextBlock
  BY NamesType DEF VolumeTyped, BlocksFresh
<1>4. \A d \in Cluster : d # c /\ IsRoot(d) => Self(d)' = Self(d) /\ Self(d) < nextBlock
  BY <1>1, <1>3 DEF IsRoot, Self
<1>5. \A d \in Cluster : image'[d] # NoPage => Self(d)' < nextBlock' /\ image'[d].parses
  BY <1>1, <1>3 DEF Self, VolumeTyped, BlocksFresh
<1>6. \A d, e \in Cluster : IsRoot(d)' /\ IsRoot(e)' /\ Self(d)' = Self(e)' => d = e
  <2>1. \A d \in Cluster : IsRoot(d)' /\ d # c => Self(d)' # Self(c)'
    BY <1>1, <1>2, <1>3, <1>4 DEF Self, IsRoot, VolumeTyped
  <2> QED  BY <1>2, <1>4, <2>1 DEF BlocksFresh
<1> QED  BY <1>1, <1>2, <1>4, <1>5, <1>6 DEF BlocksFresh

\* A page written where the trees need none leaves the live tree as it is.
LEMMA LiveStep ==
    ASSUME VolumeInv, NEW c \in Cluster, c \notin LiveClusters,
           \A d \in Cluster : d # c => image'[d] = image[d],
           UNCHANGED <<leaf, mapped>>
    PROVE  /\ TreeLive'
           /\ LiveNames' = LiveNames
           /\ \A slot \in Slot : leaf[slot] \in Cluster /\ leaf[slot] # c
           /\ mapped # c /\ mapped \in Cluster
<1>1. \A slot \in Slot : leaf[slot] \in Cluster /\ leaf[slot] # c
  BY DEF VolumeInv, VolumeTyped, LiveClusters, Slot, Range
<1>2. mapped # c /\ mapped \in Cluster
  BY DEF VolumeInv, VolumeTyped, LiveClusters
<1>3. /\ image'[mapped] = image[mapped]
      /\ \A slot \in Slot : image'[leaf[slot]] = image[leaf[slot]]
  BY <1>1, <1>2
<1>4. Slot' = Slot /\ SingleLeaf' = SingleLeaf
  BY DEF Slot, SingleLeaf
<1>5. TreeLive'
  BY <1>3, <1>4 DEF VolumeInv, TreeLive, IsRoot, Names
<1>6. LiveNames' = LiveNames
  BY <1>3, <1>4 DEF LiveNames, NamesIn
<1> QED  BY <1>1, <1>2, <1>5, <1>6

LEMMA VolumeInitHolds == VolumeInit => VolumeInv
<1> SUFFICES ASSUME VolumeInit PROVE VolumeInv
  OBVIOUS
<1>1. PICK n \in LeafCounts :
          /\ leaf = [slot \in 1 .. n |-> slot - 1]
          /\ mapped = IF n = 1 THEN 0 ELSE n
          /\ image = FirstImage(n)
          /\ nextBlock = n + 1
  BY DEF VolumeInit
<1>2. n \in Nat /\ n # 0 /\ n + 2 < Clusters /\ Clusters \in Nat
  BY VolumeAssumption, SizesAssumption
<1>3. leaf \in Seq(Cluster) /\ Len(leaf) = n /\ Slot = 1 .. n
  BY <1>1, <1>2 DEF Cluster, Slot
<1>4. mapped \in Cluster /\ nextBlock \in Nat
  BY <1>1, <1>2 DEF Cluster
<1>5. /\ << >> \in Seq(Nat \cup {NoBlock})
      /\ [slot \in 1 .. n |-> slot - 1] \in Seq(Nat \cup {NoBlock})
      /\ RootTable \in Tables
  BY <1>2, VolumeAssumption DEF Cluster
<1>6. ASSUME NEW c \in Cluster
      PROVE  /\ image[c] \in Page \cup {NoPage}
             /\ image[c] # NoPage => /\ image[c].self = c
                                    /\ image[c].table = RootTable
                                    /\ image[c].parses
                                    /\ Names(c) = {}
             /\ image[c] # NoPage <=> c < n \/ (c = n /\ n > 1)
  <2>1. c \in Nat /\ {} \in SUBSET Entries
    BY DEF Cluster
  <2>2. ASSUME NEW rows \in Seq(Nat \cup {NoBlock}),
               image[c] = PageOf(RootTable, c, {}, rows)
        PROVE  /\ image[c] \in Page /\ image[c] # NoPage
               /\ image[c].self = c /\ image[c].table = RootTable /\ image[c].parses
               /\ Names(c) = {}
    BY <1>5, <2>1, <2>2, PageOfType DEF Names
  <2>3. c < n => image[c] = PageOf(RootTable, c, {}, << >>)
    BY <1>1 DEF FirstImage, NewPage
  <2>4. c = n /\ n > 1 => image[c] = PageOf(RootTable, c, {}, [slot \in 1 .. n |-> slot - 1])
    BY <1>1, <1>2 DEF FirstImage, NewPage
  <2>5. CASE ~(c < n) /\ ~(c = n /\ n > 1)
    BY <1>1, <2>5 DEF FirstImage
  <2> QED  BY <1>5, <2>2, <2>3, <2>4, <2>5
<1>7. image \in Image
  BY <1>1, <1>6 DEF Image, FirstImage
<1>8. VolumeTyped
  BY <1>2, <1>3, <1>4, <1>7 DEF VolumeTyped, VolumeInit
<1>9. BlocksFresh
  BY <1>1, <1>2, <1>6 DEF BlocksFresh, IsRoot, Self, Cluster
<1>10. IsRoot(mapped) /\ (n > 1 => Names(mapped) = {})
  BY <1>1, <1>2, <1>4, <1>6 DEF IsRoot
<1>11. \A slot \in Slot : IsRoot(leaf[slot])
  BY <1>1, <1>2, <1>3, <1>6 DEF IsRoot, Cluster
<1>12. TreeLive
  BY <1>1, <1>2, <1>3, <1>10, <1>11 DEF TreeLive, SingleLeaf
<1>13. \A d \in Cluster : IsRoot(d) => Self(d) <= Self(mapped)
  BY <1>1, <1>2, <1>4, <1>6, <1>10 DEF IsRoot, Self, Cluster
<1>14. \A d \in Cluster : ~(IsRoot(d) /\ Self(mapped) < Self(d))
  <2>1. \A d \in Cluster : IsRoot(d) => Self(d) \in Nat
    BY <1>7, NamesType DEF IsRoot
  <2> QED  BY <1>4, <1>10, <1>13, <2>1
<1>15. UpdateHighest
  BY DEF VolumeInit, UpdateHighest
<1> QED  BY <1>8, <1>9, <1>12, <1>13, <1>14, <1>15 DEF VolumeInv, MappedHighest, OrphansClose

-----------------------------------------------------------------------------
LEMMA WriteLeafStep ==
    ASSUME VolumeInv, NEW slot \in Slot, NEW names \in SUBSET Entries, WriteLeaf(slot, names)
    PROVE  VolumeInv'
<1> DEFINE page == NewPage(nextBlock, names, << >>)
<1>0. VolumeTyped /\ BlocksFresh /\ TreeLive /\ MappedHighest /\ OrphansClose /\ update = Idle
  BY DEF VolumeInv, WriteLeaf
<1>1. PICK c \in Free :
          /\ image' = [image EXCEPT ![c] = page]
          /\ update' = [slot |-> slot, written |-> <<c>>]
  BY DEF WriteLeaf
<1>2. PICK name \in Entries :
          \/ name \notin LiveNames /\ names = NamesIn(slot) \cup {name}
          \/ name \in NamesIn(slot) /\ names = NamesIn(slot) \ {name}
  BY DEF WriteLeaf
<1>3. c \in Cluster /\ c \notin LiveClusters /\ UNCHANGED <<leaf, mapped, torn>>
  BY DEF Free, WriteLeaf
<1>4. page \in Page /\ page.self = nextBlock /\ page.table = RootTable /\ page.parses
      /\ Range(page.entries) = names /\ page # NoPage
  <2>1. << >> \in Seq(Nat \cup {NoBlock}) /\ RootTable \in Tables /\ nextBlock \in Nat
    BY <1>0, VolumeAssumption DEF VolumeTyped
  <2>2. \A rows \in Seq(Nat \cup {NoBlock}) :
            LET new == PageOf(RootTable, nextBlock, names, rows)
            IN  /\ new \in Page /\ new.self = nextBlock /\ new.table = RootTable /\ new.parses
                /\ Range(new.entries) = names /\ new # NoPage
    BY <2>1, PageOfType
  <2> QED  BY <2>1, <2>2 DEF NewPage
<1> HIDE DEF page
<1>5. /\ image' \in Image /\ nextBlock' \in Nat /\ image'[c] = page
      /\ \A d \in Cluster : d # c => image'[d] = image[d]
      /\ \A d \in Cluster : d # c => (IsRoot(d)' <=> IsRoot(d))
      /\ \A d \in Cluster : d # c /\ IsRoot(d) => Self(d)' = Self(d) /\ Self(d) < nextBlock
      /\ BlocksFresh'
  BY <1>0, <1>1, <1>3, <1>4, WriteStep DEF WriteLeaf
<1>6. TreeLive' /\ LiveNames' = LiveNames /\ mapped # c /\ mapped \in Cluster
  BY <1>3, <1>5, LiveStep
<1>7. update' # Idle /\ update'.written = <<c>> /\ update'.slot = slot
  BY <1>1 DEF Idle
<1>8. VolumeTyped'
  BY <1>0, <1>1, <1>3, <1>5 DEF VolumeTyped, Slot, SingleLeaf
<1>9. IsRoot(c)' /\ Self(c)' = nextBlock /\ Names(c)' = names
  BY <1>3, <1>4, <1>5 DEF IsRoot, Self, Names
<1>10. UpdateHighest'
  <2>1. \A d \in Cluster : IsRoot(d)' => Self(d)' <= Self(c)'
    BY <1>0, <1>5, <1>9, NamesType DEF VolumeTyped, IsRoot
  <2> QED  BY <1>7, <1>9, <2>1 DEF UpdateHighest, LastWritten
<1>11. MappedHighest'
  BY <1>7 DEF MappedHighest
<1>12. OrphansClose'
  <2> SUFFICES ASSUME SingleLeaf, NEW d \in Cluster, IsRoot(d)', (Self(mapped) < Self(d))'
               PROVE  \E e \in Entries : LiveNames \subseteq Names(d)' \cup {e}
    BY <1>3, <1>6 DEF OrphansClose, SingleLeaf
  <2>1. CASE d = c
    <3>1. LiveNames = NamesIn(slot)
      BY <1>0 DEF VolumeTyped, SingleLeaf, Slot, LiveNames
    <3> QED  BY <1>2, <1>9, <2>1, <3>1
  <2>2. CASE d # c
    <3>1. Self(mapped)' = Self(mapped) /\ Self(d)' = Self(d) /\ IsRoot(d) /\ Names(d)' = Names(d)
      BY <1>0, <1>3, <1>5, <1>6, <2>2 DEF TreeLive, Self, Names
    <3> QED  BY <1>0, <1>3, <3>1 DEF OrphansClose, Self
  <2> QED  BY <2>1, <2>2
<1> QED  BY <1>5, <1>6, <1>8, <1>10, <1>11, <1>12 DEF VolumeInv

LEMMA WriteBranchStep ==
    ASSUME VolumeInv, WriteBranch
    PROVE  VolumeInv'
<1> DEFINE rows == [slot \in Slot |-> IF slot = update.slot THEN image[update.written[1]].self
                                     ELSE image[leaf[slot]].self]
           page == NewPage(nextBlock, {}, rows)
<1>0. /\ VolumeTyped /\ BlocksFresh /\ TreeLive /\ UpdateHighest
      /\ ~SingleLeaf /\ Len(update.written) = 1
  BY DEF VolumeInv, WriteBranch
<1>1. PICK c \in Free :
          /\ image' = [image EXCEPT ![c] = page]
          /\ update' = [update EXCEPT !.written = Append(@, c)]
  BY DEF WriteBranch
<1>2. update # Idle /\ update \in [slot : Slot, written : Seq(Cluster)]
  <2>1. update # Idle
    <3>1. Len(Idle.written) = 0
      BY DEF Idle
    <3> QED  BY <1>0, <3>1
  <2> QED  BY <1>0, <2>1 DEF VolumeTyped
<1>3. c \in Cluster /\ c \notin LiveClusters /\ UNCHANGED <<leaf, mapped, torn>>
      /\ c \notin Range(update.written)
  BY DEF Free, WriteBranch
<1>4. rows \in Seq(Nat \cup {NoBlock})
  <2>1. IsRoot(update.written[1])
    BY <1>0, <1>2 DEF UpdateHighest
  <2>2. \A slot \in Slot : rows[slot] \in Nat
    BY <1>0, <2>1, NamesType DEF TreeLive, IsRoot, VolumeTyped, Self
  <2>3. Slot = 1 .. Len(leaf) /\ Len(leaf) \in Nat
    BY <1>0 DEF VolumeTyped, Slot
  <2> HIDE DEF rows
  <2>4. rows \in [1 .. Len(leaf) -> Nat \cup {NoBlock}]
    BY <2>2, <2>3 DEF rows
  <2> QED  BY <2>3, <2>4
<1> HIDE DEF rows
<1>5. page \in Page /\ page.self = nextBlock /\ page.table = RootTable /\ page.parses
      /\ Range(page.entries) = {} /\ page # NoPage
  BY <1>0, <1>4, VolumeAssumption, PageOfType DEF NewPage, VolumeTyped
<1> HIDE DEF page
<1>6. /\ image' \in Image /\ nextBlock' \in Nat /\ image'[c] = page
      /\ \A d \in Cluster : d # c => image'[d] = image[d]
      /\ \A d \in Cluster : d # c => (IsRoot(d)' <=> IsRoot(d))
      /\ \A d \in Cluster : d # c /\ IsRoot(d) => Self(d)' = Self(d) /\ Self(d) < nextBlock
      /\ BlocksFresh'
  BY <1>0, <1>1, <1>3, <1>5, WriteStep DEF WriteBranch
<1>7. TreeLive'
  BY <1>3, <1>6, LiveStep
<1>8. /\ update' \in [slot : Slot, written : Seq(Cluster)]
      /\ Len(update'.written) = 2 /\ DOMAIN update'.written = {1, 2}
      /\ update'.written[1] = update.written[1] /\ update'.written[2] = c
  <2>1. update'.slot = update.slot /\ update'.written = Append(update.written, c)
        /\ update' = [slot |-> update'.slot, written |-> update'.written]
    BY <1>1, <1>2
  <2>2. update.slot \in Slot /\ update.written \in Seq(Cluster)
    BY <1>2
  <2>3. /\ update'.written \in Seq(Cluster) /\ Len(update'.written) = 2
        /\ update'.written[1] = update.written[1] /\ update'.written[2] = c
    BY <1>0, <1>3, <2>1, <2>2
  <2>4. DOMAIN update'.written = 1 .. 2
    BY <2>3
  <2>5. 1 .. 2 = {1, 2}
    OBVIOUS
  <2> QED BY <2>1, <2>2, <2>3, <2>4, <2>5
<1>9. update' # Idle
  BY <1>8 DEF Idle
<1>10. VolumeTyped'
  BY <1>0, <1>3, <1>6, <1>8 DEF VolumeTyped, Slot, SingleLeaf
<1>11. IsRoot(c)' /\ Self(c)' = nextBlock /\ Names(c)' = {}
  BY <1>3, <1>5, <1>6 DEF IsRoot, Self, Names
<1>12. IsRoot(update.written[1])'
  <2>1. IsRoot(update.written[1]) /\ update.written[1] # c
    BY <1>0, <1>2, <1>3 DEF UpdateHighest, Range
  <2> QED  BY <1>6, <1>8, <2>1 DEF IsRoot
<1>13. UpdateHighest'
  <2>1. \A d \in Cluster : IsRoot(d)' => Self(d)' <= Self(c)'
    BY <1>0, <1>6, <1>11, NamesType DEF VolumeTyped, IsRoot
  <2> QED  BY <1>8, <1>11, <1>12, <2>1 DEF UpdateHighest, LastWritten, IsRoot
<1>14. MappedHighest' /\ OrphansClose'
  BY <1>0, <1>3, <1>9 DEF MappedHighest, OrphansClose, SingleLeaf
<1> QED  BY <1>6, <1>7, <1>10, <1>13, <1>14 DEF VolumeInv

(***************************************************************************)
(* An update that completes maps the page it wrote last, so no root page   *)
(* is numbered above the mapped one.                                       *)
(***************************************************************************)
LEMMA RepointStep ==
    ASSUME VolumeInv, Repoint
    PROVE  VolumeInv'
<1>0. /\ VolumeTyped /\ BlocksFresh /\ TreeLive /\ UpdateHighest
      /\ UNCHANGED <<image, nextBlock>> /\ update' = Idle
      /\ mapped' = LastWritten
      /\ leaf' = [leaf EXCEPT ![update.slot] = update.written[1]]
  BY DEF VolumeInv, Repoint, LastWritten
<1>1. /\ update # Idle /\ update.slot \in Slot /\ update.written \in Seq(Cluster)
      /\ Len(update.written) = IF SingleLeaf THEN 1 ELSE 2
  <2>1. Len(Idle.written) = 0
    BY DEF Idle
  <2> QED  BY <1>0, <2>1 DEF VolumeTyped, Repoint
<1>2. IsRoot(update.written[1]) /\ IsRoot(LastWritten)
  BY <1>0, <1>1 DEF UpdateHighest, LastWritten
<1>3. leaf' \in Seq(Cluster) /\ Len(leaf') = Len(leaf) /\ Slot' = Slot /\ SingleLeaf' = SingleLeaf
  BY <1>0, <1>1, <1>2 DEF VolumeTyped, Slot, SingleLeaf, IsRoot
<1>4. VolumeTyped'
  BY <1>0, <1>2, <1>3 DEF VolumeTyped, IsRoot
<1>5. BlocksFresh'
  BY <1>0 DEF BlocksFresh, IsRoot, Self
<1>6. TreeLive'
  <2>1. \A slot \in Slot : IsRoot(leaf'[slot])
    BY <1>0, <1>1, <1>2 DEF TreeLive, Slot
  <2>2. SingleLeaf => leaf'[1] = LastWritten
    BY <1>0, <1>1 DEF VolumeTyped, SingleLeaf, Slot, LastWritten
  <2>3. ~SingleLeaf => Names(LastWritten) = {}
    BY <1>0, <1>1 DEF UpdateHighest
  <2> QED  BY <1>0, <1>2, <1>3, <2>1, <2>2, <2>3 DEF TreeLive, IsRoot, Names
<1>7. \A d \in Cluster : IsRoot(d)' => Self(d)' <= Self(mapped)'
  BY <1>0, <1>1 DEF UpdateHighest, IsRoot, Self
<1>8. MappedHighest'
  BY <1>7 DEF MappedHighest
<1>9. OrphansClose'
  <2>1. \A d \in Cluster : IsRoot(d)' => Self(d)' \in Nat
    BY <1>0, NamesType DEF VolumeTyped, IsRoot, Self
  <2>2. IsRoot(mapped)'
    BY <1>0, <1>2 DEF IsRoot
  <2>3. \A d \in Cluster : ~(IsRoot(d)' /\ (Self(mapped) < Self(d))')
    BY <1>7, <2>1, <2>2 DEF IsRoot
  <2> QED  BY <2>3 DEF OrphansClose
<1>10. UpdateHighest'
  BY <1>0 DEF UpdateHighest
<1> QED  BY <1>4, <1>5, <1>6, <1>8, <1>9, <1>10 DEF VolumeInv

\* A torn update leaves its pages where they are, above the mapped one.
LEMMA TearStep ==
    ASSUME VolumeInv, Tear
    PROVE  VolumeInv'
<1>1. UNCHANGED <<image, leaf, mapped, nextBlock>> /\ update' = Idle /\ torn' = TRUE
  BY DEF Tear
<1>2. VolumeTyped' /\ BlocksFresh' /\ TreeLive' /\ OrphansClose'
  BY <1>1 DEF VolumeInv, VolumeTyped, BlocksFresh, TreeLive, OrphansClose, IsRoot, Self, Names,
     LiveNames, NamesIn, Slot, SingleLeaf
<1>3. UpdateHighest' /\ MappedHighest'
  BY <1>1 DEF UpdateHighest, MappedHighest
<1> QED  BY <1>2, <1>3 DEF VolumeInv

\* The other directory's page may take an orphan's place, never the live tree's.
LEMMA UpdateElsewhereStep ==
    ASSUME VolumeInv, NEW names \in SUBSET Entries, UpdateElsewhere(names)
    PROVE  VolumeInv'
<1> DEFINE page == PageOf(OtherTable, nextBlock, names, << >>)
<1>0. VolumeTyped /\ BlocksFresh /\ TreeLive /\ MappedHighest /\ OrphansClose /\ update = Idle
  BY DEF VolumeInv, UpdateElsewhere
<1>1. PICK c \in Free : image' = [image EXCEPT ![c] = page]
  BY DEF UpdateElsewhere
<1>2. c \in Cluster /\ c \notin LiveClusters /\ UNCHANGED <<leaf, mapped, torn, update>>
  BY DEF Free, UpdateElsewhere
<1>3. page \in Page /\ page.self = nextBlock /\ page.table # RootTable /\ page.parses
      /\ page # NoPage
  <2>1. << >> \in Seq(Nat \cup {NoBlock}) /\ OtherTable \in Tables /\ nextBlock \in Nat
        /\ OtherTable # RootTable
    BY <1>0, VolumeAssumption DEF VolumeTyped
  <2>2. \A rows \in Seq(Nat \cup {NoBlock}) :
           LET written == PageOf(OtherTable, nextBlock, names, rows)
           IN  /\ written \in Page /\ written.self = nextBlock /\ written.table = OtherTable
               /\ written.parses /\ written # NoPage
    BY <2>1, PageOfType
  <2> QED  BY <2>1, <2>2
<1> HIDE DEF page
<1>4. /\ image' \in Image /\ nextBlock' \in Nat /\ image'[c] = page
      /\ \A d \in Cluster : d # c => image'[d] = image[d]
      /\ \A d \in Cluster : d # c => (IsRoot(d)' <=> IsRoot(d))
      /\ \A d \in Cluster : d # c /\ IsRoot(d) => Self(d)' = Self(d) /\ Self(d) < nextBlock
      /\ BlocksFresh'
  BY <1>0, <1>1, <1>2, <1>3, WriteStep DEF UpdateElsewhere
<1>5. TreeLive' /\ LiveNames' = LiveNames /\ mapped # c /\ mapped \in Cluster
  BY <1>2, <1>4, LiveStep
<1>6. VolumeTyped'
  BY <1>0, <1>2, <1>4 DEF VolumeTyped, Slot, SingleLeaf
<1>7. \A d \in Cluster : IsRoot(d)' =>
          /\ IsRoot(d) /\ Self(d)' = Self(d) /\ Names(d)' = Names(d)
  BY <1>3, <1>4 DEF IsRoot, Names
<1>8. Self(mapped)' = Self(mapped)
  BY <1>0, <1>2, <1>4, <1>5 DEF Self
<1>9. MappedHighest'
  BY <1>0, <1>2, <1>7, <1>8 DEF MappedHighest
<1>10. OrphansClose'
  BY <1>0, <1>2, <1>5, <1>7, <1>8 DEF OrphansClose, SingleLeaf
<1>11. UpdateHighest'
  BY <1>0, <1>2 DEF UpdateHighest
<1> QED  BY <1>4, <1>5, <1>6, <1>9, <1>10, <1>11 DEF VolumeInv

LEMMA VolumeStep == VolumeInv /\ VolumeNext => VolumeInv'
<1> SUFFICES ASSUME VolumeInv, VolumeNext PROVE VolumeInv'
  OBVIOUS
<1>1. CASE \E slot \in Slot, names \in SUBSET Entries : WriteLeaf(slot, names)
  BY <1>1, WriteLeafStep
<1>2. CASE WriteBranch
  BY <1>2, WriteBranchStep
<1>3. CASE Repoint
  BY <1>3, RepointStep
<1>4. CASE Tear
  BY <1>4, TearStep
<1>5. CASE \E names \in OtherListings : UpdateElsewhere(names)
  BY <1>5, UpdateElsewhereStep, VolumeAssumption
<1> QED  BY <1>1, <1>2, <1>3, <1>4, <1>5 DEF VolumeNext

-----------------------------------------------------------------------------
(***************************************************************************)
(* The scan of ResidueScanProofs is the scan run here, on the image the    *)
(* volume left.                                                            *)
(***************************************************************************)
ScanProofs == INSTANCE ResidueScanProofs WITH Images <- Image

ScanInv == ScanProofs!ScanInv

LEMMA SameScan ==
    /\ ScanProofs!Image = Image
    /\ ScanProofs!Page = Page
    /\ ScanProofs!Current = Scan!Current
<1>1. ScanProofs!Image = Image
  BY DEF ScanProofs!Image, Image, ScanProofs!Cluster, Cluster, ScanProofs!Page, Page,
     NoBlock, ScanProofs!NoBlock
<1>2. ScanProofs!Page = Page
  BY DEF ScanProofs!Page, Page, NoBlock, ScanProofs!NoBlock
<1>3. ScanProofs!Current = Scan!Current
  BY DEF ScanProofs!Current, Scan!Current
<1> QED  BY <1>1, <1>2, <1>3

LEMMA SameScanNext == Scan!ScanNext <=> ScanProofs!ScanNext
  BY DEF Scan!ScanNext, Scan!SkipPage, Scan!RecordFirst, Scan!RecordHigher, Scan!KeepCurrent,
     Scan!EndPass1, Scan!SkipCurrent, Scan!SkipSurvived, Scan!Surface, Scan!EndPass2,
     Scan!Visiting, Scan!Scanning, Scan!Advance, Scan!Record, Scan!NotStale,
     Scan!RootPages, Scan!MsbClusters, Scan!Fits, Scan!Cluster, Scan!Carve, Scan!Dropped,
     Scan!Range,
     ScanProofs!ScanNext, ScanProofs!SkipPage, ScanProofs!RecordFirst,
     ScanProofs!RecordHigher, ScanProofs!KeepCurrent, ScanProofs!EndPass1,
     ScanProofs!SkipCurrent, ScanProofs!SkipSurvived, ScanProofs!Surface,
     ScanProofs!EndPass2, ScanProofs!Visiting, ScanProofs!Scanning, ScanProofs!Advance,
     ScanProofs!Record, ScanProofs!NotStale, ScanProofs!RootPages,
     ScanProofs!MsbClusters, ScanProofs!Fits, ScanProofs!Cluster, ScanProofs!Carve,
     ScanProofs!Dropped, ScanProofs!Range

LEMMA ScanInitHolds == image \in Image /\ Scan!ScanInit => ScanInv
<1>1. Scan!ScanInit <=> ScanProofs!ScanInit
  BY DEF Scan!ScanInit, ScanProofs!ScanInit
<1>2. image \in ScanProofs!Image /\ ScanProofs!ScanInit => ScanProofs!ScanInv
  BY ScanProofs!InitHolds, SizesAssumption, NoPageAssumption, VolumeAssumption, NoneAssumption,
     SameScan
<1> QED  BY <1>1, <1>2, SameScan DEF ScanInv

LEMMA ScanInitKept == (image \in Image /\ Scan!ScanInit)' => ScanInv'
  BY ScanInitHolds, PTL

LEMMA ScanStepHolds ==
    ScanInv /\ (Scan!ScanNext \/ UNCHANGED <<image, pass, at, current, out>>) => ScanInv'
<1>1. ScanProofs!ScanInv /\ [ScanProofs!ScanNext]_(ScanProofs!vars) => ScanProofs!ScanInv'
  BY ScanProofs!ScanStep, SizesAssumption, NoPageAssumption, VolumeAssumption, NoneAssumption,
     SameScan
<1>2. UNCHANGED <<image, pass, at, current, out>> => UNCHANGED ScanProofs!vars
  BY DEF ScanProofs!vars, ScanProofs!scanVars
<1> QED  BY <1>1, <1>2, SameScanNext DEF ScanInv

-----------------------------------------------------------------------------
(***************************************************************************)
(* The inductive invariant of the whole: the volume's until its image is   *)
(* taken, between two updates; the scan's from then on.                    *)
(***************************************************************************)
RecoveryInv ==
    /\ VolumeInv
    /\ ScanInv
    /\ ~imaged => Scan!ScanInit
    /\ imaged => update = Idle

LEMMA InitHolds == Init => RecoveryInv
<1> SUFFICES ASSUME Init PROVE RecoveryInv
  OBVIOUS
<1>1. VolumeInv
  BY VolumeInitHolds DEF Init
<1>2. ScanInv
  BY <1>1, ScanInitHolds DEF Init, VolumeInv, VolumeTyped
<1> QED  BY <1>1, <1>2 DEF Init, RecoveryInv

\* The scan writes nothing the volume's invariant is about.
LEMMA VolumeKept ==
    VolumeInv /\ UNCHANGED <<image, leaf, mapped, nextBlock, update, torn>> => VolumeInv'
<1> SUFFICES ASSUME VolumeInv, UNCHANGED <<image, leaf, mapped, nextBlock, update, torn>>
             PROVE  VolumeInv'
  OBVIOUS
<1> USE DEF VolumeInv
<1>1. VolumeTyped'
  BY DEF VolumeTyped, Slot, SingleLeaf
<1>2. \A c \in Cluster : (IsRoot(c)' <=> IsRoot(c)) /\ Self(c)' = Self(c) /\ Names(c)' = Names(c)
  BY DEF IsRoot, Self, Names
<1>3. BlocksFresh'
  BY <1>2 DEF BlocksFresh
<1>4. TreeLive'
  BY DEF TreeLive, IsRoot, Names, Slot, SingleLeaf
<1>5. UpdateHighest'
  BY DEF UpdateHighest, LastWritten, IsRoot, Self, Names, SingleLeaf
<1>6. MappedHighest'
  BY DEF MappedHighest, IsRoot, Self
<1>7. OrphansClose'
  BY DEF OrphansClose, IsRoot, Self, Names, LiveNames, NamesIn, Slot, SingleLeaf
<1> QED BY <1>1, <1>3, <1>4, <1>5, <1>6, <1>7

LEMMA RecoveryStep == RecoveryInv /\ [Next]_vars => RecoveryInv'
<1> SUFFICES ASSUME RecoveryInv, [Next]_vars PROVE RecoveryInv'
  OBVIOUS
<1> USE DEF RecoveryInv
<1>s. UNCHANGED <<pass, at, current, out>> /\ Scan!ScanInit => Scan!ScanInit'
  BY DEF Scan!ScanInit
<1>v. UNCHANGED <<image, leaf, mapped, nextBlock, update, torn>> => VolumeInv'
  BY VolumeKept
<1>1. CASE Write
  <2>1. VolumeInv' /\ Scan!ScanInit' /\ ~imaged'
    BY <1>1, <1>s, VolumeStep DEF Write
  <2> QED  BY <2>1, ScanInitKept DEF VolumeInv, VolumeTyped
<1>2. CASE TakeImage
  BY <1>2, <1>v, ScanStepHolds DEF TakeImage, volumeVars
<1>3. CASE Recover
  <2>1. UNCHANGED image
    BY <1>3 DEF Recover, Scan!ScanNext, Scan!SkipPage, Scan!RecordFirst, Scan!RecordHigher,
       Scan!KeepCurrent, Scan!EndPass1, Scan!SkipCurrent, Scan!SkipSurvived, Scan!Surface,
       Scan!EndPass2
  <2> QED  BY <1>3, <1>v, <2>1, ScanStepHolds DEF Recover
<1>4. CASE UNCHANGED vars
  BY <1>4, <1>s, <1>v, ScanStepHolds DEF vars, volumeVars
<1> QED  BY <1>1, <1>2, <1>3, <1>4 DEF Next

LEMMA RecoveryInvHolds == Spec => []RecoveryInv
  BY InitHolds, RecoveryStep, PTL DEF Spec

-----------------------------------------------------------------------------
(***************************************************************************)
(* What holds once the scan has returned: the current version is the root  *)
(* page numbered highest, and a surfaced page is numbered below it.        *)
(***************************************************************************)
StalePages ==
    {c \in Cluster : IsRoot(c) /\ Self(c) < current.self /\ Names(c) \ Range(current.names) # {}}

LEMMA ReturnedScan ==
    ASSUME RecoveryInv, Scan!Returned
    PROVE  /\ \E c \in Cluster :
                 /\ IsRoot(c)
                 /\ \A d \in Cluster : IsRoot(d) => Self(d) <= Self(c)
                 /\ current.self = Self(c) /\ Range(current.names) = Names(c)
           /\ {out[i].at : i \in DOMAIN out} = StalePages
           /\ \A i \in DOMAIN out : out[i].names = Names(out[i].at) \ Range(current.names)
           /\ imaged /\ update = Idle
<1>0. pass = 3 /\ imaged /\ update = Idle /\ VolumeTyped /\ BlocksFresh /\ TreeLive
  BY DEF RecoveryInv, VolumeInv, Scan!Returned, Scan!ScanInit
<1>1. ScanProofs!RootPages(image) = {c \in Cluster : IsRoot(c)}
  BY SizesAssumption, PlaceAssumption DEF ScanProofs!RootPages, ScanProofs!MsbClusters,
     ScanProofs!Fits, ScanProofs!Cluster, Cluster, IsRoot
<1>2. \A c \in Cluster : IsRoot(c) =>
          /\ ScanProofs!Carve(image[c]) = image[c].entries
          /\ ScanProofs!Range(ScanProofs!Carve(image[c])) = Names(c)
          /\ Self(c) \in Nat
  <2>1. \A c \in Cluster : IsRoot(c) => ScanProofs!Carve(image[c]) = image[c].entries
    BY <1>0 DEF BlocksFresh, IsRoot, ScanProofs!Carve
  <2> QED  BY <1>0, <2>1, NamesType DEF VolumeTyped, IsRoot, Names, Range, ScanProofs!Range
<1>3. /\ ScanProofs!HighestSoFar /\ ScanProofs!ResidueIsExact
      /\ out \in Seq(ScanProofs!StalePage)
  BY DEF RecoveryInv, ScanInv, ScanProofs!ScanInv, ScanProofs!Typed, ScanProofs!ScanTypeOK
<1>4. PICK c \in Cluster :
          /\ IsRoot(c)
          /\ \A d \in Cluster : IsRoot(d) =>
                 image[d].self < image[c].self \/ (image[d].self = image[c].self /\ c <= d)
          /\ current = [self |-> image[c].self, names |-> ScanProofs!Carve(image[c])]
  <2>1. mapped \in Cluster /\ IsRoot(mapped)
    BY <1>0 DEF VolumeTyped, TreeLive
  <2> QED  BY <1>0, <1>1, <1>3, <2>1 DEF ScanProofs!HighestSoFar, ScanProofs!CurrentOf
<1>5. current.self = Self(c) /\ Range(current.names) = Names(c)
  BY <1>2, <1>4 DEF Self, Names
<1>6. \A d \in Cluster : IsRoot(d) => Self(d) <= Self(c)
  BY <1>2, <1>4 DEF Self
<1>7. ScanProofs!Range(current.names) = Range(current.names)
  BY DEF Range, ScanProofs!Range
<1>8. {out[i].at : i \in DOMAIN out} = StalePages
  <2>1. \A d \in Cluster : d \in Nat /\ d < Clusters
    BY SizesAssumption DEF Cluster
  <2>2. at = Clusters
    BY <1>0 DEF RecoveryInv, ScanInv, ScanProofs!ScanInv, ScanProofs!AllPassed,
       ScanProofs!Returned
  <2> QED
    BY <1>0, <1>1, <1>2, <1>3, <1>7, <2>1, <2>2 DEF ScanProofs!ResidueIsExact, StalePages, Self
<1>9. \A i \in DOMAIN out : out[i].names = Names(out[i].at) \ Range(current.names)
  <2>1. \A i \in DOMAIN out : out[i].at \in Cluster /\ IsRoot(out[i].at)
    BY <1>8 DEF StalePages
  <2> QED  BY <1>2, <1>3, <1>7, <2>1 DEF ScanProofs!ResidueIsExact
<1> QED  BY <1>0, <1>4, <1>5, <1>6, <1>8, <1>9

-----------------------------------------------------------------------------
LEMMA MappedKept == RecoveryInv => MappedNeverStale
<1> SUFFICES ASSUME RecoveryInv, Scan!Returned, ~torn, NEW i \in DOMAIN out, out[i].at = mapped
             PROVE  FALSE
  BY DEF MappedNeverStale
<1>1. /\ Self(mapped) < current.self /\ IsRoot(mapped)
      /\ \E c \in Cluster : IsRoot(c) /\ current.self = Self(c)
      /\ update = Idle
  BY ReturnedScan DEF StalePages
<1>2. \A d \in Cluster : IsRoot(d) => Self(d) \in Nat /\ Self(d) <= Self(mapped)
  BY <1>1, NamesType DEF RecoveryInv, VolumeInv, VolumeTyped, MappedHighest, IsRoot
<1> QED  BY <1>1, <1>2 DEF IsRoot

(***************************************************************************)
(* After any history of updates, of this directory and of another, with    *)
(* any of them torn and any clusters reused: if the last update of the     *)
(* directory completed, the page the object table maps it to is never      *)
(* carved as stale (forensic/src/lib.rs:524-533).                          *)
(***************************************************************************)
THEOREM MappedPageIsNeverStale == Spec => []MappedNeverStale
  BY RecoveryInvHolds, MappedKept, PTL

-----------------------------------------------------------------------------
LEMMA OneNameTorn == RecoveryInv => TornSurfacesOneName
<1> SUFFICES ASSUME RecoveryInv, Scan!Returned, SingleLeaf
             PROVE  Cardinality(LiveNamesSurfaced) <= IF torn THEN 1 ELSE 0
  BY DEF TornSurfacesOneName
<1>0. /\ VolumeTyped /\ BlocksFresh /\ TreeLive /\ MappedHighest /\ OrphansClose
      /\ update = Idle
  BY ReturnedScan DEF RecoveryInv, VolumeInv
<1>1. PICK c \in Cluster :
          /\ IsRoot(c)
          /\ \A d \in Cluster : IsRoot(d) => Self(d) <= Self(c)
          /\ current.self = Self(c) /\ Range(current.names) = Names(c)
  BY ReturnedScan
<1>2. LiveNamesSurfaced \cap Names(c) = {} /\ LiveNamesSurfaced \subseteq LiveNames
  <2>1. \A i \in DOMAIN out : out[i].names \cap Names(c) = {}
    BY <1>1, ReturnedScan
  <2>2. \A x \in LiveNamesSurfaced : x \in LiveNames /\ \E i \in DOMAIN out : x \in out[i].names
    BY DEF LiveNamesSurfaced
  <2> QED  BY <2>1, <2>2
<1>3. LiveNames = Names(mapped) /\ IsRoot(mapped) /\ mapped \in Cluster
  BY <1>0, LiveNamesType DEF TreeLive, VolumeTyped
<1>4. Self(c) \in Nat /\ Self(mapped) \in Nat
  BY <1>0, <1>1, <1>3, NamesType DEF VolumeTyped, IsRoot
<1>5. CASE c = mapped
  <2>1. LiveNamesSurfaced = {}
    BY <1>2, <1>3, <1>5
  <2> QED  BY <2>1, FS_EmptySet
<1>6. CASE c # mapped
  <2>1. Self(mapped) < Self(c)
    BY <1>0, <1>1, <1>3, <1>4, <1>6 DEF BlocksFresh
  <2>2. torn
    BY <1>0, <1>1, <1>4, <2>1 DEF MappedHighest
  <2>3. PICK name \in Entries : LiveNames \subseteq Names(c) \cup {name}
    BY <1>0, <1>1, <2>1 DEF OrphansClose
  <2>4. LiveNamesSurfaced \subseteq {name}
    BY <1>2, <2>3
  <2>5. Cardinality(LiveNamesSurfaced) <= 1
    <3>1. IsFiniteSet({name}) /\ Cardinality({name}) = 1
      BY FS_Singleton
    <3> QED  BY <2>4, <3>1, FS_Subset
  <2> QED  BY <2>2, <2>5
<1> QED  BY <1>5, <1>6

(***************************************************************************)
(* Of a directory of one leaf no name it still holds is surfaced when its  *)
(* last update completed, and at most one when it was torn, however many   *)
(* were torn before it (forensic/src/lib.rs:524-533, 584-589).             *)
(***************************************************************************)
THEOREM TornUpdateSurfacesOneName == Spec => []TornSurfacesOneName
  BY RecoveryInvHolds, OneNameTorn, PTL

-----------------------------------------------------------------------------
LEMMA DroppedFound == RecoveryInv => DroppedNamesRecovered
<1> SUFFICES ASSUME RecoveryInv, Scan!Returned, ~torn,
                    NEW c \in Scan!RootPages(image), c \notin LiveClusters,
                    NEW name \in Range(image[c].entries), name \notin LiveNames
             PROVE  \E i \in DOMAIN out : out[i].at = c /\ name \in out[i].names
  BY DEF DroppedNamesRecovered
<1>0. /\ VolumeTyped /\ BlocksFresh /\ TreeLive /\ MappedHighest
      /\ update = Idle
  BY ReturnedScan DEF RecoveryInv, VolumeInv
<1>1. PICK m \in Cluster :
          /\ IsRoot(m)
          /\ \A d \in Cluster : IsRoot(d) => Self(d) <= Self(m)
          /\ current.self = Self(m) /\ Range(current.names) = Names(m)
  BY ReturnedScan
<1>2. IsRoot(mapped) /\ mapped \in Cluster
  BY <1>0 DEF TreeLive, VolumeTyped
<1>3. \A d \in Cluster : IsRoot(d) => Self(d) \in Nat
  BY <1>0, NamesType DEF VolumeTyped, IsRoot
<1>4. m = mapped
  BY <1>0, <1>1, <1>2, <1>3 DEF MappedHighest, BlocksFresh
<1>5. Range(current.names) \subseteq LiveNames
  BY <1>0, <1>1, <1>4, LiveNamesType DEF TreeLive
<1>6. IsRoot(c) /\ c \in Cluster /\ c # mapped
  BY DEF Scan!RootPages, Scan!MsbClusters, Scan!Cluster, Cluster, IsRoot, LiveClusters
<1>7. Self(c) < current.self
  BY <1>0, <1>1, <1>3, <1>4, <1>6 DEF BlocksFresh
<1>8. name \in Names(c) \ Range(current.names)
  BY <1>5 DEF Names
<1>9. c \in StalePages
  BY <1>6, <1>7, <1>8 DEF StalePages
<1>10. PICK i \in DOMAIN out : out[i].at = c
  BY <1>9, ReturnedScan
<1> QED  BY <1>8, <1>10, ReturnedScan

(***************************************************************************)
(* When the last update completed, every name a superseded page still      *)
(* holds and the directory does not is surfaced from that page, for any    *)
(* number of leaves (forensic/src/lib.rs:535-538).                         *)
(***************************************************************************)
THEOREM DroppedNamesAreRecovered == Spec => []DroppedNamesRecovered
  BY RecoveryInvHolds, DroppedFound, PTL
=============================================================================
