------------------------------ MODULE CowVolume ------------------------------
(***************************************************************************)
(* The allocate-on-write volume recover_residue reasons about.  The writer *)
(* is the ReFS driver, which is not part of this repository: the module    *)
(* models what forensic/src/lib.rs:524-533 says of it.  An update writes a *)
(* NEW page at a NEW, higher block number and re-points the tree at it,    *)
(* leaving the old page behind; a cluster no live page occupies may be     *)
(* reused.  The root directory is modelled update by update; with several  *)
(* leaves an update also rewrites the branch page above them, which        *)
(* carries the same table identifier, as the two-level trees of            *)
(* core/tests/descent.rs do.  Another directory takes block numbers and    *)
(* clusters from it, and may hold the same names.                          *)
(***************************************************************************)
EXTENDS RefsImage, SequencesExt

CONSTANTS
    RootTable,     \* table identifier of the root directory's pages
    OtherTable,    \* and of another directory's
    OtherListings, \* what that directory may hold
    LeafCounts,    \* how many leaf pages the directory may have
    MaxBlock       \* bound: updates stop once block numbers reach it

ASSUME VolumeAssumption ==
    /\ {RootTable, OtherTable} \subseteq Tables
    /\ RootTable # OtherTable
    /\ OtherListings \subseteq SUBSET Entries
    /\ LeafCounts \subseteq Nat \ {0}
    /\ \A n \in LeafCounts : n + 2 < Clusters
    /\ MaxBlock \in Nat
    /\ IsFiniteSet(Entries)

\* A cluster here is a place for a page: two pages never overlap.
ASSUME PlaceAssumption == PageClusters = 1

VARIABLES
    image,      \* what is on the medium
    leaf,       \* leaf slot -> the cluster of its live page
    mapped,     \* the cluster of the page the object table maps the directory to
    elsewhere,  \* the cluster of the other directory's page, once it has one
    nextBlock,  \* the next block number to allocate
    update,     \* the update under way: its slot, the clusters written so far
    torn        \* history: the last update did not complete

volumeVars == <<image, leaf, mapped, elsewhere, nextBlock, update, torn>>

Slot == DOMAIN leaf
SingleLeaf == Len(leaf) = 1
Idle == [slot |-> 0, written |-> << >>]

PageOf(table, block, names, rows) ==
    [self |-> block, table |-> table, parses |-> TRUE, branch |-> rows # << >>,
     children |-> rows, entries |-> SetToSeq(names)]

NewPage(block, names, rows) == PageOf(RootTable, block, names, rows)

\* The live root directory.
NamesIn(slot) == Range(image[leaf[slot]].entries)
LiveNames     == UNION {NamesIn(slot) : slot \in Slot}
LiveClusters  == Range(leaf) \cup {mapped}

\* The first leaves sit on the first clusters, empty; with more than one, the
\* branch page follows them.
FirstImage(n) ==
    [c \in Cluster |->
        IF c < n THEN NewPage(c, {}, << >>)
        ELSE IF c = n /\ n > 1 THEN NewPage(c, {}, [slot \in 1 .. n |-> slot - 1])
        ELSE NoPage]

VolumeInit ==
    /\ \E n \in LeafCounts :
          /\ leaf = [slot \in 1 .. n |-> slot - 1]
          /\ mapped = IF n = 1 THEN 0 ELSE n
          /\ image = FirstImage(n)
          /\ nextBlock = n + 1
    /\ elsewhere = {}
    /\ update = Idle
    /\ torn = FALSE

\* A place an update may write to: nothing the current trees need.
Free == Cluster \ (LiveClusters \cup elsewhere \cup Range(update.written))

\* A new version of one leaf: a name is created, or one is deleted.
WriteLeaf(slot, names) ==
    /\ update = Idle
    /\ nextBlock < MaxBlock
    /\ \E name \in Entries :
          \/ name \notin LiveNames /\ names = NamesIn(slot) \cup {name}
          \/ name \in NamesIn(slot) /\ names = NamesIn(slot) \ {name}
    /\ \E c \in Free :
          /\ image' = [image EXCEPT ![c] = NewPage(nextBlock, names, << >>)]
          /\ update' = [slot |-> slot, written |-> <<c>>]
    /\ nextBlock' = nextBlock + 1
    /\ UNCHANGED <<leaf, mapped, elsewhere, torn>>

\* The branch page that points at the new leaf.
WriteBranch ==
    /\ ~SingleLeaf
    /\ Len(update.written) = 1
    /\ \E c \in Free :
          /\ image' = [image EXCEPT ![c] = NewPage(nextBlock, {},
                          [slot \in Slot |->
                              IF slot = update.slot THEN image[update.written[1]].self
                              ELSE image[leaf[slot]].self])]
          /\ update' = [update EXCEPT !.written = Append(@, c)]
    /\ nextBlock' = nextBlock + 1
    /\ UNCHANGED <<leaf, mapped, elsewhere, torn>>

\* The object table is re-pointed and the update is complete.
Repoint ==
    /\ Len(update.written) = IF SingleLeaf THEN 1 ELSE 2
    /\ leaf' = [leaf EXCEPT ![update.slot] = update.written[1]]
    /\ mapped' = update.written[Len(update.written)]
    /\ update' = Idle
    /\ torn' = FALSE
    /\ UNCHANGED <<image, elsewhere, nextBlock>>

\* Power is lost first: what was written stays, the tree is as it was.
Tear ==
    /\ update # Idle
    /\ update' = Idle
    /\ torn' = TRUE
    /\ UNCHANGED <<image, leaf, mapped, elsewhere, nextBlock>>

\* The other directory is updated; the update completes, or power is lost first.
UpdateElsewhere(names) ==
    /\ update = Idle
    /\ nextBlock < MaxBlock
    /\ \E c \in Free :
          /\ image' = [image EXCEPT ![c] = PageOf(OtherTable, nextBlock, names, << >>)]
          /\ elsewhere' \in {elsewhere, {c}}
    /\ nextBlock' = nextBlock + 1
    /\ UNCHANGED <<leaf, mapped, update, torn>>

VolumeNext ==
    \/ \E slot \in Slot, names \in SUBSET Entries : WriteLeaf(slot, names)
    \/ WriteBranch
    \/ Repoint
    \/ Tear
    \/ \E names \in OtherListings : UpdateElsewhere(names)
=============================================================================
