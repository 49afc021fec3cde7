----------------------------- MODULE ResidueScan -----------------------------
(***************************************************************************)
(* recover_residue (forensic/src/lib.rs:545-601): two passes over the      *)
(* resident pages.  The first finds the current version of the root        *)
(* directory table, the second surfaces the names that lower-numbered      *)
(* pages hold and the current one does not.                                *)
(*                                                                         *)
(* The code keeps its current versions in a list keyed by table id; both   *)
(* passes skip every table but the root directory's, so the list has at    *)
(* most one element and is a record or Nothing here.  An entry is its      *)
(* name, and what is surfaced of a page is the set of those names.         *)
(***************************************************************************)
EXTENDS RefsImage

CONSTANTS
    Images,       \* the images a scan may be given
    RootTable,    \* REFS_ROOT_DIRECTORY_TABLE_ID
    Nothing       \* no current version yet

ASSUME ResidueAssumption == Images \subseteq Image /\ RootTable \in Tables

VARIABLES
    image,     \* the byte slice, never written by the scan
    pass,      \* 1, 2, or 3 once the function has returned
    at,        \* the cluster the page iterator is at
    current,   \* the highest self-block so far and the names carved from it
    out        \* the stale pages surfaced so far

scanVars == <<pass, at, current, out>>
vars == <<image, scanVars>>

Current   == [self : Nat, names : Seq(Entries)]
StalePage == [self : Nat, table : Tables, at : Cluster, names : SUBSET Entries]

ASSUME NothingAssumption == Nothing \notin Current

ScanTypeOK ==
    /\ pass \in 1 .. 3
    /\ at \in 0 .. Clusters
    /\ current \in Current \cup {Nothing}
    /\ out \in Seq(StalePage)

ScanInit ==
    /\ pass = 1
    /\ at = 0
    /\ current = Nothing
    /\ out = << >>

(***************************************************************************)
(* carve_directory_entries: a malformed node header carves to nothing, and *)
(* a branch page is carved like a leaf.                                    *)
(***************************************************************************)
Carve(page) == IF page.parses THEN page.entries ELSE << >>

Dropped_kept(page, cur) == Range(Carve(page))
Dropped(page, cur) == Range(Carve(page)) \ Range(cur.names)

\* The pages either pass acts on; the iterator yields the others to no effect.
RootPages_any_table(img) == MsbClusters(img)
RootPages(img) == {c \in MsbClusters(img) : img[c].table = RootTable}

Scanning_past_end(n) == pass = n /\ at <= Clusters
Scanning(n) == pass = n /\ at < Clusters
Visiting(n) == Scanning(n) /\ at \in RootPages(image)
Advance     == at' = at + 1

SkipPage ==
    /\ Scanning(1) \/ Scanning(2)
    /\ at \notin RootPages(image)
    /\ Advance
    /\ UNCHANGED <<image, pass, current, out>>

-----------------------------------------------------------------------------
\* Pass 1.
Record == current' = [self |-> image[at].self, names |-> Carve(image[at])]

RecordFirst ==
    /\ Visiting(1)
    /\ current = Nothing
    /\ Record
    /\ Advance
    /\ UNCHANGED <<image, pass, out>>

RecordHigher_number_only ==
    /\ Visiting(1)
    /\ current # Nothing
    /\ image[at].self > current.self
    /\ current' = [current EXCEPT !.self = image[at].self]
    /\ Advance
    /\ UNCHANGED <<image, pass, out>>

RecordHigher ==
    /\ Visiting(1)
    /\ current # Nothing
    /\ image[at].self > current.self
    /\ Record
    /\ Advance
    /\ UNCHANGED <<image, pass, out>>

KeepCurrent ==
    /\ Visiting(1)
    /\ current # Nothing
    /\ image[at].self <= current.self
    /\ Advance
    /\ UNCHANGED <<image, pass, current, out>>

EndPass1_no_rewind ==
    /\ pass = 1
    /\ at = Clusters
    /\ pass' = 2
    /\ UNCHANGED <<image, at, current, out>>

EndPass1 ==
    /\ pass = 1
    /\ at = Clusters
    /\ pass' = 2
    /\ at' = 0
    /\ UNCHANGED <<image, current, out>>

-----------------------------------------------------------------------------
\* Pass 2.
NotStale == image[at].self >= current.self

SkipCurrent ==
    /\ Visiting(2)
    /\ NotStale
    /\ Advance
    /\ UNCHANGED <<image, pass, current, out>>

SkipSurvived ==
    /\ Visiting(2)
    /\ ~NotStale
    /\ Dropped(image[at], current) = {}
    /\ Advance
    /\ UNCHANGED <<image, pass, current, out>>

Surface ==
    /\ Visiting(2)
    /\ ~NotStale
    /\ Dropped(image[at], current) # {}
    /\ out' = Append(out, [self |-> image[at].self, table |-> image[at].table,
                           at |-> at, names |-> Dropped(image[at], current)])
    /\ Advance
    /\ UNCHANGED <<image, pass, current>>

EndPass2_stuck ==
    /\ pass = 2
    /\ at > Clusters
    /\ pass' = 3
    /\ UNCHANGED <<image, at, current, out>>

EndPass2 ==
    /\ pass = 2
    /\ at = Clusters
    /\ pass' = 3
    /\ UNCHANGED <<image, at, current, out>>

ScanNext ==
    \/ SkipPage
    \/ RecordFirst
    \/ RecordHigher
    \/ KeepCurrent
    \/ EndPass1
    \/ SkipCurrent
    \/ SkipSurvived
    \/ Surface
    \/ EndPass2

Returned == pass = 3

Init == image \in Images /\ ScanInit

\* Two loops on the caller's thread, never kept from their next step.
Spec == Init /\ [][ScanNext]_vars /\ WF_vars(ScanNext)

-----------------------------------------------------------------------------
\* The current version, stated without the scan: the lowest of the pages with
\* the highest self-block.
IsCurrentPage(img, c) ==
    /\ c \in RootPages(img)
    /\ \A d \in RootPages(img) :
          img[d].self < img[c].self \/ (img[d].self = img[c].self /\ c <= d)

(***************************************************************************)
(* Once pass 1 is over, `current` is the highest-numbered root page, the   *)
(* first of them where several carry that number, and its names with it;   *)
(* it is Nothing only if there is no root page at all, so the arm of pass  *)
(* 2 marked cov:unreachable (lib.rs:576-579) is unreachable.               *)
(***************************************************************************)
CurrentIsHighest ==
    pass >= 2 =>
        IF RootPages(image) = {} THEN current = Nothing
        ELSE \E c \in RootPages(image) :
                /\ IsCurrentPage(image, c)
                /\ current = [self |-> image[c].self, names |-> Carve(image[c])]

(***************************************************************************)
(* What has been surfaced is exactly what lib.rs:535-538 describes: among  *)
(* the clusters pass 2 has gone through, in order and once each, the root  *)
(* pages numbered below the current one that hold a name it does not, with *)
(* those names.                                                            *)
(***************************************************************************)
ResidueIsExact ==
    LET past  == IF pass = 1 THEN 0 ELSE at
        stale == {c \in RootPages(image) :
                     /\ c < past
                     /\ image[c].self < current.self
                     /\ \E name \in Range(Carve(image[c])) : name \notin Range(current.names)}
    IN  /\ {out[i].at : i \in DOMAIN out} = stale
        /\ \A i, j \in DOMAIN out : i < j => out[i].at < out[j].at
        /\ \A i \in DOMAIN out :
              /\ out[i].self = image[out[i].at].self
              /\ out[i].names = Range(Carve(image[out[i].at])) \ Range(current.names)

(***************************************************************************)
(* The two passes over a finite image return (lib.rs:545-601).             *)
(***************************************************************************)
ResidueReturns == <>Returned
=============================================================================
