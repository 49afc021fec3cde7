-------------------------- MODULE ContainerResolver --------------------------
(***************************************************************************)
(* ContainerResolver::from_resident_image (core/src/container.rs:207-246)  *)
(* as the cluster scan it is: one step per cluster inspected.              *)
(***************************************************************************)
EXTENDS ContainerBase

CONSTANTS
    Images,   \* the images the scan may be given
    Bands     \* the band sizes a caller may pass, 0 (a malformed boot sector) included

ASSUME ScanAssumption == Images \subseteq Image /\ Bands \subseteq Nat

VARIABLES
    image,    \* the byte slice, never written
    band,     \* band_clusters
    c,        \* the cluster the loop is at
    base,     \* container index -> physical base cluster (the Vec of pairs)
    done      \* the constructor has returned

vars == <<image, band, c, base, done>>

TypeOK ==
    /\ image \in Images
    /\ band \in Bands
    /\ c \in 0 .. Clusters
    /\ DOMAIN base \subseteq Nat
    /\ \A idx \in DOMAIN base : base[idx] \in Cluster
    /\ done \in BOOLEAN

Init ==
    /\ image \in Images
    /\ band \in Bands
    /\ c = 0
    /\ base = EmptyBase
    /\ done = FALSE

\* The loop body is reached for cluster c: the page there is whole.
Inspecting == ~done /\ band # 0 /\ c < Clusters /\ Fits(c)

Idx == Container(image[c].self, band)

\* band_clusters == 0: the early return with an empty map.
ZeroBand ==
    /\ ~done
    /\ band = 0
    /\ done' = TRUE
    /\ UNCHANGED <<image, band, c, base>>

\* The range is exhausted, or the first cluster whose page overruns the image.
StopScan_unguarded ==   \* the slice index panics: the call never returns
    /\ ~done
    /\ band # 0
    /\ c = Clusters
    /\ done' = TRUE
    /\ UNCHANGED <<image, band, c, base>>

StopScan ==
    /\ ~done
    /\ band # 0
    /\ c = Clusters \/ ~Fits(c)
    /\ done' = TRUE
    /\ UNCHANGED <<image, band, c, base>>

\* No MSB+ signature here.
SkipCluster ==
    /\ Inspecting
    /\ image[c] = NoPage
    /\ c' = c + 1
    /\ UNCHANGED <<image, band, base, done>>

\* checked_sub failed: the page is inconsistent with its place.
SkipInconsistent_stopping ==
    /\ Inspecting
    /\ image[c] # NoPage
    /\ ~ImpliesBase(image, band, c)
    /\ done' = TRUE
    /\ UNCHANGED <<image, band, c, base>>

SkipInconsistent ==
    /\ Inspecting
    /\ image[c] # NoPage
    /\ ~ImpliesBase(image, band, c)
    /\ c' = c + 1
    /\ UNCHANGED <<image, band, base, done>>

\* An earlier page already decided this container.
AlreadyKnown_forgotten == FALSE
AlreadyKnown == Idx \in DOMAIN base

KeepFirst ==
    /\ Inspecting
    /\ image[c] # NoPage
    /\ ImpliesBase(image, band, c)
    /\ AlreadyKnown
    /\ c' = c + 1
    /\ UNCHANGED <<image, band, base, done>>

LearnBase_unchecked ==
    /\ Inspecting
    /\ image[c] # NoPage
    /\ ~AlreadyKnown
    /\ base' = [i \in DOMAIN base \cup {Idx} |->
                  IF i = Idx THEN ImpliedBase(image, band, c) ELSE base[i]]
    /\ c' = c + 1
    /\ UNCHANGED <<image, band, done>>

LearnBase ==
    /\ Inspecting
    /\ image[c] # NoPage
    /\ ImpliesBase(image, band, c)
    /\ ~AlreadyKnown
    /\ base' = [i \in DOMAIN base \cup {Idx} |->
                  IF i = Idx THEN ImpliedBase(image, band, c) ELSE base[i]]
    /\ c' = c + 1
    /\ UNCHANGED <<image, band, done>>

Next ==
    \/ ZeroBand
    \/ StopScan
    \/ SkipCluster
    \/ SkipInconsistent
    \/ KeepFirst
    \/ LearnBase

(***************************************************************************)
(* The loop runs to its end on the caller's thread; nothing can preempt    *)
(* it for ever, so every enabled step is eventually taken.                 *)
(***************************************************************************)
Spec == Init /\ [][Next]_vars /\ WF_vars(Next)

-----------------------------------------------------------------------------
(***************************************************************************)
(* The map under construction is, at every step, the map of the lowest     *)
(* consistent witness of each container among the clusters already         *)
(* scanned; at the end it is ResidentBase.  This is what lets DirectoryWalk *)
(* use ResidentBase in place of the scan (container.rs:219-241).           *)
(***************************************************************************)
BaseIsFirstWitness ==
    IF band = 0 THEN base = EmptyBase
    ELSE /\ base = BaseBelow(image, band, c)
         /\ done => base = ResidentBase(image, band)

(***************************************************************************)
(* Whatever block is asked for, a resolved cluster lies less than one band *)
(* past the end of the image, also when self-blocks lie about their place: *)
(* what is learned is where a page of the image is, never what one claims  *)
(* (container.rs:235, 262-267).                                            *)
(***************************************************************************)
ResolvedNearImage ==
    \A idx \in DOMAIN base :
        LET last == idx * band + band - 1    \* the block with the largest offset
        IN  ResolveVirtual(base, band, last) < Clusters + band

(***************************************************************************)
(* The premise the module documentation calls ground truth                 *)
(* (container.rs:45-55): if all the resident pages of a container imply    *)
(* one base, then every one of those pages is found exactly where it sits. *)
(* The premise is about the volume; that it suffices is about the code.    *)
(***************************************************************************)
AgreementResolves ==
    done /\ band # 0 =>
        \A p \in MsbClusters(image) :
            LET idx   == Container(image[p].self, band)
                peers == Witnesses(image, band, Clusters, idx)
            IN  /\ p \in peers
                /\ p <= MaxCluster
                /\ \A q \in peers :
                      ImpliedBase(image, band, q) = ImpliedBase(image, band, p)
                => ResolveVirtual(base, band, image[p].self) = p

(***************************************************************************)
(* What one relocated, stale or hostile page can do.  Take any page away   *)
(* and scan what is left: the map loses or moves the base of at most one   *)
(* container, the one that page records, and only when the page was its    *)
(* lowest witness.  A page inconsistent with its place costs nothing: the  *)
(* loop goes on past it (container.rs:232-237), and so does it past a page *)
(* whose container is known (container.rs:238-240).                        *)
(***************************************************************************)
Without(p) == [image EXCEPT ![p] = NoPage]

OnePageMovesOneContainer ==
    done /\ band # 0 =>
        \A p \in MsbClusters(image) :
            LET rest == ResidentBase(Without(p), band)
            IN  \A idx \in DOMAIN base \cup DOMAIN rest :
                    \/ /\ idx \in DOMAIN base \cap DOMAIN rest
                       /\ base[idx] = rest[idx]
                    \/ /\ p \in Witnesses(image, band, Clusters, idx)
                       /\ \A q \in Witnesses(image, band, Clusters, idx) : p <= q

(***************************************************************************)
(* The scan of a finite image returns (container.rs:219-241).              *)
(***************************************************************************)
ScanReturns == <>done
=============================================================================
