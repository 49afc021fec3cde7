--------------------------- MODULE ResidueRecovery ---------------------------
(***************************************************************************)
(* recover_residue run on what an allocate-on-write volume leaves on the   *)
(* medium: any history of updates, then the scan of the image.             *)
(***************************************************************************)
EXTENDS CowVolume

CONSTANT Nothing

VARIABLES
    imaged,     \* the volume is no longer written: its image has been taken
    pass, at, current, out

vars == <<volumeVars, imaged, pass, at, current, out>>

\* The scan takes whatever image the history leaves.
Scan == INSTANCE ResidueScan WITH Images <- Image

ASSUME NoneAssumption == Nothing \notin Scan!Current

Init ==
    /\ VolumeInit
    /\ Scan!ScanInit
    /\ imaged = FALSE

Write ==
    /\ ~imaged
    /\ VolumeNext
    /\ UNCHANGED <<imaged, pass, at, current, out>>

\* The image is taken between two updates.
TakeImage ==
    /\ ~imaged
    /\ update = Idle
    /\ imaged' = TRUE
    /\ UNCHANGED <<volumeVars, pass, at, current, out>>

Recover ==
    /\ imaged
    /\ Scan!ScanNext
    /\ UNCHANGED <<leaf, mapped, elsewhere, nextBlock, update, torn, imaged>>

Next == Write \/ TakeImage \/ Recover

Spec == Init /\ [][Next]_vars

-----------------------------------------------------------------------------
(***************************************************************************)
(* On a volume whose last update completed, the page the object table maps *)
(* the directory to is never carved as stale, however clusters were reused *)
(* and whatever earlier updates were torn (forensic/src/lib.rs:524-533).   *)
(***************************************************************************)
MappedNeverStale ==
    Scan!Returned /\ ~torn => \A i \in DOMAIN out : out[i].at # mapped

(***************************************************************************)
(* Of a directory of one leaf no name it still holds is reported as        *)
(* residue, and a torn update adds at most one: the orphan it leaves is    *)
(* taken for the current version and differs from it by one name, however  *)
(* many updates were torn before it (forensic/src/lib.rs:524-533, 584-589).*)
(***************************************************************************)
LiveNamesSurfaced == (UNION {out[i].names : i \in DOMAIN out}) \cap LiveNames

TornSurfacesOneName ==
    Scan!Returned /\ SingleLeaf =>
        Cardinality(LiveNamesSurfaced) <= IF torn THEN 1 ELSE 0

(***************************************************************************)
(* The point of the scan (forensic/src/lib.rs:535-538): every name that is *)
(* still on the medium in a superseded page, and no longer in the          *)
(* directory, is surfaced from that page.                                  *)
(***************************************************************************)
DroppedNamesRecovered ==
    Scan!Returned /\ ~torn =>
        \A c \in Scan!RootPages(image) \ LiveClusters :
            \A name \in Range(image[c].entries) \ LiveNames :
                \E i \in DOMAIN out : out[i].at = c /\ name \in out[i].names

-----------------------------------------------------------------------------
(***************************************************************************)
(* "a name still present in the current directory is not residue"          *)
(* (forensic/src/lib.rs:584-585), however many pages the directory has, on *)
(* a volume whose last update completed.  With two leaves the last page    *)
(* written is the branch page, which holds no names; compared with it a    *)
(* live leaf, the one just written included, looks dropped.                *)
(***************************************************************************)
LiveNamesNeverCarved ==
    Scan!Returned /\ ~torn =>
        \A i \in DOMAIN out : out[i].names \cap LiveNames = {}
=============================================================================
