------------------------------ MODULE ImageAudit ------------------------------
(***************************************************************************)
(* audit_image (forensic/src/lib.rs:333-451): boot record, geometry,       *)
(* superblock, checkpoint set, then a sweep of the resident MSB+ pages,    *)
(* each stage reached only when the one before lets it.                    *)
(*                                                                         *)
(* The headers are read as VolumeHeaders says; the superblock's self-block *)
(* is the exception, which the audit reads itself.                         *)
(***************************************************************************)
EXTENDS VolumeHeaders, Sequences

CONSTANTS
    PageSize,         \* REFS_METADATA_PAGE_SIZE
    MaxSaneCluster,   \* MAX_SANE_CLUSTER_SIZE
    Band              \* clusters of a container, as the driver that wrote the volume has them

ASSUME AuditAssumption == {PageSize, MaxSaneCluster, Band} \subseteq Nat \ {0}

VARIABLES
    stage,    \* what audit_image does next
    at,       \* the cluster the sweep is at
    out       \* the anomalies so far

auditVars == <<stage, at, out>>

Anomaly ==
    [kind : {"boot_signature", "geometry", "supb_self_block", "checkpoints"}]
    \cup [kind : {"msb_self_block"}, recorded : Nat, cluster : Nat]

AuditTypeOK ==
    /\ stage \in {"boot", "geometry", "superblock", "checkpoints", "sweep", "done"}
    /\ at \in 0 .. MediumClusters
    /\ out \in Seq(Anomaly)

AuditInit ==
    /\ stage = "boot"
    /\ at = 0
    /\ out = << >>

Report(anomaly) == out' = Append(out, anomaly)

-----------------------------------------------------------------------------
(***************************************************************************)
(* An unreadable boot record is reported only when it is the signature     *)
(* that is wrong, which it is too when the image is too short for it; one  *)
(* that stops between the signature and the last field is not.             *)
(***************************************************************************)
BootParsed == BootSector(len).status = "ok"

RejectSignature ==
    /\ stage = "boot"
    /\ ~SignatureRead(len)
    /\ Report([kind |-> "boot_signature"])
    /\ stage' = "done"
    /\ UNCHANGED <<medium, len, at>>

LeaveUnusable ==
    /\ stage = "boot"
    /\ SignatureRead(len)
    /\ ~BootParsed
    /\ stage' = "done"
    /\ UNCHANGED <<medium, len, at, out>>

AcceptBoot ==
    /\ stage = "boot"
    /\ BootParsed
    /\ stage' = "geometry"
    /\ UNCHANGED <<medium, len, at, out>>

SaneCluster == 0 < medium.clusterSize /\ medium.clusterSize <= MaxSaneCluster

RejectGeometry_sweeping ==
    /\ stage = "geometry"
    /\ ~SaneCluster
    /\ Report([kind |-> "geometry"])
    /\ stage' = "superblock"
    /\ UNCHANGED <<medium, len, at>>

RejectGeometry ==
    /\ stage = "geometry"
    /\ ~SaneCluster
    /\ Report([kind |-> "geometry"])
    /\ stage' = "done"
    /\ UNCHANGED <<medium, len, at>>

AcceptGeometry ==
    /\ stage = "geometry"
    /\ SaneCluster
    /\ stage' = "superblock"
    /\ UNCHANGED <<medium, len, at, out>>

-----------------------------------------------------------------------------
\* The open-ended header slice, and the signature at its start.
HeaderLen == len - SuperblockOffset

SuperblockSeen_unsigned == HeaderLen >= 0
SuperblockSeen == HeaderLen >= 0 /\ SupbRead(HeaderLen)

\* le_u64 of the self-block: zero when the image ends before it does.
RecordedSelf == IF SelfBlockEnd <= HeaderLen THEN medium.self ELSE 0

NoSuperblock ==
    /\ stage = "superblock"
    /\ ~SuperblockSeen
    /\ stage' = "sweep"
    /\ UNCHANGED <<medium, len, at, out>>

SuperblockInPlace ==
    /\ stage = "superblock"
    /\ SuperblockSeen
    /\ RecordedSelf = SuperblockCluster
    /\ stage' = "checkpoints"
    /\ UNCHANGED <<medium, len, at, out>>

SuperblockMoved ==
    /\ stage = "superblock"
    /\ SuperblockSeen
    /\ RecordedSelf # SuperblockCluster
    /\ Report([kind |-> "supb_self_block"])
    /\ stage' = "checkpoints"
    /\ UNCHANGED <<medium, len, at>>

(***************************************************************************)
(* check_checkpoints: what locations_from_superblock fails on is not       *)
(* reported.                                                               *)
(***************************************************************************)
CheckpointsRead_unchecked == TRUE
CheckpointsRead == Locations(HeaderLen).status = "ok"

CheckpointsPass ==
    /\ stage = "checkpoints"
    /\ ~CheckpointsRead \/ Named > 0
    /\ stage' = "sweep"
    /\ UNCHANGED <<medium, len, at, out>>

CheckpointsEmpty ==
    /\ stage = "checkpoints"
    /\ CheckpointsRead
    /\ Named = 0
    /\ Report([kind |-> "checkpoints"])
    /\ stage' = "sweep"
    /\ UNCHANGED <<medium, len, at>>

-----------------------------------------------------------------------------
\* sweep_resident_self_blocks.
Ceiling == len \div medium.clusterSize

WholePage(c) == c * medium.clusterSize + PageSize <= len

\* Only a self-block below the ceiling claims a cluster of this image.
Misplaced_off_by_one(c) ==
    medium.page[c] <= Ceiling /\ medium.page[c] # c
Misplaced(c) ==
    medium.page[c] < Ceiling /\ medium.page[c] # c

Sweeping == stage = "sweep" /\ at < Ceiling /\ WholePage(at)

SweepPast_stopping ==
    /\ Sweeping
    /\ medium.page[at] = NoPage
    /\ at' = Ceiling
    /\ UNCHANGED <<medium, len, stage, out>>

SweepPast ==
    /\ Sweeping
    /\ medium.page[at] = NoPage
    /\ at' = at + 1
    /\ UNCHANGED <<medium, len, stage, out>>

SweepQuiet ==
    /\ Sweeping
    /\ medium.page[at] # NoPage
    /\ ~Misplaced(at)
    /\ at' = at + 1
    /\ UNCHANGED <<medium, len, stage, out>>

SweepFlag_unsigned ==
    /\ Sweeping
    /\ Misplaced(at)
    /\ Report([kind |-> "msb_self_block", recorded |-> medium.page[at], cluster |-> at])
    /\ at' = at + 1
    /\ UNCHANGED <<medium, len, stage>>

SweepFlag ==
    /\ Sweeping
    /\ medium.page[at] # NoPage
    /\ Misplaced(at)
    /\ Report([kind |-> "msb_self_block", recorded |-> medium.page[at], cluster |-> at])
    /\ at' = at + 1
    /\ UNCHANGED <<medium, len, stage>>

\* The clusters are exhausted, or the page at this one runs past the image.
EndSweep_waiting ==
    /\ stage = "sweep"
    /\ at = Ceiling
    /\ stage' = "done"
    /\ UNCHANGED <<medium, len, at, out>>

EndSweep ==
    /\ stage = "sweep"
    /\ at = Ceiling \/ ~WholePage(at)
    /\ stage' = "done"
    /\ UNCHANGED <<medium, len, at, out>>

AuditNext ==
    \/ RejectSignature \/ LeaveUnusable \/ AcceptBoot
    \/ RejectGeometry \/ AcceptGeometry
    \/ NoSuperblock \/ SuperblockInPlace \/ SuperblockMoved
    \/ CheckpointsPass \/ CheckpointsEmpty
    \/ SweepPast \/ SweepQuiet \/ SweepFlag \/ EndSweep

-----------------------------------------------------------------------------
\* audit_crc_range, on the first n bytes of the superblock and a range of them.
CrcAnomaly(n, start, end) ==
    IF VerifyCrc32c(n, start, end) = "mismatch" THEN {"metadata_crc"} ELSE {}

-----------------------------------------------------------------------------
Reported(kind) == \E i \in DOMAIN out : out[i].kind = kind

(***************************************************************************)
(* Nothing past the boot record is judged unless the boot record and the   *)
(* cluster size are good: "parsing SUPB/geometry off a non-ReFS image      *)
(* would fabricate anomalies from noise" (forensic/src/lib.rs:336-339), so *)
(* a rejected image yields exactly one anomaly.                            *)
(***************************************************************************)
OneVerdictOnRejection ==
    ~(BootParsed /\ SaneCluster) =>
        /\ Len(out) <= 1
        /\ \A i \in DOMAIN out : out[i].kind \in {"boot_signature", "geometry"}

(***************************************************************************)
(* The sweep flags every whole MSB+ page on the image's whole clusters     *)
(* that claims another of them, each once, in order, and flags nothing     *)
(* else: stopping at the first page that runs past the image loses none,   *)
(* whatever the cluster size is to the page size                           *)
(* (forensic/src/lib.rs:422-451).                                          *)
(***************************************************************************)
SweepIsExact ==
    LET flagged == {i \in DOMAIN out : out[i].kind = "msb_self_block"}
        pages   == {c \in 0 .. MediumClusters - 1 :
                       /\ medium.page[c] # NoPage
                       /\ WholePage(c)
                       /\ (c + 1) * medium.clusterSize <= len}
    IN  /\ \A i, j \in flagged : i < j => out[i].cluster < out[j].cluster
        /\ \A i \in flagged : out[i].recorded = medium.page[out[i].cluster]
        /\ stage = "done" /\ BootParsed /\ SaneCluster =>
              {out[i].cluster : i \in flagged} =
                  {c \in pages : /\ medium.page[c] # c
                                 /\ (medium.page[c] + 1) * medium.clusterSize <= len}

(***************************************************************************)
(* A checkpoint verdict is never made from a short buffer: it says the     *)
(* superblock on the medium names no checkpoint, and a longer image of     *)
(* the same medium gets it too (forensic/src/lib.rs:403-415,               *)
(* core/src/checkpoint.rs:70-104).                                         *)
(***************************************************************************)
CheckpointVerdictIsReal ==
    Reported("checkpoints") => /\ Named = 0 /\ medium.supb
                               /\ CountEnd <= HeaderLen

(***************************************************************************)
(* A volume as its driver leaves it.  Every page sits where its container  *)
(* is, container 0 at cluster 0; the superblock is in place and names a    *)
(* checkpoint; a cluster holds a block header as far as its self-block.    *)
(***************************************************************************)
CleanVolume ==
    /\ medium.refs /\ medium.fsrs /\ SaneCluster
    /\ SelfBlockEnd <= medium.clusterSize
    /\ medium.supb => medium.self = SuperblockCluster /\ medium.count > 0
    /\ \A c \in DOMAIN medium.page :
          LET v == medium.page[c]
          IN  /\ v # NoPage /\ v < Band => c = v
              /\ \A d \in DOMAIN medium.page :
                    LET w == medium.page[d]
                    IN  v # NoPage /\ w # NoPage /\ v \div Band = w \div Band
                            => c - d = v - w

(***************************************************************************)
(* A slice of a clean volume that ends on a cluster boundary inside the    *)
(* first band gets no verdict at all once the boot record is read          *)
(* (forensic/src/lib.rs:329 and 386-392).                                  *)
(***************************************************************************)
CleanSliceIsQuiet ==
    /\ CleanVolume
    /\ BootParsed
    /\ len % medium.clusterSize = 0
    /\ len <= Band * medium.clusterSize
    => out = << >>
=============================================================================
