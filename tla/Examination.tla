------------------------------ MODULE Examination ------------------------------
(***************************************************************************)
(* An image is opened with the readers of refs-core and then audited with  *)
(* refs-forensic.  The audit uses some of the readers and reads the rest   *)
(* itself, and it does not depend on how the opening went.                 *)
(***************************************************************************)
EXTENDS VolumeOpening, ImageAudit

vars == <<medium, len, openVars, auditVars>>

TypeOK ==
    /\ medium \in Medium
    /\ len \in 0 .. MaxLen
    /\ reading \in 0 .. Len(Headers)
    /\ refusal \in RefsError \cup {Ok(0)}
    /\ AuditTypeOK

Init ==
    /\ medium \in Media
    /\ len \in 0 .. MaxLen
    /\ medium.clusterSize > 0 => len <= MediumClusters * medium.clusterSize
    /\ OpenInit
    /\ AuditInit

Open  == OpenNext /\ UNCHANGED auditVars
Audit == ~Undecided /\ AuditNext /\ UNCHANGED openVars

Next == Open \/ Audit

\* One thread, no waiting: an enabled step is taken.
Spec == Init /\ [][Next]_vars /\ WF_vars(Next)

-----------------------------------------------------------------------------
(***************************************************************************)
(* The readers and the auditor, which parse the same headers with code of  *)
(* their own, never contradict each other about an image: a header the     *)
(* readers accept gets a verdict exactly when what it says is wrong, one   *)
(* they refuse gets none, except the superblock that is cut short, and a   *)
(* range of a cut superblock gets a CRC anomaly only if the whole one does *)
(* (forensic/src/lib.rs:340-384 and 468-483, core/src/superblock.rs:70-98, *)
(* core/src/metablock.rs:107-153).                                         *)
(***************************************************************************)
RefusedAs(why) == refusal.status = why

AuditAgreesWithReaders ==
    stage = "done" =>
        /\ Reported("boot_signature") <=> RefusedAs("BadSignature")
        /\ "boot" \notin Accepted => \A i \in DOMAIN out : out[i].kind = "boot_signature"
        /\ "superblock" \in Accepted /\ SaneCluster =>
              (Reported("supb_self_block") <=> Superblock(len).value # SuperblockCluster)
        /\ "version" \in Accepted /\ "superblock" \notin Accepted =>
              /\ ~Reported("checkpoints")
              /\ Reported("supb_self_block") => RefusedAs("Truncated")
        /\ "block" \in Accepted => MetaBlock(HeaderLen) = Superblock(len)
        /\ Opened /\ SaneCluster =>
              (Reported("checkpoints") <=> Locations(HeaderLen).value = 0)
        /\ \A start \in {0, SelfBlockEnd}, end \in 0 .. CountEnd :
              "superblock" \in Accepted /\ CrcAnomaly(HeaderLen, start, end) # {} =>
                  \A n \in HeaderLen .. CountEnd : VerifyCrc32c(n, start, end) = "mismatch"

(***************************************************************************)
(* The audit of a finite image returns (forensic/src/lib.rs:333-394).      *)
(***************************************************************************)
AuditReturns == <>(stage = "done")
=============================================================================
