----------------------------- MODULE MCImageAudit -----------------------------
(***************************************************************************)
(* Instances for TLC: six clusters, a band of four, the superblock at      *)
(* cluster 2; cluster sizes of zero, half a page, a page, two pages and    *)
(* one too large; an image may end at any byte.                            *)
(***************************************************************************)
EXTENDS Examination

\* Two clusters hold pages, anywhere, claiming any block; the others hold none.
MCPages ==
    {[c \in 0 .. MediumClusters - 1 |->
        IF c = pair[1] THEN pair[3] ELSE IF c = pair[2] THEN pair[4] ELSE NoPage] :
            pair \in ({1, 3, 4} \X {3, 4, 5} \X {0, 1, 3, 4, 8} \X {3, 4, 5, 9})}
    \cup {[c \in 0 .. MediumClusters - 1 |-> NoPage]}

MCBoot(refs, fsrs, v3, size) ==
    [refs |-> refs, fsrs |-> fsrs, v3 |-> v3, clusterSize |-> size]
MCSupb(supb, self, offset, count, damage) ==
    [supb |-> supb, self |-> self, refsOffset |-> offset, count |-> count, damage |-> damage]

MCMedium(boot, sb, pages) ==
    [refs |-> boot.refs, fsrs |-> boot.fsrs, v3 |-> boot.v3,
     clusterSize |-> boot.clusterSize, supb |-> sb.supb, self |-> sb.self,
     refsOffset |-> sb.refsOffset, count |-> sb.count, damage |-> sb.damage, page |-> pages]

MCSizes == {0, 2, 4, 8, 9}
MCSound == MCSupb(TRUE, SuperblockCluster, 3, 1, NoDamage)

\* Every boot record with one superblock, every superblock with one boot record,
\* every placement of the pages with the sound ones.
MCMedia ==
    {MCMedium(MCBoot(refs, fsrs, v3, size), MCSound, pages) :
        refs \in BOOLEAN, fsrs \in BOOLEAN, v3 \in BOOLEAN, size \in MCSizes,
        pages \in {[c \in 0 .. MediumClusters - 1 |-> IF c = 3 THEN 1 ELSE NoPage]}}
    \cup
    {MCMedium(MCBoot(TRUE, TRUE, TRUE, 4), MCSupb(supb, self, offset, count, damage), pages) :
        supb \in BOOLEAN, self \in {0, 2, 3}, offset \in {0, 3, 40}, count \in 0 .. 3,
        damage \in {NoDamage, 2},
        pages \in {[c \in 0 .. MediumClusters - 1 |-> NoPage]}}
    \cup
    {MCMedium(MCBoot(TRUE, TRUE, TRUE, size), MCSound, pages) :
        size \in {2, 4, 8}, pages \in MCPages}

-----------------------------------------------------------------------------
(***************************************************************************)
(* What the documentation says of any clean image.                         *)
(*                                                                         *)
(* "A clean image yields an empty vector" (forensic/src/lib.rs:329), also  *)
(* when the image is longer than the first band.                           *)
(***************************************************************************)
CleanImageIsQuiet ==
    /\ CleanVolume
    /\ BootParsed
    /\ len % medium.clusterSize = 0
    => out = << >>

(***************************************************************************)
(* "Callers gate on this before trusting any structure beyond the boot     *)
(* VBR" (core/src/boot.rs:156-157): of a volume whose version require_v3   *)
(* refuses, nothing beyond the boot record is judged.                      *)
(***************************************************************************)
AuditGatesOnVersion ==
    RequireV3.status # "ok" =>
        \A i \in DOMAIN out : out[i].kind \in {"boot_signature", "geometry"}
=============================================================================
