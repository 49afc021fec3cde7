---------------------------- MODULE ContainerBase ----------------------------
(***************************************************************************)
(* Virtual block numbers and the container base map, as pure operators     *)
(* (core/src/container.rs).                                                *)
(*                                                                         *)
(* A virtual block is (container index, offset in band).  The physical     *)
(* base cluster of a container is inferred from the resident pages: a page *)
(* sitting at cluster c with self-block s says that container s \div band  *)
(* starts at cluster c - s % band.  ResidentBase is the map that scan must *)
(* produce, stated without the scan; module ContainerResolver is the scan. *)
(***************************************************************************)
EXTENDS RefsImage

CONSTANT MaxCluster   \* the largest c for which c * 4096 does not overflow u64

ASSUME MaxClusterAssumption == MaxCluster \in Nat

(***************************************************************************)
(* decompose_virtual_block: a zero band size passes the block through      *)
(* instead of dividing by zero.                                            *)
(***************************************************************************)
Container(v, band)    == IF band = 0 THEN v ELSE v \div band
OffsetInBand(v, band) == IF band = 0 THEN 0 ELSE v % band

(***************************************************************************)
(* phys_cluster.checked_sub(off_in_band): a page whose offset in band      *)
(* exceeds its physical cluster implies no base at all.                    *)
(***************************************************************************)
ImpliesBase(img, band, c) == OffsetInBand(img[c].self, band) <= c

ImpliedBase_ignoring_offset(img, band, c) == c
ImpliedBase(img, band, c) == c - OffsetInBand(img[c].self, band)

(***************************************************************************)
(* The resident pages that witness container idx below cluster `limit`,    *)
(* and the base map in which the lowest witness of each container decides. *)
(***************************************************************************)
Witnesses(img, band, limit, idx) ==
    {c \in MsbClusters(img) : /\ c < limit
                              /\ Container(img[c].self, band) = idx
                              /\ ImpliesBase(img, band, c)}

Witnessed(img, band, limit) ==
    {Container(img[c].self, band) :
        c \in {d \in MsbClusters(img) : d < limit /\ ImpliesBase(img, band, d)}}

FirstWitness(img, band, limit, idx) ==
    CHOOSE c \in Witnesses(img, band, limit, idx) :
        \A d \in Witnesses(img, band, limit, idx) : c <= d

BaseBelow(img, band, limit) ==
    [idx \in Witnessed(img, band, limit) |->
        ImpliedBase(img, band, FirstWitness(img, band, limit, idx))]

\* No container has been witnessed.
EmptyBase == [idx \in {} |-> NoCluster]

ResidentBase(img, band) ==
    IF band = 0 THEN EmptyBase ELSE BaseBelow(img, band, Clusters)

(***************************************************************************)
(* ContainerResolver::resolve_virtual, as a cluster: the container must be *)
(* in the map and neither the sum nor the byte offset may overflow.        *)
(***************************************************************************)
ResolveVirtual_base_only(base, band, v) ==
    IF Container(v, band) \in DOMAIN base THEN base[Container(v, band)] ELSE NoCluster

ResolveVirtual_whole_block(base, band, v) ==
    IF Container(v, band) \in DOMAIN base THEN base[Container(v, band)] + v ELSE NoCluster

ResolveVirtual(base, band, v) ==
    LET idx == Container(v, band)
    IN  IF /\ idx \in DOMAIN base
           /\ base[idx] + OffsetInBand(v, band) <= MaxCluster
        THEN base[idx] + OffsetInBand(v, band)
        ELSE NoCluster
=============================================================================
