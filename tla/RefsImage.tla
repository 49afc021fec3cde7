------------------------------ MODULE RefsImage ------------------------------
(***************************************************************************)
(* The vocabulary every other module shares: a ReFS image as the readers   *)
(* of refs-core and refs-forensic see it.                                  *)
(*                                                                         *)
(* The code works on one immutable byte slice.  Every metadata structure   *)
(* it looks for starts on a 4096-byte cluster boundary, so a byte offset   *)
(* of the code is a cluster number here.  A metadata page is 16 KiB, i.e.  *)
(* PageClusters clusters, and may be read only when all of it lies inside  *)
(* the image: `off + REFS_METADATA_PAGE_SIZE <= image.len()` is Fits.      *)
(*                                                                         *)
(* An image maps each cluster to the MSB+ page whose signature starts      *)
(* there, or to NoPage when the four bytes are anything else.  A page      *)
(* keeps what the code reads of it and nothing more:                       *)
(*   self    the self-block-number at header offset 0x20                   *)
(*   table   the table identifier in the page header                       *)
(*   parses  whether MinstorePage::parse accepts its node header           *)
(*   branch  the node-type flag 0x01                                       *)
(*   children  per row, the first eight value bytes read as a block number, *)
(*           NoBlock where the value is shorter                            *)
(*   entries  the directory entries its 0x30 rows decode to, in row order  *)
(* The same rows may carry both readings; the code chooses by the branch   *)
(* flag alone, so a page keeps both.                                       *)
(***************************************************************************)
EXTENDS Integers, Sequences, FiniteSets, Functions

CONSTANTS
    Clusters,       \* image.len() / 4096
    PageClusters,   \* REFS_METADATA_PAGE_SIZE / 4096 (4 in the code)
    Tables,         \* table identifiers a page may carry
    Entries,        \* decoded directory entries a 0x30 row may carry
    NoPage          \* a cluster that does not start with "MSB+"

\* None, for a block number or a cluster.
NoBlock   == -1
NoCluster == -1

Page == [self : Nat, table : Tables, parses : BOOLEAN, branch : BOOLEAN,
         children : Seq(Nat \cup {NoBlock}), entries : Seq(Entries)]

Cluster == 0 .. Clusters - 1
Image   == [Cluster -> Page \cup {NoPage}]

ASSUME SizesAssumption  == Clusters \in Nat /\ PageClusters \in Nat \ {0}
ASSUME NoPageAssumption == NoPage \notin Page

(***************************************************************************)
(* The whole page starting at cluster c lies inside the image              *)
(* (container.rs:222, directory.rs:243 and 280, forensic lib.rs:631-635).  *)
(***************************************************************************)
Fits(c) == c + PageClusters <= Clusters

(***************************************************************************)
(* The clusters where a scan finds a whole MSB+ page                       *)
(* (resident_msb_pages, forensic lib.rs:605-616).                          *)
(***************************************************************************)
MsbClusters(img) == {c \in Cluster : Fits(c) /\ img[c] # NoPage}
=============================================================================
