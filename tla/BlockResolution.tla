--------------------------- MODULE BlockResolution ---------------------------
(***************************************************************************)
(* How the directory walk turns a block number into a page                 *)
(* (core/src/directory.rs:233-339): the container base map first, then the *)
(* resident heuristic, each accepted only if the page found there carries  *)
(* the requested self-block.                                               *)
(***************************************************************************)
EXTENDS ContainerBase

CONSTANTS
    Band,         \* DEFAULT_BAND_CLUSTERS, what walk_directory always uses
    VirtualBase   \* RESIDENT_VIRTUAL_BASE

ASSUME AddressingAssumption == Band \in Nat \ {0} /\ VirtualBase \in Nat

(***************************************************************************)
(* resident_block_offset: the first candidate cluster whose page fits.  A  *)
(* block at or above VirtualBase has two candidates, in this order.  The   *)
(* two early returns on overflow need no case of their own: a cluster      *)
(* whose byte offset overflows does not fit the image either.              *)
(***************************************************************************)
ResidentCluster(block) ==
    IF block >= VirtualBase /\ Fits(block - VirtualBase) THEN block - VirtualBase
    ELSE IF Fits(block) THEN block
    ELSE NoCluster

(***************************************************************************)
(* page_answers_block: the page there is whole, is an MSB+ page, and       *)
(* records the block it is asked for.                                      *)
(***************************************************************************)
AnswersBlock_unread(img, c, block) ==
    /\ c # NoCluster
    /\ Fits(c)
    /\ img[c] # NoPage
AnswersBlock(img, c, block) ==
    /\ c # NoCluster
    /\ Fits(c)
    /\ img[c] # NoPage
    /\ img[c].self = block

(***************************************************************************)
(* resolve_block_offset.                                                   *)
(***************************************************************************)
ResolveBlock(img, base, block) ==
    LET mapped   == ResolveVirtual(base, Band, block)
        resident == ResidentCluster(block)
    IN  IF AnswersBlock(img, mapped, block) THEN mapped
        ELSE IF AnswersBlock(img, resident, block) THEN resident
        ELSE NoCluster

(***************************************************************************)
(* read_page: the page for a block, or NoPage (UnresolvedVirtualBlock).    *)
(* Its Truncated branch needs a resolved page that does not fit, which     *)
(* AnswersBlock excludes.                                                  *)
(***************************************************************************)
ReadPage(img, base, block) ==
    LET c == ResolveBlock(img, base, block)
    IN  IF c = NoCluster THEN NoPage ELSE img[c]

(***************************************************************************)
(* Where the genuine pages of a block sit, however one might look for them.*)
(***************************************************************************)
Copies(img, block) == {c \in MsbClusters(img) : img[c].self = block}
=============================================================================
