----------------------------- MODULE VolumeHeaders -----------------------------
(***************************************************************************)
(* The headers on the way into a volume, as their parsers answer for the   *)
(* first n bytes of a medium: BootSector::parse and require_v3 (boot.rs),  *)
(* Superblock::parse_at and MetadataBlockRef::parse (superblock.rs),       *)
(* MetaBlock::parse and verify_crc32c (metablock.rs),                      *)
(* Checkpoint::locations_from_superblock (checkpoint.rs).                  *)
(*                                                                         *)
(* What matters here is where the image ends, so lengths and offsets are   *)
(* byte counts, in the scaled layout the constants describe.  The image is *)
(* the first `len` bytes of the medium; the parsers take their length as   *)
(* an argument, so that what a longer image would say can be stated.       *)
(***************************************************************************)
EXTENDS Integers

CONSTANTS
    Media,            \* the media an image may be taken of
    MaxLen,           \* bound: the longest image
    BootSignatureEnd, BootFsrsEnd, BootEnd,     \* 11, 20 and 72 in the code
    SignatureEnd, SelfBlockEnd,                 \* 4 and 40
    V3HeaderEnd, CountEnd,                      \* 80 and 120
    RefSize,          \* 8, the bytes of one checkpoint block number
    SuperblockCluster,    \* REFS_SUPERBLOCK_CLUSTER, 30
    MaxCheckpoints,       \* MAX_CHECKPOINTS
    MediumClusters        \* clusters of a medium

\* No MSB+ page starts at a cluster; no byte of the superblock is damaged.
NoPage   == -1
NoDamage == -1

(***************************************************************************)
(* refs, fsrs: the two boot signatures are there.  v3: the major version.  *)
(* clusterSize: bytes per sector times sectors per cluster.  supb: a SUPB  *)
(* signature starts at cluster 30, with its self-block and its checkpoint  *)
(* list; damage: a byte of it changed since its checksums were taken.      *)
(* page: the self-block of the MSB+ page at each cluster.                  *)
(***************************************************************************)
Medium == [refs : BOOLEAN, fsrs : BOOLEAN, v3 : BOOLEAN, clusterSize : Nat, supb : BOOLEAN,
           self : Nat, refsOffset : Nat, count : Nat, damage : Nat \cup {NoDamage},
           page : [0 .. MediumClusters - 1 -> Nat \cup {NoPage}]]

ASSUME HeadersAssumption ==
    /\ Media \subseteq Medium
    /\ MaxLen \in Nat /\ MediumClusters \in Nat /\ MaxCheckpoints \in Nat \ {0}
    /\ {BootSignatureEnd, BootFsrsEnd, BootEnd, SignatureEnd, SelfBlockEnd, V3HeaderEnd,
        CountEnd, SuperblockCluster} \subseteq Nat
    /\ 0 < BootSignatureEnd /\ BootSignatureEnd < BootFsrsEnd /\ BootFsrsEnd < BootEnd
    /\ 0 < SignatureEnd /\ SignatureEnd < SelfBlockEnd /\ SelfBlockEnd < V3HeaderEnd
    /\ V3HeaderEnd < CountEnd
    /\ RefSize \in Nat \ {0}

VARIABLES
    medium,   \* the bytes, never written
    len       \* image.len()

\* The errors the header parsers give, and an answer that is none.
RefsError ==
    [status : {"BadSignature", "BadFsrs", "BadBlockSignature", "UnsupportedVersion"}]
    \cup [status : {"Truncated"}, need : Nat, have : Nat]
Ok(value) == [status |-> "ok", value |-> value]
Refused(why) == [status |-> why]
Truncated(need, have) == [status |-> "Truncated", need |-> need, have |-> have]

-----------------------------------------------------------------------------
(***************************************************************************)
(* BootSector::parse: identity before length, and bytes past the end count *)
(* as zero, so an image too short for a signature has a bad one.           *)
(***************************************************************************)
SignatureRead(n) == BootSignatureEnd <= n /\ medium.refs
FsrsRead(n)      == BootFsrsEnd <= n /\ medium.fsrs

BootSector(n) ==
    CASE ~SignatureRead(n) -> Refused("BadSignature")
      [] SignatureRead(n) /\ ~FsrsRead(n) -> Refused("BadFsrs")
      [] SignatureRead(n) /\ FsrsRead(n) /\ n < BootEnd -> Truncated(BootEnd, n)
      [] OTHER -> Ok(medium.clusterSize)

\* BootSector::require_v3.
RequireV3 == IF medium.v3 THEN Ok(0) ELSE Refused("UnsupportedVersion")

-----------------------------------------------------------------------------
(***************************************************************************)
(* The two parsers of a metadata-block header, over the first n bytes from *)
(* its start: they differ in the header length they insist on.  With a     *)
(* cluster size of zero the superblock would be at offset 0, where the     *)
(* boot record is.                                                         *)
(***************************************************************************)
SuperblockOffset == SuperblockCluster * medium.clusterSize
SupbRead(n)      == SignatureEnd <= n /\ medium.supb /\ medium.clusterSize > 0

BlockHeader_unbased(n, headerEnd) ==
    CASE ~SupbRead(n) -> Refused("BadBlockSignature")
      [] SupbRead(n) /\ n < headerEnd -> Truncated(headerEnd, SuperblockOffset + n)
      [] OTHER -> Ok(medium.self)
BlockHeader(n, headerEnd) ==
    CASE ~SupbRead(n) -> Refused("BadBlockSignature")
      [] SupbRead(n) /\ n < headerEnd -> Truncated(headerEnd, n)
      [] OTHER -> Ok(medium.self)

MetadataBlockRef(n) == BlockHeader(n, SelfBlockEnd)
MetaBlock(n)        == BlockHeader(n, V3HeaderEnd)

\* Superblock::parse_at: an offset at the very end leaves an empty slice.
Superblock(n) ==
    IF SuperblockOffset > n THEN Truncated(SuperblockOffset, n)
    ELSE MetadataBlockRef(n - SuperblockOffset)

(***************************************************************************)
(* Checkpoint::locations_from_superblock, over the first n bytes of the    *)
(* superblock: the count is clamped first, then the references it          *)
(* announces must be there.  What the block numbers are is not looked at.  *)
(***************************************************************************)
Named == IF medium.count <= MaxCheckpoints THEN medium.count ELSE MaxCheckpoints

Locations(n) ==
    LET need == medium.refsOffset + Named * RefSize
    IN  CASE n < CountEnd -> Truncated(CountEnd, n)
          [] n >= CountEnd /\ n < need -> Truncated(need, n)
          [] OTHER -> Ok(Named)

(***************************************************************************)
(* MetaBlock::verify_crc32c, over the first n bytes of the superblock: no  *)
(* verdict on a range that is not there, otherwise whether the checksum is *)
(* the stored one.  `stored` is that of the undamaged range, and one       *)
(* changed byte always changes a CRC-32C.                                  *)
(***************************************************************************)
VerifyCrc32c_clamped(n, start, end) ==
    IF start > end THEN "none"
    ELSE IF medium.damage \in start .. end - 1 \/ end > n THEN "mismatch" ELSE "match"
VerifyCrc32c(n, start, end) ==
    IF start > end \/ end > n THEN "none"
    ELSE IF medium.damage \in start .. end - 1 THEN "mismatch" ELSE "match"
=============================================================================
