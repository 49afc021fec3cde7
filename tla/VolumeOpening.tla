----------------------------- MODULE VolumeOpening -----------------------------
(***************************************************************************)
(* A caller opens a volume: the header parsers one after the other, each   *)
(* on the same image, the first error ending it.  The caller is outside    *)
(* the crates; the order is the one core/tests/boot.rs:52-63 and 139-149   *)
(* and core/tests/minstore.rs go through.                                  *)
(***************************************************************************)
EXTENDS VolumeHeaders, Sequences

Headers == <<"boot", "version", "superblock", "block", "checkpoints">>

VARIABLES
    reading,   \* how many of the headers have been accepted
    refusal    \* the error that ended it, or an ok answer

openVars == <<reading, refusal>>

\* The bytes of the image from the start of the superblock on.
FromSuperblock(n) == n - SuperblockOffset

\* What the parser of one header answers for an image of n bytes.
Parse(header, n) ==
    CASE header = "boot"        -> BootSector(n)
      [] header = "version"     -> RequireV3
      [] header = "superblock"  -> Superblock(n)
      [] header = "block"       -> MetaBlock(FromSuperblock(n))
      [] header = "checkpoints" -> Locations(FromSuperblock(n))

OpenInit == reading = 0 /\ refusal = Ok(0)

Opened    == reading = Len(Headers)
Undecided == refusal.status = "ok" /\ ~Opened
Answer    == Parse(Headers[reading + 1], len)

AcceptHeader ==
    /\ Undecided
    /\ Answer.status = "ok"
    /\ reading' = reading + 1
    /\ UNCHANGED <<medium, len, refusal>>

RefuseHeader ==
    /\ Undecided
    /\ Answer.status # "ok"
    /\ refusal' = Answer
    /\ UNCHANGED <<medium, len, reading>>

OpenNext == AcceptHeader \/ RefuseHeader

-----------------------------------------------------------------------------
Accepted == {Headers[h] : h \in 1 .. reading}

(***************************************************************************)
(* Growing the image never takes back what was read: a header accepted in  *)
(* a short image is accepted in every longer image of the medium and says  *)
(* the same, and a checksum verdict on a range of the superblock stays     *)
(* what it was.  Nothing that is answered was read as zero past the end    *)
(* (core/src/bytes.rs:5-8, boot.rs:102-111, metablock.rs:134-144).         *)
(***************************************************************************)
ReadingOutlastsTheImage ==
    \A n \in len .. MaxLen :
        /\ \A h \in Accepted : Parse(h, n) = Parse(h, len)
        /\ "superblock" \in Accepted => \A start \in {0, SelfBlockEnd}, end \in 0 .. CountEnd :
              LET verdict == VerifyCrc32c(FromSuperblock(len), start, end)
              IN  verdict # "none" => VerifyCrc32c(FromSuperblock(n), start, end) = verdict

(***************************************************************************)
(* "need" and "have" of a Truncated error count from the same place: the   *)
(* image that is longer by the difference is not refused for that length   *)
(* again, and no shorter one would have done (core/src/error.rs:14-24).    *)
(***************************************************************************)
TruncatedNamesWhatIsMissing ==
    refusal.status = "Truncated" =>
        LET missing == refusal.need - refusal.have
            Longer(by) == Parse(Headers[reading + 1], len + by)
        IN  /\ missing > 0
            /\ \A by \in 0 .. missing - 1 :
                  /\ Longer(by).status = "Truncated"
                  /\ Longer(by).need = refusal.need
            /\ Longer(missing).status = "Truncated" => Longer(missing).need > refusal.need
=============================================================================
