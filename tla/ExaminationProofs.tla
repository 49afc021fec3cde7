--------------------------- MODULE ExaminationProofs ---------------------------
(***************************************************************************)
(* Theorems about opening and auditing an image, for every medium, length, *)
(* cluster size and header layout.                                         *)
(***************************************************************************)
EXTENDS Examination, TLAPS

\* A whole cluster below the last one ends inside the image.
LEMMA WholeClusters ==
    ASSUME NEW n \in Nat, NEW size \in Nat \ {0}, NEW c \in Nat
    PROVE  /\ n \div size \in Nat
           /\ c < n \div size <=> (c + 1) * size <= n
<1> DEFINE q == n \div size
<1>1. q \in Nat /\ q * size <= n /\ n < (q + 1) * size
  OBVIOUS
<1> HIDE DEF q
<1>2. ASSUME c < q PROVE (c + 1) * size <= n
  <2>1. (c + 1) * size <= q * size
    BY <1>1, <1>2
  <2> QED  BY <1>1, <2>1
<1>3. ASSUME (c + 1) * size <= n PROVE c < q
  <2>1. (c + 1) * size < (q + 1) * size
    BY <1>1, <1>3
  <2> QED  BY <1>1, <2>1
<1> QED  BY <1>1, <1>2, <1>3 DEF q

LEMMA CeilingBound ==
    ASSUME NEW n \in Nat, NEW size \in Nat \ {0}, NEW m \in Nat, n <= m * size
    PROVE  n \div size <= m
<1>1. ~(m < n \div size)
  <2>1. (m + 1) * size > m * size
    OBVIOUS
  <2> QED  BY <2>1, WholeClusters
<1> QED  BY <1>1, WholeClusters

-----------------------------------------------------------------------------
(***************************************************************************)
(* The parsers' answers, for the first n bytes of any medium.              *)
(***************************************************************************)
LEMMA LayoutType ==
    ASSUME medium \in Medium
    PROVE  /\ medium.clusterSize \in Nat /\ SuperblockOffset \in Nat
           /\ medium.self \in Nat /\ medium.count \in Nat /\ medium.refsOffset \in Nat
           /\ Named \in Nat /\ Named * RefSize \in Nat
           /\ Named = 0 <=> medium.count = 0
           /\ SuperblockCluster \in Nat
           /\ {BootSignatureEnd, BootFsrsEnd, BootEnd, SignatureEnd, SelfBlockEnd, V3HeaderEnd,
               CountEnd} \subseteq Nat
           /\ 0 < BootSignatureEnd /\ BootSignatureEnd < BootFsrsEnd /\ BootFsrsEnd < BootEnd
           /\ 0 < SignatureEnd /\ SignatureEnd < SelfBlockEnd /\ SelfBlockEnd < V3HeaderEnd
           /\ V3HeaderEnd < CountEnd
<1>1. medium.clusterSize \in Nat /\ SuperblockOffset \in Nat
  BY HeadersAssumption DEF Medium, SuperblockOffset
<1>2. Named \in Nat /\ (Named = 0 <=> medium.count = 0)
  BY HeadersAssumption DEF Medium, Named
<1>3. Named * RefSize \in Nat
  BY <1>2, HeadersAssumption
<1> QED  BY <1>1, <1>2, <1>3, HeadersAssumption DEF Medium

LEMMA BootAnswers ==
    ASSUME medium \in Medium, NEW n \in Int
    PROVE  LET answer == BootSector(n)
           IN  /\ answer.status \in {"BadSignature", "BadFsrs", "Truncated", "ok"}
               /\ answer.status = "ok" <=> medium.refs /\ medium.fsrs /\ BootEnd <= n
               /\ answer.status = "ok" => answer = Ok(medium.clusterSize)
               /\ answer.status = "BadSignature" <=> ~SignatureRead(n)
               /\ answer.status \in {"BadSignature", "BadFsrs"} => answer = Refused(answer.status)
               /\ answer.status = "Truncated" =>
                      /\ answer = Truncated(BootEnd, n) /\ n < BootEnd /\ n > 0
                      /\ medium.refs /\ medium.fsrs /\ BootFsrsEnd <= n
  BY LayoutType DEF BootSector, SignatureRead, FsrsRead, Ok, Refused, Truncated

LEMMA BlockAnswers ==
    ASSUME medium \in Medium, NEW n \in Int, NEW headerEnd \in Nat, SignatureEnd < headerEnd
    PROVE  LET answer == BlockHeader(n, headerEnd)
           IN  /\ answer.status \in {"BadBlockSignature", "Truncated", "ok"}
               /\ answer.status = "ok" <=> medium.supb /\ medium.clusterSize > 0 /\ headerEnd <= n
               /\ answer.status = "ok" => answer = Ok(medium.self)
               /\ answer.status = "BadBlockSignature" => answer = Refused("BadBlockSignature")
               /\ answer.status = "Truncated" <=> SupbRead(n) /\ n < headerEnd
               /\ answer.status = "Truncated" => answer = Truncated(headerEnd, n) /\ n > 0
  BY LayoutType DEF BlockHeader, SupbRead, Ok, Refused, Truncated

LEMMA SuperblockAnswers ==
    ASSUME medium \in Medium, NEW n \in Nat
    PROVE  LET answer == Superblock(n)
               offset == SuperblockOffset
           IN  /\ answer.status \in {"BadBlockSignature", "Truncated", "ok"}
               /\ answer.status = "ok" <=> /\ medium.supb /\ medium.clusterSize > 0
                                           /\ offset + SelfBlockEnd <= n
               /\ answer.status = "ok" => answer = Ok(medium.self)
               /\ answer.status = "BadBlockSignature" => answer = Refused("BadBlockSignature")
               /\ n < offset => answer = Truncated(offset, n)
               /\ offset <= n => answer = BlockHeader(n - offset, SelfBlockEnd)
               /\ answer.status = "Truncated" /\ offset <= n =>
                      /\ SupbRead(n - offset) /\ n - offset < SelfBlockEnd
                      /\ answer = Truncated(SelfBlockEnd, n - offset) /\ n - offset > 0
<1> DEFINE offset == SuperblockOffset
<1>1. offset \in Nat /\ SelfBlockEnd \in Nat /\ SignatureEnd < SelfBlockEnd /\ n - offset \in Int
  BY LayoutType
<1>2. CASE n < offset
  BY <1>1, <1>2 DEF Superblock, Truncated
<1>3. CASE offset <= n
  <2>1. Superblock(n) = BlockHeader(n - offset, SelfBlockEnd)
    BY <1>1, <1>3 DEF Superblock, MetadataBlockRef
  <2>2. offset + SelfBlockEnd <= n <=> SelfBlockEnd <= n - offset
    BY <1>1
  <2> HIDE DEF offset
  <2> QED  BY <1>1, <1>3, <2>1, <2>2, BlockAnswers DEF offset
<1> QED  BY <1>1, <1>2, <1>3

LEMMA LocationsAnswers ==
    ASSUME medium \in Medium, NEW n \in Int
    PROVE  LET answer == Locations(n)
               need   == medium.refsOffset + Named * RefSize
           IN  /\ answer.status \in {"Truncated", "ok"}
               /\ answer.status = "ok" <=> CountEnd <= n /\ need <= n
               /\ answer.status = "ok" => answer = Ok(Named)
               /\ n < CountEnd => answer = Truncated(CountEnd, n)
               /\ CountEnd <= n /\ n < need => answer = Truncated(need, n)
  BY LayoutType DEF Locations, Ok, Truncated

-----------------------------------------------------------------------------
(***************************************************************************)
(* The opening: what was accepted parses in the image, and the error that  *)
(* ended it is the answer to the next header.                              *)
(***************************************************************************)
OpenTyped ==
    /\ medium \in Medium
    /\ len \in 0 .. MaxLen
    /\ reading \in 0 .. Len(Headers)
    /\ refusal \in RefsError \cup {Ok(0)}

HeadersRead == \A h \in 1 .. reading : Parse(Headers[h], len).status = "ok"

RefusalStands ==
    refusal.status # "ok" => reading < Len(Headers) /\ refusal = Answer

OpenInv == OpenTyped /\ HeadersRead /\ RefusalStands

LEMMA HeadersAre ==
    /\ Len(Headers) = 5
    /\ Headers[1] = "boot" /\ Headers[2] = "version" /\ Headers[3] = "superblock"
    /\ Headers[4] = "block" /\ Headers[5] = "checkpoints"
    /\ \A n : /\ Parse("boot", n) = BootSector(n)
             /\ Parse("version", n) = RequireV3
             /\ Parse("superblock", n) = Superblock(n)
             /\ Parse("block", n) = BlockHeader(n - SuperblockOffset, V3HeaderEnd)
             /\ Parse("checkpoints", n) = Locations(n - SuperblockOffset)
  BY DEF Headers, Parse, MetaBlock, FromSuperblock

LEMMA ReadingTyped ==
    ASSUME OpenTyped
    PROVE  /\ reading \in 0 .. 5 /\ len \in Nat /\ len <= MaxLen /\ MaxLen \in Nat
           /\ medium \in Medium /\ len - SuperblockOffset \in Int
           /\ SuperblockOffset \in Nat
  BY HeadersAre, HeadersAssumption, LayoutType DEF OpenTyped

\* What has been read by the time a header is accepted.
LEMMA AcceptedAre ==
    ASSUME OpenTyped, HeadersRead
    PROVE  /\ "boot" \in Accepted <=> reading >= 1
           /\ "version" \in Accepted <=> reading >= 2
           /\ "superblock" \in Accepted <=> reading >= 3
           /\ "block" \in Accepted <=> reading >= 4
           /\ "checkpoints" \in Accepted <=> reading >= 5
           /\ reading >= 1 => BootSector(len).status = "ok"
           /\ reading >= 2 => RequireV3.status = "ok"
           /\ reading >= 3 => Superblock(len).status = "ok"
           /\ reading >= 4 => BlockHeader(len - SuperblockOffset, V3HeaderEnd).status = "ok"
           /\ reading >= 5 => Locations(len - SuperblockOffset).status = "ok"
<1>1. reading \in 0 .. 5
  BY ReadingTyped
<1>2. Accepted = {h \in {"boot", "version", "superblock", "block", "checkpoints"} :
                     \/ h = "boot" /\ reading >= 1
                     \/ h = "version" /\ reading >= 2
                     \/ h = "superblock" /\ reading >= 3
                     \/ h = "block" /\ reading >= 4
                     \/ h = "checkpoints" /\ reading >= 5}
  BY <1>1, HeadersAre DEF Accepted
<1>3. \A h \in 1 .. 5 : reading >= h => Parse(Headers[h], len).status = "ok"
  BY <1>1 DEF HeadersRead
<1> QED  BY <1>2, <1>3, HeadersAre

LEMMA VersionAnswers ==
    RequireV3 = Ok(0) \/ RequireV3 = Refused("UnsupportedVersion")
  BY DEF RequireV3

\* An answer that is not ok is an error of the readers.
LEMMA AnswerType ==
    ASSUME OpenTyped, HeadersRead, Undecided, Answer.status # "ok"
    PROVE  Answer \in RefsError
<1>1. reading \in 0 .. 4
  BY ReadingTyped, HeadersAre DEF Undecided, Opened
<1>2. \A need, have \in Nat : Truncated(need, have) \in RefsError
  BY DEF Truncated, RefsError
<1>3. \A why \in {"BadSignature", "BadFsrs", "BadBlockSignature", "UnsupportedVersion"} :
          Refused(why) \in RefsError
  BY DEF Refused, RefsError
<1>4. CASE reading = 0
  <2>1. Answer = BootSector(len) /\ len \in Int /\ BootEnd \in Nat
    BY <1>4, HeadersAre, ReadingTyped, LayoutType DEF Answer
  <2> QED  BY <1>2, <1>3, <2>1, ReadingTyped, BootAnswers
<1>5. CASE reading = 1
  BY <1>3, <1>5, HeadersAre, VersionAnswers DEF Answer, Ok
<1>6. CASE reading = 2
  <2>1. Answer = Superblock(len) /\ SelfBlockEnd \in Nat
    BY <1>6, HeadersAre, ReadingTyped, LayoutType DEF Answer
  <2> QED  BY <1>2, <1>3, <2>1, ReadingTyped, SuperblockAnswers
<1>7. CASE reading = 3
  <2>1. Answer = BlockHeader(len - SuperblockOffset, V3HeaderEnd)
        /\ V3HeaderEnd \in Nat /\ SignatureEnd < V3HeaderEnd
    BY <1>7, HeadersAre, ReadingTyped, LayoutType DEF Answer
  <2> QED  BY <1>2, <1>3, <2>1, ReadingTyped, BlockAnswers
<1>8. CASE reading = 4
  <2>1. Answer = Locations(len - SuperblockOffset)
    BY <1>8, HeadersAre DEF Answer
  <2>2. Superblock(len).status = "ok"
    BY <1>8, AcceptedAre
  <2>3. len - SuperblockOffset \in Nat
    BY <2>2, ReadingTyped, SuperblockAnswers, LayoutType
  <2> QED  BY <1>2, <2>1, <2>3, ReadingTyped, LocationsAnswers, LayoutType
<1> QED  BY <1>1, <1>4, <1>5, <1>6, <1>7, <1>8

LEMMA SameParse ==
    ASSUME UNCHANGED <<medium, len>>
    PROVE  \A h : Parse(h, len)' = Parse(h, len)
  BY DEF Parse, BootSector, RequireV3, Superblock, MetadataBlockRef, MetaBlock, BlockHeader,
     Locations, SuperblockOffset, SupbRead, SignatureRead, FsrsRead, Named, FromSuperblock

LEMMA OpenKept ==
    ASSUME OpenInv, UNCHANGED <<medium, len, reading, refusal>>
    PROVE  OpenInv'
  BY SameParse DEF OpenInv, OpenTyped, HeadersRead, RefusalStands, Answer

LEMMA OpenStep == OpenInv /\ Open => OpenInv' /\ UNCHANGED <<medium, len>>
<1> SUFFICES ASSUME OpenInv, Open PROVE OpenInv' /\ UNCHANGED <<medium, len>>
  OBVIOUS
<1>0. OpenTyped /\ HeadersRead /\ RefusalStands /\ reading \in 0 .. 5 /\ Len(Headers) = 5
  BY ReadingTyped, HeadersAre DEF OpenInv
<1>1. CASE AcceptHeader
  <2>1. /\ UNCHANGED <<medium, len, refusal>> /\ reading' = reading + 1 /\ reading # 5
        /\ refusal.status = "ok" /\ Parse(Headers[reading + 1], len).status = "ok"
    BY <1>0, <1>1 DEF AcceptHeader, Undecided, Opened, Answer
  <2>2. \A h : Parse(h, len)' = Parse(h, len)
    BY <2>1, SameParse
  <2>3. HeadersRead'
    BY <1>0, <2>1, <2>2 DEF HeadersRead
  <2> QED  BY <1>0, <2>1, <2>3 DEF OpenInv, OpenTyped, RefusalStands
<1>2. CASE RefuseHeader
  <2>1. /\ UNCHANGED <<medium, len, reading>> /\ refusal' = Answer /\ reading # 5
        /\ Undecided /\ Answer.status # "ok"
    BY <1>0, <1>2 DEF RefuseHeader, Undecided, Opened
  <2>2. \A h : Parse(h, len)' = Parse(h, len)
    BY <2>1, SameParse
  <2>3. refusal' \in RefsError
    BY <1>0, <2>1, AnswerType
  <2>4. HeadersRead' /\ Answer' = Answer
    BY <1>0, <2>1, <2>2 DEF HeadersRead, Answer
  <2> QED  BY <1>0, <2>1, <2>3, <2>4 DEF OpenInv, OpenTyped, RefusalStands
<1> QED  BY <1>1, <1>2 DEF Open, OpenNext

-----------------------------------------------------------------------------
\* What a checksum says of a range that is there does not depend on the image.
LEMMA VerdictOutlasts ==
    ASSUME NEW m \in Int, NEW n \in Int, m <= n, NEW start \in Nat, NEW end \in Nat,
           VerifyCrc32c(m, start, end) # "none"
    PROVE  VerifyCrc32c(n, start, end) = VerifyCrc32c(m, start, end)
  BY DEF VerifyCrc32c

LEMMA OpenOutlasts == OpenInv => ReadingOutlastsTheImage
<1> SUFFICES ASSUME OpenInv, NEW n \in len .. MaxLen
             PROVE  /\ \A h \in Accepted : Parse(h, n) = Parse(h, len)
                    /\ \A start \in {0, SelfBlockEnd}, end \in 0 .. CountEnd :
                          LET verdict == VerifyCrc32c(FromSuperblock(len), start, end)
                          IN  verdict # "none" =>
                                  VerifyCrc32c(FromSuperblock(n), start, end) = verdict
  BY DEF ReadingOutlastsTheImage
<1>0. /\ OpenTyped /\ HeadersRead /\ medium \in Medium
      /\ len \in Nat /\ n \in Nat /\ len <= n /\ SuperblockOffset \in Nat
  BY ReadingTyped DEF OpenInv
<1> DEFINE past(m) == m - SuperblockOffset
<1>1. past(len) \in Int /\ past(n) \in Int /\ past(len) <= past(n)
  BY <1>0
<1>2. reading >= 1 => BootSector(n) = BootSector(len)
  BY <1>0, AcceptedAre, BootAnswers, LayoutType
<1>3. reading >= 3 => Superblock(n) = Superblock(len)
  BY <1>0, AcceptedAre, SuperblockAnswers, LayoutType
<1>4. reading >= 4 => BlockHeader(past(n), V3HeaderEnd) = BlockHeader(past(len), V3HeaderEnd)
  <2>1. V3HeaderEnd \in Nat /\ SignatureEnd < V3HeaderEnd /\ SignatureEnd \in Nat
    BY <1>0, LayoutType
  <2> QED  BY <1>0, <1>1, <2>1, AcceptedAre, BlockAnswers
<1>5. reading >= 5 => Locations(past(n)) = Locations(past(len))
  <2>1. medium.refsOffset + Named * RefSize \in Nat /\ CountEnd \in Nat
    BY <1>0, LayoutType
  <2> QED  BY <1>0, <1>1, <2>1, AcceptedAre, LocationsAnswers
<1>6. \A h \in Accepted : Parse(h, n) = Parse(h, len)
  <2>1. Accepted \subseteq {"boot", "version", "superblock", "block", "checkpoints"}
    BY <1>0, ReadingTyped, HeadersAre DEF Accepted
  <2> QED  BY <1>0, <1>2, <1>3, <1>4, <1>5, <2>1, AcceptedAre, HeadersAre
<1>7. \A start \in {0, SelfBlockEnd}, end \in 0 .. CountEnd :
          VerifyCrc32c(past(len), start, end) # "none" =>
              VerifyCrc32c(past(n), start, end) = VerifyCrc32c(past(len), start, end)
  BY <1>0, <1>1, VerdictOutlasts, LayoutType
<1> QED  BY <1>6, <1>7 DEF FromSuperblock

LEMMA OpenNamesMissing == OpenInv => TruncatedNamesWhatIsMissing
<1> DEFINE missing == refusal.need - refusal.have
           Longer(by) == Parse(Headers[reading + 1], len + by)
           Names == /\ missing > 0
                    /\ \A by \in 0 .. missing - 1 :
                          /\ Longer(by).status = "Truncated"
                          /\ Longer(by).need = refusal.need
                    /\ Longer(missing).status = "Truncated" =>
                          Longer(missing).need > refusal.need
<1> SUFFICES ASSUME OpenInv, refusal.status = "Truncated"
             PROVE  Names
  BY DEF TruncatedNamesWhatIsMissing
<1>0. /\ OpenTyped /\ HeadersRead /\ medium \in Medium /\ len \in Nat
      /\ SuperblockOffset \in Nat /\ reading \in 0 .. 4 /\ refusal = Answer
  BY ReadingTyped, HeadersAre DEF OpenInv, RefusalStands
<1>1. \A need, have : /\ Truncated(need, have).status = "Truncated"
                      /\ Truncated(need, have).need = need
                      /\ Truncated(need, have).have = have
  BY DEF Truncated
<1>2. ASSUME NEW need \in Int, NEW have \in Int, refusal = Truncated(need, have), have < need,
             \A by \in Nat : have + by < need => Longer(by) = Truncated(need, have + by),
             Longer(need - have).status = "Truncated" => Longer(need - have).need > need
      PROVE  Names
  <2> HIDE DEF Longer
  <2>1. missing = need - have /\ refusal.need = need
    BY <1>1, <1>2
  <2> QED  BY <1>1, <1>2, <2>1
<1> HIDE DEF Names
<1>3. CASE reading = 0
  <2>1. refusal = BootSector(len) /\ \A by \in Nat : Longer(by) = BootSector(len + by)
    BY <1>0, <1>3, HeadersAre DEF Answer
  <2>2. refusal = Truncated(BootEnd, len) /\ len < BootEnd
        /\ medium.refs /\ medium.fsrs /\ BootFsrsEnd <= len
    BY <1>0, <2>1, BootAnswers
  <2>3. \A by \in Nat : BootSector(len + by) = IF len + by < BootEnd
                                               THEN Truncated(BootEnd, len + by)
                                               ELSE Ok(medium.clusterSize)
    BY <1>0, <2>2, LayoutType DEF BootSector, SignatureRead, FsrsRead
  <2>4. BootEnd - len \in Nat /\ len + (BootEnd - len) = BootEnd /\ BootEnd \in Int
    BY <1>0, <2>2, LayoutType
  <2> HIDE DEF Longer
  <2>5. Longer(BootEnd - len) = Ok(medium.clusterSize)
    BY <2>1, <2>3, <2>4
  <2>6. \A by \in Nat : len + by < BootEnd => Longer(by) = Truncated(BootEnd, len + by)
    BY <2>1, <2>3
  <2>7. Longer(BootEnd - len).status # "Truncated"
    BY <2>5 DEF Ok
  <2> QED  BY <1>0, <1>2, <2>2, <2>4, <2>6, <2>7
<1>4. CASE reading = 1
  BY <1>0, <1>4, HeadersAre, VersionAnswers DEF Answer, Ok, Refused
<1>5. CASE reading = 2
  <2>1. refusal = Superblock(len) /\ \A by \in Nat : Longer(by) = Superblock(len + by)
    BY <1>0, <1>5, HeadersAre DEF Answer
  <2>2. CASE len < SuperblockOffset
    <3>1. refusal = Truncated(SuperblockOffset, len)
      BY <1>0, <2>1, <2>2, SuperblockAnswers
    <3>2. \A by \in Nat : len + by < SuperblockOffset =>
              Superblock(len + by) = Truncated(SuperblockOffset, len + by)
      BY <1>0, SuperblockAnswers
    <3>3. Superblock(SuperblockOffset).status # "Truncated"
      BY <1>0, SuperblockAnswers, LayoutType DEF SupbRead
    <3>4. SuperblockOffset - len \in Nat /\ len + (SuperblockOffset - len) = SuperblockOffset
      BY <1>0, <2>2
    <3> HIDE DEF Longer
    <3>5. Longer(SuperblockOffset - len).status # "Truncated"
      BY <2>1, <3>3, <3>4
    <3>6. \A by \in Nat : len + by < SuperblockOffset =>
              Longer(by) = Truncated(SuperblockOffset, len + by)
      BY <2>1, <3>2
    <3> QED  BY <1>0, <1>2, <2>2, <3>1, <3>5, <3>6
  <2>3. CASE SuperblockOffset <= len
    <3> DEFINE past == len - SuperblockOffset
    <3>1. refusal = Truncated(SelfBlockEnd, past) /\ past < SelfBlockEnd
          /\ SupbRead(past) /\ past \in Nat /\ SelfBlockEnd \in Int
      BY <1>0, <2>1, <2>3, SuperblockAnswers, LayoutType
    <3>2. \A by \in Nat : Superblock(len + by) = IF past + by < SelfBlockEnd
                                                 THEN Truncated(SelfBlockEnd, past + by)
                                                 ELSE Ok(medium.self)
      BY <1>0, <2>3, <3>1, LayoutType DEF Superblock, MetadataBlockRef, BlockHeader, SupbRead
    <3> HIDE DEF Longer, past
    <3>3. SelfBlockEnd - past \in Nat /\ ~(past + (SelfBlockEnd - past) < SelfBlockEnd)
      BY <3>1
    <3>4. Longer(SelfBlockEnd - past) = Ok(medium.self)
      BY <2>1, <3>2, <3>3
    <3> QED  BY <1>2, <2>1, <3>1, <3>2, <3>4 DEF Ok
  <2> QED  BY <1>0, <2>2, <2>3
<1>6. CASE reading = 3
  <2> DEFINE past == len - SuperblockOffset
  <2>1. refusal = BlockHeader(past, V3HeaderEnd)
        /\ \A by \in Nat : Longer(by) = BlockHeader((len + by) - SuperblockOffset, V3HeaderEnd)
    BY <1>0, <1>6, HeadersAre DEF Answer
  <2>2. V3HeaderEnd \in Nat /\ SignatureEnd < V3HeaderEnd /\ past \in Int /\ SignatureEnd \in Nat
    BY <1>0, LayoutType
  <2>3. refusal = Truncated(V3HeaderEnd, past) /\ past < V3HeaderEnd /\ SupbRead(past)
    BY <1>0, <2>1, <2>2, BlockAnswers
  <2>4. \A by \in Nat : BlockHeader((len + by) - SuperblockOffset, V3HeaderEnd) =
            IF past + by < V3HeaderEnd THEN Truncated(V3HeaderEnd, past + by)
            ELSE Ok(medium.self)
    BY <1>0, <2>2, <2>3 DEF BlockHeader, SupbRead
  <2> HIDE DEF Longer, past
  <2>5. V3HeaderEnd - past \in Nat /\ ~(past + (V3HeaderEnd - past) < V3HeaderEnd)
    BY <2>2, <2>3
  <2>6. Longer(V3HeaderEnd - past) = Ok(medium.self)
    BY <2>1, <2>4, <2>5
  <2> QED  BY <1>2, <2>1, <2>2, <2>3, <2>4, <2>6 DEF Ok
<1>7. CASE reading = 4
  <2> DEFINE past == len - SuperblockOffset
             need == medium.refsOffset + Named * RefSize
  <2>1. refusal = Locations(past)
        /\ \A by \in Nat : Longer(by) = Locations((len + by) - SuperblockOffset)
    BY <1>0, <1>7, HeadersAre DEF Answer
  <2>2. need \in Nat /\ CountEnd \in Nat /\ past \in Int
    BY <1>0, LayoutType
  <2>3. \A by \in Nat : (len + by) - SuperblockOffset = past + by /\ past + by \in Int
    BY <1>0
  <2> HIDE DEF past, need, Longer
  <2>4. \A by \in Nat :
            /\ past + by < CountEnd => Longer(by) = Truncated(CountEnd, past + by)
            /\ CountEnd <= past + by /\ past + by < need => Longer(by) = Truncated(need, past + by)
            /\ CountEnd <= past + by /\ need <= past + by => Longer(by).status = "ok"
    BY <1>0, <2>1, <2>2, <2>3, LocationsAnswers DEF need
  <2>5. \/ past < CountEnd /\ refusal = Truncated(CountEnd, past)
        \/ CountEnd <= past /\ past < need /\ refusal = Truncated(need, past)
    BY <1>0, <1>1, <2>1, <2>2, LocationsAnswers DEF need
  <2>6. CASE past < CountEnd /\ refusal = Truncated(CountEnd, past)
    <3>1. CountEnd - past \in Nat /\ past + (CountEnd - past) = CountEnd
      BY <2>2, <2>6
    <3>2. Longer(CountEnd - past).status = "Truncated" => Longer(CountEnd - past).need > CountEnd
      BY <1>1, <2>2, <2>4, <3>1
    <3> QED  BY <1>2, <2>2, <2>4, <2>6, <3>2
  <2>7. CASE CountEnd <= past /\ past < need /\ refusal = Truncated(need, past)
    <3>1. need - past \in Nat /\ past + (need - past) = need
      BY <2>2, <2>7
    <3>2. Longer(need - past).status = "ok"
      BY <2>2, <2>4, <2>7, <3>1
    <3>3. \A by \in Nat : past + by < need => Longer(by) = Truncated(need, past + by)
      BY <2>2, <2>4, <2>7
    <3> QED  BY <1>2, <2>2, <2>7, <3>2, <3>3
  <2> QED  BY <2>5, <2>6, <2>7
<1> QED  BY <1>0, <1>3, <1>4, <1>5, <1>6, <1>7

-----------------------------------------------------------------------------
(***************************************************************************)
(* The audit.  Each stage is reached only when the ones before let it, and *)
(* a verdict on a header is there exactly when its stage is over and the   *)
(* header is wrong.                                                        *)
(***************************************************************************)
Sound == BootParsed /\ SaneCluster

AuditTyped ==
    /\ AuditTypeOK
    /\ medium.clusterSize > 0 => len <= MediumClusters * medium.clusterSize

Staged ==
    /\ stage # "boot" => ~Undecided
    /\ stage = "geometry" => BootParsed
    /\ stage \in {"superblock", "checkpoints", "sweep"} => Sound
    /\ stage = "checkpoints" => SuperblockSeen
    /\ stage \in {"boot", "geometry", "superblock"} => out = << >>

Verdicts ==
    /\ Reported("boot_signature") <=> stage = "done" /\ ~SignatureRead(len)
    /\ Reported("geometry") <=> stage = "done" /\ BootParsed /\ ~SaneCluster
    /\ Reported("supb_self_block") <=>
          /\ stage \in {"checkpoints", "sweep", "done"} /\ Sound
          /\ SuperblockSeen /\ RecordedSelf # SuperblockCluster
    /\ Reported("checkpoints") <=>
          /\ stage \in {"sweep", "done"} /\ Sound
          /\ SuperblockSeen /\ CheckpointsRead /\ Named = 0

(***************************************************************************)
(* The sweep: every cluster it went past starts a whole page of the image, *)
(* the misplaced ones of them are flagged, and it stops at a page that is  *)
(* not whole.                                                              *)
(***************************************************************************)
Flagged == {i \in DOMAIN out : out[i].kind = "msb_self_block"}

Swept ==
    /\ ~(Sound /\ stage \in {"sweep", "done"}) => at = 0
    /\ Sound => at <= Ceiling
    /\ \A c \in 0 .. at - 1 : WholePage(c)
    /\ {out[i].cluster : i \in Flagged} =
          {c \in 0 .. at - 1 : medium.page[c] # NoPage /\ Misplaced(c)}
    /\ \A i, j \in Flagged : i < j => out[i].cluster < out[j].cluster
    /\ \A i \in Flagged : out[i].recorded = medium.page[out[i].cluster]
    /\ Sound /\ stage = "done" => at = Ceiling \/ ~WholePage(at)

AuditInv == AuditTyped /\ Staged /\ Verdicts /\ Swept /\ OneVerdictOnRejection

ExamInv == OpenInv /\ AuditInv

\* What depends on the image alone.
LEMMA SameImage ==
    ASSUME UNCHANGED <<medium, len>>
    PROVE  /\ BootParsed' <=> BootParsed
           /\ SaneCluster' <=> SaneCluster
           /\ Sound' <=> Sound
           /\ SignatureRead(len)' <=> SignatureRead(len)
           /\ SuperblockSeen' <=> SuperblockSeen
           /\ CheckpointsRead' <=> CheckpointsRead
           /\ RecordedSelf' = RecordedSelf
           /\ Named' = Named
           /\ Ceiling' = Ceiling
           /\ \A c : (WholePage(c)' <=> WholePage(c)) /\ (Misplaced(c)' <=> Misplaced(c))
  BY DEF BootParsed, BootSector, SaneCluster, Sound, SignatureRead, FsrsRead, SuperblockSeen,
     CheckpointsRead, Locations, RecordedSelf, Named, Ceiling, WholePage, Misplaced, HeaderLen,
     SupbRead, SuperblockOffset

LEMMA ReportStep ==
    ASSUME out \in Seq(Anomaly), NEW a \in Anomaly, Report(a)
    PROVE  /\ out' \in Seq(Anomaly) /\ Len(out) \in Nat
           /\ Len(out') = Len(out) + 1
           /\ DOMAIN out = 1 .. Len(out) /\ DOMAIN out' = 1 .. Len(out) + 1
           /\ out'[Len(out) + 1] = a /\ \A i \in DOMAIN out : out'[i] = out[i]
           /\ \A kind : Reported(kind)' <=> Reported(kind) \/ a.kind = kind
           /\ a.kind # "msb_self_block" => Flagged' = Flagged
           /\ a.kind = "msb_self_block" => Flagged' = Flagged \cup {Len(out) + 1}
<1>1. /\ out' \in Seq(Anomaly) /\ Len(out) \in Nat
      /\ Len(out') = Len(out) + 1
      /\ DOMAIN out = 1 .. Len(out) /\ DOMAIN out' = 1 .. Len(out) + 1
      /\ out'[Len(out) + 1] = a /\ \A i \in DOMAIN out : out'[i] = out[i]
  BY DEF Report
<1>2. \A kind : Reported(kind)' <=> Reported(kind) \/ a.kind = kind
  BY <1>1 DEF Reported
<1>3. /\ a.kind # "msb_self_block" => Flagged' = Flagged
      /\ a.kind = "msb_self_block" => Flagged' = Flagged \cup {Len(out) + 1}
  BY <1>1 DEF Flagged
<1> QED  BY <1>1, <1>2, <1>3

LEMMA PlainAnomaly ==
    ASSUME NEW kind \in {"boot_signature", "geometry", "supb_self_block", "checkpoints"}
    PROVE  [kind |-> kind] \in Anomaly
  BY DEF Anomaly

LEMMA AuditInitHolds ==
    ASSUME OpenTyped, AuditInit, medium.clusterSize > 0 => len <= MediumClusters * medium.clusterSize
    PROVE  AuditInv
<1>1. /\ stage = "boot" /\ at = 0 /\ out = << >> /\ MediumClusters \in Nat
      /\ \A kind : ~Reported(kind)
      /\ Flagged = {}
  BY HeadersAssumption DEF AuditInit, Reported, Flagged
<1>2. Sound => 0 <= Ceiling
  BY ReadingTyped, LayoutType, WholeClusters DEF Sound, SaneCluster, Ceiling
<1>3. Swept
  BY <1>1, <1>2 DEF Swept
<1> QED
  BY <1>1, <1>3 DEF AuditInv, AuditTyped, AuditTypeOK, Staged, Verdicts, OneVerdictOnRejection

-----------------------------------------------------------------------------
\* A stage that leaves the sweep alone leaves what was swept.
LEMMA SweptKept ==
    ASSUME Swept, UNCHANGED <<medium, len, at>>, DOMAIN out \subseteq DOMAIN out',
           \A i \in DOMAIN out : out'[i] = out[i], Flagged' = Flagged,
           stage' = "done" => ~Sound, stage # "sweep", stage # "done"
    PROVE  Swept'
<1>1. \A i \in Flagged : out'[i] = out[i]
  BY DEF Flagged
<1>2. {out[i].cluster : i \in Flagged}' = {out[i].cluster : i \in Flagged}
  BY <1>1
<1>3. \A i, j \in Flagged' : i < j => (out[i].cluster < out[j].cluster)'
  BY <1>1 DEF Swept
<1>4. \A i \in Flagged' : (out[i].recorded = medium.page[out[i].cluster])'
  BY <1>1 DEF Swept
<1> QED  BY <1>2, <1>3, <1>4, SameImage DEF Swept

(***************************************************************************)
(* The stages before the sweep (forensic/src/lib.rs:333-384, 403-415).     *)
(***************************************************************************)
LEMMA HeadStep ==
    ASSUME OpenTyped, AuditInv, ~Undecided, UNCHANGED openVars,
           \/ RejectSignature \/ LeaveUnusable \/ AcceptBoot
           \/ RejectGeometry \/ AcceptGeometry
           \/ NoSuperblock \/ SuperblockInPlace \/ SuperblockMoved
           \/ CheckpointsPass \/ CheckpointsEmpty
    PROVE  AuditInv' /\ UNCHANGED <<medium, len>>
<1>0. /\ AuditTyped /\ Staged /\ Verdicts /\ Swept /\ OneVerdictOnRejection
      /\ out \in Seq(Anomaly) /\ at \in 0 .. MediumClusters
  BY DEF AuditInv, AuditTyped, AuditTypeOK
<1>1. UNCHANGED <<medium, len, at>>
  BY DEF RejectSignature, LeaveUnusable, AcceptBoot, RejectGeometry, AcceptGeometry, NoSuperblock,
     SuperblockInPlace, SuperblockMoved, CheckpointsPass, CheckpointsEmpty
<1>2. Undecided' = Undecided
  BY DEF openVars, Undecided, Opened
<1>3. ASSUME UNCHANGED out
      PROVE  /\ out' \in Seq(Anomaly) /\ Len(out') = Len(out) /\ DOMAIN out \subseteq DOMAIN out'
             /\ \A i \in DOMAIN out : out'[i] = out[i]
             /\ Flagged' = Flagged
             /\ \A kind : Reported(kind)' <=> Reported(kind)
  BY <1>0, <1>3 DEF Flagged, Reported
<1>4. ASSUME NEW kind \in {"boot_signature", "geometry", "supb_self_block", "checkpoints"},
             Report([kind |-> kind])
      PROVE  /\ out' \in Seq(Anomaly) /\ Len(out') = Len(out) + 1 /\ Len(out) \in Nat
             /\ DOMAIN out \subseteq DOMAIN out' /\ DOMAIN out' = 1 .. Len(out) + 1
             /\ \A i \in DOMAIN out : out'[i] = out[i]
             /\ out'[Len(out) + 1].kind = kind
             /\ Flagged' = Flagged
             /\ \A k : Reported(k)' <=> Reported(k) \/ k = kind
  BY <1>0, <1>4, PlainAnomaly, ReportStep
<1>5. BootParsed => SignatureRead(len)
  BY DEF BootParsed, BootSector, Refused
<1> DEFINE Kept == /\ stage # "sweep" /\ stage # "done" /\ DOMAIN out \subseteq DOMAIN out'
                   /\ \A i \in DOMAIN out : out'[i] = out[i]
                   /\ Flagged' = Flagged /\ (stage' = "done" => ~Sound)
                   /\ out' \in Seq(Anomaly)
                   /\ stage' \in {"geometry", "superblock", "checkpoints", "sweep", "done"}
<1>6. ASSUME Kept PROVE AuditTyped' /\ Swept'
  BY <1>0, <1>1, <1>6, SweptKept DEF AuditTyped, AuditTypeOK
<1>7. ASSUME stage' # "done", Sound' PROVE OneVerdictOnRejection'
  BY <1>7 DEF OneVerdictOnRejection, Sound
<1> HIDE DEF Kept
<1>8. CASE RejectSignature
  <2>1. /\ stage = "boot" /\ stage' = "done" /\ ~SignatureRead(len) /\ out = << >>
        /\ Report([kind |-> "boot_signature"])
    BY <1>0, <1>8 DEF RejectSignature, Staged
  <2>2. Kept
    BY <1>4, <1>5, <2>1 DEF Kept, Sound
  <2>3. Staged' /\ Verdicts'
    BY <1>0, <1>1, <1>2, <1>4, <1>5, <2>1, SameImage DEF Staged, Verdicts, Sound
  <2>4. OneVerdictOnRejection'
    BY <1>4, <2>1 DEF OneVerdictOnRejection
  <2> QED  BY <1>1, <1>6, <2>2, <2>3, <2>4 DEF AuditInv
<1>9. CASE LeaveUnusable
  <2>1. /\ stage = "boot" /\ stage' = "done" /\ SignatureRead(len) /\ ~BootParsed
        /\ UNCHANGED out /\ out = << >>
    BY <1>0, <1>9 DEF LeaveUnusable, Staged
  <2>2. Kept
    BY <1>3, <2>1 DEF Kept, Sound
  <2>3. Staged' /\ Verdicts'
    BY <1>0, <1>1, <1>2, <1>3, <2>1, SameImage DEF Staged, Verdicts, Sound
  <2>4. OneVerdictOnRejection'
    BY <2>1 DEF OneVerdictOnRejection
  <2> QED  BY <1>1, <1>6, <2>2, <2>3, <2>4 DEF AuditInv
<1>10. CASE AcceptBoot
  <2>1. /\ stage = "boot" /\ stage' = "geometry" /\ BootParsed /\ UNCHANGED out /\ out = << >>
    BY <1>0, <1>10 DEF AcceptBoot, Staged
  <2>2. Kept
    BY <1>3, <2>1 DEF Kept
  <2>3. Staged' /\ Verdicts'
    BY <1>0, <1>1, <1>2, <1>3, <2>1, SameImage DEF Staged, Verdicts
  <2>4. OneVerdictOnRejection'
    BY <2>1 DEF OneVerdictOnRejection
  <2> QED  BY <1>1, <1>6, <2>2, <2>3, <2>4 DEF AuditInv
<1>11. CASE RejectGeometry
  <2>1. /\ stage = "geometry" /\ stage' = "done" /\ BootParsed /\ ~SaneCluster
        /\ out = << >> /\ Report([kind |-> "geometry"])
    BY <1>0, <1>11 DEF RejectGeometry, Staged
  <2>2. Kept
    BY <1>4, <2>1 DEF Kept, Sound
  <2>3. Staged' /\ Verdicts'
    BY <1>0, <1>1, <1>2, <1>4, <1>5, <2>1, SameImage DEF Staged, Verdicts, Sound
  <2>4. Len(out') = 1 /\ \A i \in DOMAIN out' : out'[i].kind = "geometry"
    <3>1. Len(out) = 0
      BY <2>1
    <3> QED  BY <1>4, <2>1, <3>1
  <2>5. OneVerdictOnRejection'
    BY <2>4 DEF OneVerdictOnRejection
  <2> QED  BY <1>1, <1>6, <2>2, <2>3, <2>5 DEF AuditInv
<1>12. CASE AcceptGeometry
  <2>1. /\ stage = "geometry" /\ stage' = "superblock" /\ Sound /\ UNCHANGED out /\ out = << >>
    BY <1>0, <1>12 DEF AcceptGeometry, Staged, Sound
  <2>2. Kept
    BY <1>3, <2>1 DEF Kept
  <2>3. Staged' /\ Verdicts'
    BY <1>0, <1>1, <1>2, <1>3, <2>1, SameImage DEF Staged, Verdicts
  <2> QED  BY <1>1, <1>6, <1>7, <2>1, <2>2, <2>3, SameImage DEF AuditInv
<1>13. CASE NoSuperblock \/ SuperblockInPlace
  <2>1. /\ stage = "superblock" /\ Sound /\ UNCHANGED out
        /\ \/ stage' = "sweep" /\ ~SuperblockSeen
           \/ stage' = "checkpoints" /\ SuperblockSeen /\ RecordedSelf = SuperblockCluster
    BY <1>0, <1>13 DEF NoSuperblock, SuperblockInPlace, Staged
  <2>2. Kept
    BY <1>3, <2>1 DEF Kept
  <2>3. Staged' /\ Verdicts'
    BY <1>0, <1>1, <1>2, <1>3, <2>1, SameImage DEF Staged, Verdicts
  <2> QED  BY <1>1, <1>6, <1>7, <2>1, <2>2, <2>3, SameImage DEF AuditInv
<1>14. CASE SuperblockMoved
  <2>1. /\ stage = "superblock" /\ stage' = "checkpoints" /\ Sound /\ SuperblockSeen
        /\ RecordedSelf # SuperblockCluster /\ Report([kind |-> "supb_self_block"])
    BY <1>0, <1>14 DEF SuperblockMoved, Staged
  <2>2. Kept
    BY <1>4, <2>1 DEF Kept
  <2>3. Staged' /\ Verdicts'
    BY <1>0, <1>1, <1>2, <1>4, <2>1, SameImage DEF Staged, Verdicts
  <2> QED  BY <1>1, <1>6, <1>7, <2>1, <2>2, <2>3, SameImage DEF AuditInv
<1>15. CASE CheckpointsPass
  <2>1. /\ stage = "checkpoints" /\ stage' = "sweep" /\ Sound /\ SuperblockSeen /\ UNCHANGED out
        /\ ~(CheckpointsRead /\ Named = 0)
    BY <1>0, <1>15 DEF CheckpointsPass, Staged
  <2>2. Kept
    BY <1>3, <2>1 DEF Kept
  <2>3. Staged' /\ Verdicts'
    BY <1>0, <1>1, <1>2, <1>3, <2>1, SameImage DEF Staged, Verdicts
  <2> QED  BY <1>1, <1>6, <1>7, <2>1, <2>2, <2>3, SameImage DEF AuditInv
<1>16. CASE CheckpointsEmpty
  <2>1. /\ stage = "checkpoints" /\ stage' = "sweep" /\ Sound /\ SuperblockSeen
        /\ CheckpointsRead /\ Named = 0 /\ Report([kind |-> "checkpoints"])
    BY <1>0, <1>16 DEF CheckpointsEmpty, Staged
  <2>2. Kept
    BY <1>4, <2>1 DEF Kept
  <2>3. Staged' /\ Verdicts'
    BY <1>0, <1>1, <1>2, <1>4, <2>1, SameImage DEF Staged, Verdicts
  <2> QED  BY <1>1, <1>6, <1>7, <2>1, <2>2, <2>3, SameImage DEF AuditInv
<1> QED
  BY <1>8, <1>9, <1>10, <1>11, <1>12, <1>13, <1>14, <1>15, <1>16

(***************************************************************************)
(* The sweep (forensic/src/lib.rs:422-451): what it goes past is whole, so *)
(* a page flagged now is the highest flagged.                              *)
(***************************************************************************)
LEMMA SweepStep ==
    ASSUME OpenTyped, AuditInv, ~Undecided, UNCHANGED openVars,
           SweepPast \/ SweepQuiet \/ SweepFlag \/ EndSweep
    PROVE  AuditInv' /\ UNCHANGED <<medium, len>>
<1>0. /\ AuditTyped /\ Staged /\ Verdicts /\ Swept
      /\ out \in Seq(Anomaly) /\ at \in 0 .. MediumClusters
      /\ stage = "sweep" /\ Sound /\ at <= Ceiling
  BY DEF AuditInv, AuditTyped, AuditTypeOK, Swept, Staged, SweepPast, SweepQuiet, SweepFlag,
     EndSweep, Sweeping
<1>1. /\ medium.clusterSize \in Nat \ {0} /\ len \in Nat /\ MediumClusters \in Nat
      /\ medium \in Medium
  <2>1. medium \in Medium /\ len \in Nat /\ MediumClusters \in Nat
    BY ReadingTyped, HeadersAssumption
  <2>2. medium.clusterSize \in Nat /\ medium.clusterSize > 0
    BY <1>0, <2>1, LayoutType DEF Sound, SaneCluster
  <2> QED  BY <2>1, <2>2
<1>2. Ceiling \in Nat /\ Ceiling <= MediumClusters
  BY <1>0, <1>1, WholeClusters, CeilingBound DEF Ceiling, AuditTyped
<1>3. UNCHANGED <<medium, len>> /\ Undecided' = Undecided
  BY DEF SweepPast, SweepQuiet, SweepFlag, EndSweep, openVars, Undecided, Opened
<1>4. OneVerdictOnRejection'
  BY <1>0, <1>3, SameImage DEF OneVerdictOnRejection, Sound
<1>5. Staged' /\ (AuditTypeOK' => AuditTyped')
  <2>1. stage' \in {"sweep", "done"}
    BY <1>0 DEF SweepPast, SweepQuiet, SweepFlag, EndSweep
  <2> QED  BY <1>0, <1>3, <2>1, SameImage DEF Staged, AuditTyped
<1>6. CASE SweepPast \/ SweepQuiet
  <2>1. /\ at < Ceiling /\ WholePage(at) /\ at' = at + 1 /\ UNCHANGED <<out, stage>>
        /\ ~(medium.page[at] # NoPage /\ Misplaced(at))
    BY <1>6 DEF SweepPast, SweepQuiet, Sweeping
  <2>2. Flagged' = Flagged /\ \A kind : Reported(kind)' <=> Reported(kind)
    BY <2>1 DEF Flagged, Reported
  <2>3. AuditTypeOK'
    BY <1>0, <1>1, <1>2, <2>1 DEF AuditTyped, AuditTypeOK
  <2>4. Verdicts'
    BY <1>0, <1>3, <2>1, <2>2, SameImage DEF Verdicts
  <2>5. 0 .. at' - 1 = (0 .. at - 1) \cup {at}
    BY <1>0, <2>1
  <2>6. {c \in 0 .. at' - 1 : medium.page[c] # NoPage /\ Misplaced(c)} =
        {c \in 0 .. at - 1 : medium.page[c] # NoPage /\ Misplaced(c)}
    BY <2>1, <2>5
  <2>7. Swept'
    BY <1>0, <1>2, <1>3, <2>1, <2>2, <2>5, <2>6, SameImage DEF Swept
  <2> QED  BY <1>3, <1>4, <1>5, <2>3, <2>4, <2>7 DEF AuditInv
<1>7. CASE SweepFlag
  <2> DEFINE a == [kind |-> "msb_self_block", recorded |-> medium.page[at], cluster |-> at]
  <2>1. /\ at < Ceiling /\ WholePage(at) /\ at' = at + 1 /\ UNCHANGED stage
        /\ medium.page[at] # NoPage /\ Misplaced(at) /\ Report(a)
    BY <1>7 DEF SweepFlag, Sweeping
  <2>2. a \in Anomaly
    <3>1. medium.page[at] \in Nat /\ at \in Nat
      BY <1>0, <1>1, <1>2, <2>1 DEF Medium
    <3> QED  BY <3>1 DEF Anomaly
  <2>3. a.kind = "msb_self_block" /\ a.cluster = at /\ a.recorded = medium.page[at]
    OBVIOUS
  <2> HIDE DEF a
  <2>4. /\ out' \in Seq(Anomaly) /\ Len(out) \in Nat
        /\ DOMAIN out = 1 .. Len(out)
        /\ out'[Len(out) + 1] = a /\ \A i \in DOMAIN out : out'[i] = out[i]
        /\ \A kind : Reported(kind)' <=> Reported(kind) \/ kind = "msb_self_block"
        /\ Flagged' = Flagged \cup {Len(out) + 1}
    BY <1>0, <2>1, <2>2, <2>3, ReportStep
  <2>5. AuditTypeOK'
    BY <1>0, <1>1, <1>2, <2>1, <2>4 DEF AuditTyped, AuditTypeOK
  <2>6. Verdicts'
    BY <1>0, <1>3, <2>1, <2>4, SameImage DEF Verdicts
  <2>7. 0 .. at' - 1 = (0 .. at - 1) \cup {at}
    BY <1>0, <2>1
  <2>8. \A i \in Flagged : i \in DOMAIN out /\ out'[i] = out[i] /\ i < Len(out) + 1
    BY <2>4 DEF Flagged
  <2>9. {out[i].cluster : i \in Flagged}' =
        {c \in 0 .. at' - 1 : medium.page[c] # NoPage /\ Misplaced(c)}
    <3>1. {out'[i].cluster : i \in Flagged'} = {out[i].cluster : i \in Flagged} \cup {at}
      BY <2>3, <2>4, <2>8
    <3>2. {c \in 0 .. at' - 1 : medium.page[c] # NoPage /\ Misplaced(c)} =
          {c \in 0 .. at - 1 : medium.page[c] # NoPage /\ Misplaced(c)} \cup {at}
      BY <2>1, <2>7
    <3> QED  BY <1>0, <3>1, <3>2 DEF Swept
  <2>10. \A i \in Flagged : out[i].cluster \in 0 .. at - 1
    BY <1>0 DEF Swept
  <2>11. \A i, j \in Flagged' : i < j => (out[i].cluster < out[j].cluster)'
    BY <1>0, <2>3, <2>4, <2>8, <2>10 DEF Swept
  <2>12. \A i \in Flagged' : (out[i].recorded = medium.page[out[i].cluster])'
    BY <1>0, <1>3, <2>3, <2>4, <2>8 DEF Swept
  <2>13. Swept'
    BY <1>0, <1>2, <1>3, <2>1, <2>7, <2>9, <2>11, <2>12, SameImage DEF Swept
  <2> QED  BY <1>3, <1>4, <1>5, <2>5, <2>6, <2>13 DEF AuditInv
<1>8. CASE EndSweep
  <2>1. stage' = "done" /\ UNCHANGED <<at, out>> /\ (at = Ceiling \/ ~WholePage(at))
    BY <1>8 DEF EndSweep
  <2>2. Flagged' = Flagged /\ \A kind : Reported(kind)' <=> Reported(kind)
    BY <2>1 DEF Flagged, Reported
  <2>3. AuditTypeOK' /\ Verdicts'
    <3>1. ~Reported("boot_signature") /\ ~Reported("geometry")
      BY <1>0 DEF Verdicts
    <3>2. SignatureRead(len) /\ SaneCluster
      BY <1>0 DEF Sound, BootParsed, BootSector, Refused
    <3> QED
      BY <1>0, <1>3, <2>1, <2>2, <3>1, <3>2, SameImage DEF AuditTyped, AuditTypeOK, Verdicts
  <2>4. Swept'
    BY <1>0, <1>3, <2>1, <2>2, SameImage DEF Swept
  <2> QED  BY <1>3, <1>4, <1>5, <2>3, <2>4 DEF AuditInv
<1> QED  BY <1>6, <1>7, <1>8

LEMMA InitHolds == Init => ExamInv
<1> SUFFICES ASSUME Init PROVE ExamInv
  OBVIOUS
<1>1. OpenTyped
  <2>1. medium \in Medium /\ reading = 0 /\ refusal = Ok(0) /\ len \in 0 .. MaxLen
    BY HeadersAssumption DEF Init, OpenInit
  <2> QED  BY <2>1, HeadersAre DEF OpenTyped
<1>2. OpenInv
  BY <1>1 DEF Init, OpenInit, OpenInv, HeadersRead, RefusalStands, Ok
<1> QED  BY <1>1, <1>2, AuditInitHolds DEF ExamInv, Init

\* While the readers are at work the audit has not begun.
LEMMA OpenFirst ==
    ASSUME AuditInv, Undecided, UNCHANGED <<medium, len, auditVars>>
    PROVE  AuditInv'
<1>1. stage = "boot" /\ stage' = "boot" /\ out' = out /\ at' = at
  BY DEF AuditInv, Staged, auditVars
<1>2. AuditTyped' /\ Staged'
  BY <1>1 DEF AuditInv, AuditTyped, AuditTypeOK, Staged
<1>3. Verdicts' /\ Swept' /\ OneVerdictOnRejection'
  BY <1>1, SameImage DEF AuditInv, Verdicts, Swept, Flagged, Reported, OneVerdictOnRejection
<1> QED  BY <1>2, <1>3 DEF AuditInv

LEMMA ExamStep == ExamInv /\ [Next]_vars => ExamInv'
<1> SUFFICES ASSUME ExamInv, [Next]_vars PROVE ExamInv'
  OBVIOUS
<1>0. OpenInv /\ AuditInv /\ OpenTyped
  BY DEF ExamInv, OpenInv
<1>1. CASE Open
  <2>1. OpenInv' /\ UNCHANGED <<medium, len, auditVars>> /\ Undecided
    BY <1>0, <1>1, OpenStep DEF Open, OpenNext, AcceptHeader, RefuseHeader
  <2> QED  BY <1>0, <2>1, OpenFirst DEF ExamInv
<1>2. CASE Audit
  <2>1. ~Undecided /\ UNCHANGED openVars /\ AuditNext
    BY <1>2 DEF Audit
  <2>2. AuditInv' /\ UNCHANGED <<medium, len>>
    BY <1>0, <2>1, HeadStep, SweepStep DEF AuditNext
  <2>3. OpenInv'
    BY <1>0, <2>1, <2>2, OpenKept DEF openVars
  <2> QED  BY <2>2, <2>3 DEF ExamInv
<1>3. CASE UNCHANGED vars
  <2>1. UNCHANGED <<medium, len, reading, refusal, stage, at, out>>
    BY <1>3 DEF vars, openVars, auditVars
  <2>2. OpenInv'
    BY <1>0, <2>1, OpenKept
  <2>3. AuditTyped' /\ Staged' /\ Verdicts' /\ Swept' /\ OneVerdictOnRejection'
    BY <1>0, <2>1, SameImage DEF AuditInv, AuditTyped, AuditTypeOK, Staged, Undecided, Opened,
       Verdicts, Swept, Flagged, Reported, OneVerdictOnRejection
  <2> QED  BY <2>2, <2>3 DEF ExamInv, AuditInv
<1> QED  BY <1>1, <1>2, <1>3 DEF Next

LEMMA ExamInvHolds == Spec => []ExamInv
  BY InitHolds, ExamStep, PTL DEF Spec

-----------------------------------------------------------------------------
(***************************************************************************)
(* The examination keeps its types (core/src/error.rs, forensic/src/lib.rs *)
(* 333-451): no error carries a negative length.                           *)
(***************************************************************************)
THEOREM ExaminationTypeCorrect == Spec => []TypeOK
<1>1. ExamInv => TypeOK
  BY DEF ExamInv, OpenInv, OpenTyped, AuditInv, AuditTyped, TypeOK
<1> QED  BY <1>1, ExamInvHolds, PTL

(***************************************************************************)
(* Every answer given on a short image stands on every longer one          *)
(* (core/src/bytes.rs:5-8, metablock.rs:134-144).                          *)
(***************************************************************************)
THEOREM ReadingsOutlastTheImage == Spec => []ReadingOutlastsTheImage
<1>1. ExamInv => ReadingOutlastsTheImage
  BY OpenOutlasts DEF ExamInv
<1> QED  BY <1>1, ExamInvHolds, PTL

(***************************************************************************)
(* A Truncated error says exactly how many bytes are missing, whichever    *)
(* parser gave it (core/src/error.rs:14-24).                               *)
(***************************************************************************)
THEOREM TruncationsNameWhatIsMissing == Spec => []TruncatedNamesWhatIsMissing
<1>1. ExamInv => TruncatedNamesWhatIsMissing
  BY OpenNamesMissing DEF ExamInv
<1> QED  BY <1>1, ExamInvHolds, PTL

(***************************************************************************)
(* A rejected image yields one anomaly at most, and none about what lies   *)
(* beyond the boot record (forensic/src/lib.rs:336-339).                   *)
(***************************************************************************)
THEOREM RejectionIsOneVerdict == Spec => []OneVerdictOnRejection
<1>1. ExamInv => OneVerdictOnRejection
  BY DEF ExamInv, AuditInv
<1> QED  BY <1>1, ExamInvHolds, PTL

-----------------------------------------------------------------------------
\* The sweep stops at the first page that is not whole, and no later one is.
LEMMA SweepFlagsAll == ExamInv => SweepIsExact
<1> SUFFICES ASSUME ExamInv PROVE SweepIsExact
  OBVIOUS
<1>0. OpenTyped /\ AuditTyped /\ Swept /\ medium \in Medium /\ len \in Nat /\ at \in Nat
      /\ MediumClusters \in Nat /\ PageSize \in Nat
  BY ReadingTyped, HeadersAssumption, AuditAssumption
  DEF ExamInv, OpenInv, AuditInv, AuditTyped, AuditTypeOK
<1> DEFINE pages == {c \in 0 .. MediumClusters - 1 :
                       /\ medium.page[c] # NoPage
                       /\ WholePage(c)
                       /\ (c + 1) * medium.clusterSize <= len}
           misplaced == {c \in pages : /\ medium.page[c] # c
                                       /\ (medium.page[c] + 1) * medium.clusterSize <= len}
<1>1. ASSUME stage = "done", BootParsed, SaneCluster
      PROVE  {out[i].cluster : i \in Flagged} = misplaced
  <2>1. medium.clusterSize \in Nat \ {0} /\ Sound
    BY <1>0, <1>1, LayoutType DEF SaneCluster, Sound
  <2>2. /\ Ceiling \in Nat /\ Ceiling <= MediumClusters
        /\ \A c \in Nat : c < Ceiling <=> (c + 1) * medium.clusterSize <= len
    BY <1>0, <2>1, WholeClusters, CeilingBound DEF Ceiling, AuditTyped
  <2>3. /\ at <= Ceiling
        /\ at = Ceiling \/ ~WholePage(at)
        /\ \A c \in 0 .. at - 1 : WholePage(c)
    BY <1>0, <1>1, <2>1 DEF Swept
  <2>4. \A c \in 0 .. MediumClusters - 1 :
            WholePage(c) /\ (c + 1) * medium.clusterSize <= len <=> c < at
    <3> TAKE c \in 0 .. MediumClusters - 1
    <3>1. c \in Nat /\ (c < at => WholePage(c) /\ c < Ceiling)
      BY <1>0, <2>2, <2>3
    <3>2. ASSUME WholePage(c), c < Ceiling, ~(c < at) PROVE FALSE
      <4>1. at \in Nat /\ at <= c /\ ~WholePage(at)
        BY <1>0, <2>2, <2>3, <3>1, <3>2
      <4>2. at * medium.clusterSize <= c * medium.clusterSize
        BY <2>1, <3>1, <4>1
      <4>3. at * medium.clusterSize \in Nat /\ c * medium.clusterSize \in Nat
        BY <2>1, <3>1, <4>1
      <4> QED  BY <1>0, <3>2, <4>1, <4>2, <4>3 DEF WholePage
    <3> QED  BY <2>2, <3>1, <3>2
  <2>5. \A c \in 0 .. MediumClusters - 1 : medium.page[c] # NoPage => medium.page[c] \in Nat
    BY <1>0 DEF Medium
  <2>6. at - 1 <= MediumClusters - 1
    BY <1>0, <2>2, <2>3
  <2>7. \A c : c \in 0 .. at - 1 <=> c \in 0 .. MediumClusters - 1 /\ c < at
    BY <1>0, <2>6
  <2>8. {out[i].cluster : i \in Flagged} =
            {c \in 0 .. at - 1 : medium.page[c] # NoPage /\ Misplaced(c)}
    BY <1>0 DEF Swept
  <2> QED  BY <2>2, <2>4, <2>5, <2>7, <2>8 DEF Misplaced
<1> QED  BY <1>0, <1>1 DEF SweepIsExact, Swept, Flagged

(***************************************************************************)
(* Whatever the cluster size is to the page size, the sweep flags exactly  *)
(* the whole pages of the image that claim another cluster of it, each     *)
(* once and in order (forensic/src/lib.rs:422-451).                        *)
(***************************************************************************)
THEOREM SweepFlagsExactly == Spec => []SweepIsExact
  BY ExamInvHolds, SweepFlagsAll, PTL

-----------------------------------------------------------------------------
LEMMA CheckpointVerdictHolds == ExamInv => CheckpointVerdictIsReal
<1> SUFFICES ASSUME ExamInv, Reported("checkpoints")
             PROVE  Named = 0 /\ medium.supb /\ CountEnd <= HeaderLen
  BY DEF CheckpointVerdictIsReal
<1>1. SuperblockSeen /\ CheckpointsRead /\ Named = 0
  BY DEF ExamInv, AuditInv, Verdicts
<1>2. medium \in Medium /\ HeaderLen \in Int /\ HeaderLen = len - SuperblockOffset
  BY ReadingTyped DEF ExamInv, OpenInv, HeaderLen
<1> QED  BY <1>1, <1>2, LocationsAnswers DEF SuperblockSeen, SupbRead, CheckpointsRead

(***************************************************************************)
(* "No checkpoint" is never said of a list the image cuts off              *)
(* (forensic/src/lib.rs:403-415, core/src/checkpoint.rs:70-104).           *)
(***************************************************************************)
THEOREM CheckpointVerdictsAreReal == Spec => []CheckpointVerdictIsReal
  BY ExamInvHolds, CheckpointVerdictHolds, PTL

-----------------------------------------------------------------------------
\* On a cluster boundary past the superblock's start a whole cluster of it is there.
LEMMA WholeSuperblock ==
    ASSUME NEW n \in Nat, NEW size \in Nat \ {0}, NEW c \in Nat,
           n % size = 0, c * size < n
    PROVE  (c + 1) * size <= n
<1> DEFINE q == n \div size
<1>1. q \in Nat /\ n = q * size
  OBVIOUS
<1> HIDE DEF q
<1>2. c < q
  <2>1. ASSUME q <= c PROVE FALSE
    <3>1. q * size <= c * size
      BY <1>1, <2>1
    <3> QED  BY <1>1, <3>1
  <2> QED  BY <1>1, <2>1
<1>3. (c + 1) * size <= q * size
  BY <1>1, <1>2
<1> QED  BY <1>1, <1>3

LEMMA CleanSliceHolds == ExamInv => CleanSliceIsQuiet
<1> SUFFICES ASSUME ExamInv, CleanVolume, BootParsed, len % medium.clusterSize = 0,
                    len <= Band * medium.clusterSize
             PROVE  out = << >>
  BY DEF CleanSliceIsQuiet
<1>0. /\ OpenTyped /\ AuditTyped /\ Verdicts /\ Swept /\ medium \in Medium /\ len \in Nat
      /\ at \in 0 .. MediumClusters /\ out \in Seq(Anomaly)
      /\ Band \in Nat \ {0} /\ MediumClusters \in Nat
  BY ReadingTyped, HeadersAssumption, AuditAssumption
  DEF ExamInv, OpenInv, AuditInv, AuditTyped, AuditTypeOK
<1>l. /\ medium.clusterSize \in Nat /\ SuperblockOffset \in Nat /\ SuperblockCluster \in Nat
      /\ Named = 0 <=> medium.count = 0
      /\ SelfBlockEnd \in Nat /\ medium.count \in Nat
  BY <1>0, LayoutType
<1>1. medium.clusterSize \in Nat \ {0} /\ Sound /\ SaneCluster
  BY <1>l DEF CleanVolume, SaneCluster, Sound
<1>2. SignatureRead(len)
  BY DEF BootParsed, BootSector, Refused
<1>3. ~Reported("boot_signature") /\ ~Reported("geometry")
  BY <1>0, <1>1, <1>2 DEF Verdicts
<1>4. ASSUME SuperblockSeen PROVE RecordedSelf = SuperblockCluster /\ Named # 0
  <2>1. medium.supb /\ 0 < HeaderLen /\ HeaderLen = len - SuperblockOffset
    <3>1. SignatureEnd \in Nat /\ 0 < SignatureEnd
      BY <1>0, LayoutType
    <3>2. HeaderLen = len - SuperblockOffset /\ HeaderLen \in Int
      BY <1>0, <1>l DEF HeaderLen
    <3> QED BY <1>4, <3>1, <3>2 DEF SuperblockSeen, SupbRead
  <2>2. SuperblockCluster \in Nat /\ SuperblockCluster * medium.clusterSize < len
    <3>1. SuperblockOffset < len
      BY <1>0, <1>l, <2>1
    <3> QED BY <1>l, <3>1 DEF SuperblockOffset
  <2>3. (SuperblockCluster + 1) * medium.clusterSize <= len
    BY <1>0, <1>1, <2>2, WholeSuperblock
  <2>4. medium.clusterSize <= HeaderLen
    <3>1. (SuperblockCluster + 1) * medium.clusterSize = SuperblockOffset + medium.clusterSize
      BY <1>1, <2>2 DEF SuperblockOffset
    <3>2. SuperblockOffset \in Nat
      BY <1>0, LayoutType
    <3> QED  BY <1>0, <1>1, <2>1, <2>3, <3>1, <3>2
  <2>5. SelfBlockEnd <= HeaderLen
    <3>1. SelfBlockEnd <= medium.clusterSize /\ HeaderLen \in Int
      BY <1>0, <1>l, <2>1 DEF CleanVolume
    <3> QED BY <1>l, <2>4, <3>1
  <2>6. medium.self = SuperblockCluster /\ medium.count > 0
    BY <2>1 DEF CleanVolume
  <2> QED  BY <1>l, <2>5, <2>6 DEF RecordedSelf
<1>5. ~Reported("supb_self_block") /\ ~Reported("checkpoints")
  BY <1>0, <1>4 DEF Verdicts
<1>6. Flagged = {}
  <2>1. SUFFICES ASSUME NEW c \in 0 .. at - 1, medium.page[c] # NoPage, Misplaced(c) PROVE FALSE
    BY <1>0 DEF Swept
  <2>2. c \in 0 .. MediumClusters - 1
    BY <1>0
  <2>3. medium.page[c] \in Nat /\ DOMAIN medium.page = 0 .. MediumClusters - 1
    BY <1>0, <2>1, <2>2 DEF Medium
  <2>4. Ceiling <= Band /\ Ceiling \in Nat
    BY <1>0, <1>1, CeilingBound, WholeClusters DEF Ceiling
  <2>5. medium.page[c] < Band
    BY <1>0, <2>1, <2>3, <2>4 DEF Misplaced
  <2>6. medium.page[c] = c
    BY <2>1, <2>2, <2>3, <2>5 DEF CleanVolume
  <2> QED  BY <2>1, <2>6 DEF Misplaced
<1>7. \A i \in DOMAIN out : FALSE
  <2> SUFFICES ASSUME NEW i \in DOMAIN out PROVE FALSE
    OBVIOUS
  <2>1. out[i].kind \in {"boot_signature", "geometry", "supb_self_block", "checkpoints",
                        "msb_self_block"}
    BY <1>0 DEF Anomaly
  <2> QED  BY <1>3, <1>5, <1>6, <2>1 DEF Reported, Flagged
<1>8. Len(out) \in Nat /\ DOMAIN out = 1 .. Len(out)
  BY <1>0
<1>9. Len(out) = 0
  BY <1>7, <1>8
<1> QED  BY <1>0, <1>9

(***************************************************************************)
(* A volume as its driver leaves it, cut on any cluster boundary inside    *)
(* the first container, gets no verdict (forensic/src/lib.rs:329,          *)
(* 386-392).                                                               *)
(***************************************************************************)
THEOREM CleanSlicesAreQuiet == Spec => []CleanSliceIsQuiet
  BY ExamInvHolds, CleanSliceHolds, PTL

-----------------------------------------------------------------------------
\* What an accepted superblock says to the audit, which reads it itself.
LEMMA AuditSees ==
    ASSUME OpenTyped, HeadersRead
    PROVE  /\ HeaderLen = len - SuperblockOffset /\ HeaderLen \in Int
           /\ reading >= 1 <=> reading # 0
           /\ reading >= 1 => BootParsed
           /\ reading >= 3 => /\ SuperblockSeen /\ RecordedSelf = medium.self
                              /\ Superblock(len) = Ok(medium.self)
           /\ reading >= 4 => MetaBlock(HeaderLen) = Ok(medium.self)
           /\ reading >= 5 => /\ CheckpointsRead /\ Locations(HeaderLen) = Ok(Named)
<1>1. /\ HeaderLen = len - SuperblockOffset /\ HeaderLen \in Int
      /\ reading \in 0 .. 5 /\ medium \in Medium /\ len \in Nat /\ SuperblockOffset \in Nat
  BY ReadingTyped DEF HeaderLen
<1>2. reading >= 1 => BootParsed
  BY AcceptedAre DEF BootParsed
<1>3. reading >= 3 => /\ SuperblockSeen /\ RecordedSelf = medium.self
                      /\ Superblock(len) = Ok(medium.self)
  BY <1>1, AcceptedAre, SuperblockAnswers, LayoutType DEF SuperblockSeen, SupbRead, RecordedSelf
<1>4. reading >= 4 => MetaBlock(HeaderLen) = Ok(medium.self)
  <2>1. V3HeaderEnd \in Nat /\ SignatureEnd < V3HeaderEnd
    BY <1>1, LayoutType
  <2> QED  BY <1>1, <2>1, AcceptedAre, BlockAnswers DEF MetaBlock
<1>5. reading >= 5 => CheckpointsRead /\ Locations(HeaderLen) = Ok(Named)
  BY <1>1, AcceptedAre, LocationsAnswers DEF CheckpointsRead
<1> QED  BY <1>1, <1>2, <1>3, <1>4, <1>5

\* A bad signature is the boot record's, and refuses it.
LEMMA RefusedSignature ==
    ASSUME OpenInv, ~Undecided
    PROVE  /\ RefusedAs("BadSignature") <=> ~SignatureRead(len)
           /\ reading = 0 => ~BootParsed
           /\ reading = 2 => refusal = Superblock(len) /\ refusal.status # "ok"
<1>0. /\ OpenTyped /\ HeadersRead /\ reading \in 0 .. 5 /\ medium \in Medium /\ len \in Nat
      /\ SuperblockOffset \in Nat /\ Len(Headers) = 5
  BY ReadingTyped, HeadersAre DEF OpenInv
<1>1. /\ reading # 5 => refusal.status # "ok"
      /\ refusal.status # "ok" => reading # 5 /\ refusal = Parse(Headers[reading + 1], len)
  BY <1>0 DEF Undecided, Opened, OpenInv, RefusalStands, Answer
<1>2. reading >= 1 => SignatureRead(len)
  BY <1>0, AcceptedAre, BootAnswers
<1>3. CASE reading = 0
  <2>1. refusal = BootSector(len) /\ refusal.status # "ok"
    BY <1>1, <1>3, HeadersAre
  <2> QED  BY <1>0, <1>3, <2>1, BootAnswers DEF RefusedAs, BootParsed
<1>4. CASE reading \in 1 .. 4
  <2>1. refusal = Parse(Headers[reading + 1], len) /\ reading \in {1, 2, 3, 4}
    BY <1>1, <1>4
  <2>2. V3HeaderEnd \in Nat /\ SignatureEnd < V3HeaderEnd /\ len - SuperblockOffset \in Int
    BY <1>0, LayoutType
  <2>3. refusal.status # "BadSignature"
    <3>1. reading = 1 => refusal.status # "BadSignature"
      BY <2>1, HeadersAre, VersionAnswers DEF Ok, Refused
    <3>2. reading = 2 => refusal.status # "BadSignature"
      BY <1>0, <2>1, HeadersAre, SuperblockAnswers
    <3>3. reading = 3 => refusal.status # "BadSignature"
      BY <1>0, <2>1, <2>2, HeadersAre, BlockAnswers
    <3>4. reading = 4 => refusal.status # "BadSignature"
      BY <1>0, <2>1, <2>2, HeadersAre, LocationsAnswers
    <3> QED  BY <2>1, <3>1, <3>2, <3>3, <3>4
  <2>4. reading = 2 => refusal = Superblock(len)
    BY <2>1, HeadersAre
  <2> QED  BY <1>1, <1>2, <1>4, <2>3, <2>4 DEF RefusedAs
<1>5. CASE reading = 5
  BY <1>1, <1>2, <1>5 DEF RefusedAs
<1> QED  BY <1>0, <1>3, <1>4, <1>5

LEMMA Agreement == ExamInv => AuditAgreesWithReaders
<1> SUFFICES ASSUME ExamInv, stage = "done" PROVE AuditAgreesWithReaders
  BY DEF AuditAgreesWithReaders
<1>0. /\ OpenInv /\ OpenTyped /\ HeadersRead /\ ~Undecided /\ Verdicts /\ OneVerdictOnRejection
      /\ reading \in 0 .. 5 /\ medium \in Medium /\ len \in Nat /\ SuperblockOffset \in Nat
  BY ReadingTyped DEF ExamInv, OpenInv, AuditInv, Staged
<1>1. Reported("boot_signature") <=> RefusedAs("BadSignature")
  BY <1>0, RefusedSignature DEF Verdicts
<1>2. "boot" \notin Accepted => \A i \in DOMAIN out : out[i].kind = "boot_signature"
  <2> SUFFICES ASSUME "boot" \notin Accepted, NEW i \in DOMAIN out
               PROVE  out[i].kind = "boot_signature"
    OBVIOUS
  <2>1. ~BootParsed
    BY <1>0, AcceptedAre, RefusedSignature
  <2>2. ~Reported("geometry") /\ out[i].kind \in {"boot_signature", "geometry"}
    BY <1>0, <2>1 DEF Verdicts, OneVerdictOnRejection
  <2> QED  BY <2>2 DEF Reported
<1>3. "superblock" \in Accepted /\ SaneCluster =>
          (Reported("supb_self_block") <=> Superblock(len).value # SuperblockCluster)
  BY <1>0, AcceptedAre, AuditSees DEF Verdicts, Sound, Ok
<1>4. "version" \in Accepted /\ "superblock" \notin Accepted =>
          /\ ~Reported("checkpoints")
          /\ Reported("supb_self_block") => RefusedAs("Truncated")
  <2> SUFFICES ASSUME "version" \in Accepted, "superblock" \notin Accepted
               PROVE  /\ ~Reported("checkpoints")
                      /\ Reported("supb_self_block") => RefusedAs("Truncated")
    OBVIOUS
  <2>1. reading = 2 /\ refusal = Superblock(len) /\ refusal.status # "ok"
    BY <1>0, AcceptedAre, RefusedSignature
  <2>2. HeaderLen \in Int /\ HeaderLen = len - SuperblockOffset
    BY <1>0, AuditSees
  <2>3. ASSUME SuperblockSeen PROVE SuperblockOffset <= len /\ SupbRead(HeaderLen)
    BY <1>0, <2>2, <2>3 DEF SuperblockSeen
  <2>4. ASSUME SuperblockSeen, CheckpointsRead PROVE FALSE
    <3>1. CountEnd <= HeaderLen
      BY <1>0, <2>2, <2>4, LocationsAnswers DEF CheckpointsRead
    <3>2. medium.supb /\ medium.clusterSize > 0
      BY <2>3, <2>4 DEF SupbRead
    <3>3. SuperblockOffset + SelfBlockEnd <= len
      BY <1>0, <2>2, <3>1, LayoutType
    <3> QED  BY <1>0, <2>1, <3>2, <3>3, SuperblockAnswers
  <2>5. ASSUME SuperblockSeen PROVE refusal.status = "Truncated"
    <3>1. Superblock(len) = BlockHeader(len - SuperblockOffset, SelfBlockEnd)
      BY <1>0, <2>3, <2>5, SuperblockAnswers
    <3>2. Superblock(len).status # "BadBlockSignature"
      BY <2>2, <2>3, <2>5, <3>1 DEF BlockHeader, Truncated, Ok
    <3> QED  BY <1>0, <2>1, <3>2, SuperblockAnswers
  <2> QED  BY <1>0, <2>4, <2>5 DEF Verdicts, RefusedAs
<1>5. "block" \in Accepted => MetaBlock(HeaderLen) = Superblock(len)
  BY <1>0, AcceptedAre, AuditSees
<1>6. Opened /\ SaneCluster => (Reported("checkpoints") <=> Locations(HeaderLen).value = 0)
  <2>1. Opened => reading = 5
    BY HeadersAre DEF Opened
  <2> QED  BY <1>0, <2>1, AuditSees DEF Verdicts, Sound, Ok
<1>7. \A start \in {0, SelfBlockEnd}, end \in 0 .. CountEnd :
          "superblock" \in Accepted /\ CrcAnomaly(HeaderLen, start, end) # {} =>
              \A n \in HeaderLen .. CountEnd : VerifyCrc32c(n, start, end) = "mismatch"
  <2> SUFFICES ASSUME NEW start \in {0, SelfBlockEnd}, NEW end \in 0 .. CountEnd,
                      CrcAnomaly(HeaderLen, start, end) # {}, NEW n \in HeaderLen .. CountEnd
               PROVE  VerifyCrc32c(n, start, end) = "mismatch"
    OBVIOUS
  <2>1. VerifyCrc32c(HeaderLen, start, end) = "mismatch"
    BY DEF CrcAnomaly
  <2>2. HeaderLen \in Int /\ CountEnd \in Nat /\ SelfBlockEnd \in Nat
    BY <1>0, AuditSees, LayoutType
  <2> QED  BY <2>1, <2>2, VerdictOutlasts
<1> QED
  BY <1>1, <1>2, <1>3, <1>4, <1>5, <1>6, <1>7 DEF AuditAgreesWithReaders

(***************************************************************************)
(* The readers and the auditor never contradict each other about an image, *)
(* wherever it is cut (forensic/src/lib.rs:340-384 and 468-483,            *)
(* core/src/superblock.rs:70-98, core/src/metablock.rs:107-153).           *)
(***************************************************************************)
THEOREM AuditAndReadersAgree == Spec => []AuditAgreesWithReaders
  BY ExamInvHolds, Agreement, PTL
==============================================================================
