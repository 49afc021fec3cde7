-------------------------- MODULE ResidueScanProofs --------------------------
(***************************************************************************)
(* Theorems about recover_residue on any image: which page it takes for    *)
(* the current version, and what it surfaces.                              *)
(***************************************************************************)
EXTENDS ResidueScan, TLAPS

(***************************************************************************)
(* The inductive invariant.  Pass 1 has the highest of the root pages it   *)
(* went through; pass 2 has the highest of all of them and the residue of  *)
(* those it went through.                                                  *)
(***************************************************************************)
Passed(n) == {c \in RootPages(image) : c < n}

CurrentOf(S) ==
    IF S = {} THEN current = Nothing
    ELSE \E c \in S :
            /\ \A d \in S :
                  image[d].self < image[c].self \/ (image[d].self = image[c].self /\ c <= d)
            /\ current = [self |-> image[c].self, names |-> Carve(image[c])]

HighestSoFar == CurrentOf(IF pass = 1 THEN Passed(at) ELSE RootPages(image))

Typed == image \in Image /\ ScanTypeOK

\* The function returns only when pass 2 went through every cluster.
AllPassed == Returned => at = Clusters

ScanInv == Typed /\ HighestSoFar /\ ResidueIsExact /\ AllPassed

-----------------------------------------------------------------------------
\* A root page is a page of the image at one of its clusters (lib.rs:605-616).
LEMMA RootPageType ==
    ASSUME image \in Image, NEW c \in RootPages(image)
    PROVE  /\ c \in Cluster /\ c \in Nat /\ c < Clusters
           /\ image[c].self \in Nat
           /\ image[c].table \in Tables
           /\ Carve(image[c]) \in Seq(Entries)
<1>1. c \in Cluster /\ image[c] \in Page
  BY DEF RootPages, MsbClusters, Image
<1>2. Carve(image[c]) \in Seq(Entries)
  BY <1>1 DEF Page, Carve
<1> QED  BY <1>1, <1>2, SizesAssumption DEF Page, Cluster

\* One more cluster adds its page if it is a root page, and nothing otherwise.
LEMMA PassedStep ==
    ASSUME image \in Image, NEW n \in Nat
    PROVE  /\ n \in RootPages(image) => Passed(n + 1) = Passed(n) \cup {n}
           /\ n \notin RootPages(image) => Passed(n + 1) = Passed(n)
           /\ n >= Clusters => Passed(n) = RootPages(image)
           /\ Passed(0) = {}
<1>1. \A c \in RootPages(image) : c \in Nat /\ c < Clusters
  BY RootPageType
<1>2. \A c \in Nat : c < n + 1 <=> c < n \/ c = n
  OBVIOUS
<1> QED  BY <1>1, <1>2, SizesAssumption DEF Passed

\* The names kept with a page are the entries it carves to.
LEMMA RangeType ==
    ASSUME NEW s \in Seq(Entries)
    PROVE  Range(s) \subseteq Entries
  BY DEF Range

-----------------------------------------------------------------------------
LEMMA InitHolds == image \in Image /\ ScanInit => ScanInv
<1> SUFFICES ASSUME image \in Image, ScanInit PROVE ScanInv
  OBVIOUS
<1>1. Typed
  BY SizesAssumption DEF Typed, ScanTypeOK, ScanInit
<1>2. HighestSoFar
  BY PassedStep DEF HighestSoFar, CurrentOf, ScanInit
<1>3. ResidueIsExact
  <2>1. \A c \in RootPages(image) : ~(c < 0)
    BY RootPageType
  <2> QED  BY <2>1 DEF ResidueIsExact, ScanInit
<1>4. AllPassed
  BY DEF AllPassed, Returned, ScanInit
<1> QED  BY <1>1, <1>2, <1>3, <1>4 DEF ScanInv

\* What pass 1 keeps when it takes a page for current.
LEMMA RecordType ==
    ASSUME Typed, at \in RootPages(image), Record
    PROVE  current' \in Current
  BY RootPageType DEF Typed, Record, Current

\* What pass 2 surfaces of a page.
LEMMA SurfacedType ==
    ASSUME Typed, at \in RootPages(image)
    PROVE  [self |-> image[at].self, table |-> image[at].table, at |-> at,
            names |-> Dropped(image[at], current)] \in StalePage
<1>1. Range(Carve(image[at])) \subseteq Entries
  BY RootPageType, RangeType DEF Typed
<1> QED  BY <1>1, RootPageType DEF Typed, StalePage, Dropped

LEMMA TypeStep == Typed /\ [ScanNext]_vars => Typed'
<1> SUFFICES ASSUME Typed, [ScanNext]_vars PROVE Typed'
  OBVIOUS
<1> USE SizesAssumption DEF Typed, ScanTypeOK
<1>1. CASE SkipPage
  BY <1>1 DEF SkipPage, Scanning, Advance
<1>2. CASE RecordFirst
  BY <1>2, RecordType DEF RecordFirst, Visiting, Scanning, Advance
<1>3. CASE RecordHigher
  BY <1>3, RecordType DEF RecordHigher, Visiting, Scanning, Advance
<1>4. CASE KeepCurrent
  BY <1>4 DEF KeepCurrent, Visiting, Scanning, Advance
<1>5. CASE EndPass1
  BY <1>5 DEF EndPass1
<1>6. CASE SkipCurrent
  BY <1>6 DEF SkipCurrent, Visiting, Scanning, Advance
<1>7. CASE SkipSurvived
  BY <1>7 DEF SkipSurvived, Visiting, Scanning, Advance
<1>8. CASE Surface
  BY <1>8, SurfacedType DEF Surface, Visiting, Scanning, Advance
<1>9. CASE EndPass2
  BY <1>9 DEF EndPass2
<1>10. CASE UNCHANGED vars
  BY <1>10 DEF vars, scanVars
<1> QED
  BY <1>1, <1>2, <1>3, <1>4, <1>5, <1>6, <1>7, <1>8, <1>9, <1>10 DEF ScanNext

-----------------------------------------------------------------------------
(***************************************************************************)
(* Pass 1: a higher page becomes the witness, any other leaves it, and the *)
(* first of several with one number stays.                                 *)
(***************************************************************************)
LEMMA HighestStep == Typed /\ HighestSoFar /\ [ScanNext]_vars => HighestSoFar'
<1> SUFFICES ASSUME Typed, HighestSoFar, [ScanNext]_vars PROVE HighestSoFar'
  OBVIOUS
<1>0. image \in Image /\ at \in Nat /\ at <= Clusters /\ pass \in 1 .. 3
  BY SizesAssumption DEF Typed, ScanTypeOK
<1>1. CASE SkipPage
  <2>1. pass = 1 => Passed(at') = Passed(at)
    BY <1>0, <1>1, PassedStep DEF SkipPage, Advance
  <2> QED  BY <2>1, <1>1 DEF SkipPage, HighestSoFar, CurrentOf, Passed, RootPages
<1>2. CASE RecordFirst
  <2>1. pass = 1 /\ at \in RootPages(image) /\ at' = at + 1 /\ image' = image /\ pass' = pass
    BY <1>2 DEF RecordFirst, Visiting, Scanning, Advance
  <2>2. Passed(at) = {}
    BY <1>2, <2>1, NothingAssumption, RootPageType DEF RecordFirst, HighestSoFar, CurrentOf,
       Typed, Current, Passed
  <2>3. Passed(at)' = {at}
    BY <1>0, <2>1, <2>2, PassedStep DEF Passed
  <2> QED  BY <1>0, <1>2, <2>1, <2>3 DEF RecordFirst, Record, HighestSoFar, CurrentOf
<1>3. CASE RecordHigher
  <2>1. pass = 1 /\ at \in RootPages(image) /\ at' = at + 1 /\ image' = image /\ pass' = pass
    BY <1>3 DEF RecordHigher, Visiting, Scanning, Advance
  <2>2. Passed(at)' = Passed(at) \cup {at}
    BY <1>0, <2>1, PassedStep DEF Passed
  <2>3. PICK c \in Passed(at) :
            /\ \A d \in Passed(at) :
                  image[d].self < image[c].self \/ (image[d].self = image[c].self /\ c <= d)
            /\ current = [self |-> image[c].self, names |-> Carve(image[c])]
    BY <1>3, <2>1 DEF RecordHigher, HighestSoFar, CurrentOf
  <2>4. \A d \in Passed(at) : image[d].self < image[at].self
    <3>1. image[at].self > image[c].self
      BY <1>3, <2>3 DEF RecordHigher
    <3>2. c \in RootPages(image) /\ image[c].self \in Nat /\ image[at].self \in Nat
      BY <1>0, <2>1, RootPageType DEF Passed
    <3>3. \A d \in Passed(at) : image[d].self \in Nat
      BY <1>0, RootPageType DEF Passed
    <3> QED  BY <2>3, <3>1, <3>2, <3>3
  <2>5. current' = [self |-> image[at].self, names |-> Carve(image[at])]
    BY <1>3 DEF RecordHigher, Record
  <2> QED  BY <1>0, <2>1, <2>2, <2>4, <2>5 DEF HighestSoFar, CurrentOf
<1>4. CASE KeepCurrent
  <2>1. /\ pass = 1 /\ at \in RootPages(image) /\ at' = at + 1 /\ image' = image /\ pass' = pass
        /\ current' = current
    BY <1>4 DEF KeepCurrent, Visiting, Scanning, Advance
  <2>2. Passed(at)' = Passed(at) \cup {at}
    BY <1>0, <2>1, PassedStep DEF Passed
  <2>3. PICK c \in Passed(at) :
            /\ \A d \in Passed(at) :
                  image[d].self < image[c].self \/ (image[d].self = image[c].self /\ c <= d)
            /\ current = [self |-> image[c].self, names |-> Carve(image[c])]
    BY <1>4, <2>1 DEF KeepCurrent, HighestSoFar, CurrentOf
  <2>4. image[at].self < image[c].self \/ (image[at].self = image[c].self /\ c <= at)
    <3>1. image[at].self <= image[c].self
      BY <1>4, <2>3 DEF KeepCurrent
    <3>2. c \in RootPages(image) /\ c < at
      BY DEF Passed
    <3>3. c \in Nat /\ image[c].self \in Nat /\ image[at].self \in Nat
      BY <1>0, <2>1, <3>2, RootPageType
    <3> QED  BY <1>0, <3>1, <3>2, <3>3
  <2> QED  BY <2>1, <2>2, <2>3, <2>4 DEF HighestSoFar, CurrentOf
<1>5. CASE EndPass1
  <2>1. pass = 1 /\ pass' = 2 /\ UNCHANGED <<image, current>> /\ Passed(at) = RootPages(image)
    BY <1>0, <1>5, PassedStep, SizesAssumption DEF EndPass1
  <2> QED  BY <2>1 DEF HighestSoFar, CurrentOf
<1>6. CASE SkipCurrent \/ SkipSurvived \/ Surface \/ EndPass2
  <2>1. pass # 1 /\ pass' # 1 /\ UNCHANGED <<image, current>>
    BY <1>6 DEF SkipCurrent, SkipSurvived, Surface, EndPass2, Visiting, Scanning
  <2> QED  BY <2>1 DEF HighestSoFar, CurrentOf
<1>7. CASE UNCHANGED vars
  BY <1>7 DEF vars, scanVars, HighestSoFar, CurrentOf, Passed
<1> QED
  BY <1>1, <1>2, <1>3, <1>4, <1>5, <1>6, <1>7 DEF ScanNext

-----------------------------------------------------------------------------
(***************************************************************************)
(* Pass 2: what was surfaced lies below the cluster it is at, so a page    *)
(* surfaced now comes last, and every page is judged by the same record.   *)
(***************************************************************************)
StaleBelow(n) ==
    {c \in RootPages(image) :
        /\ c < n
        /\ image[c].self < current.self
        /\ \E name \in Range(Carve(image[c])) : name \notin Range(current.names)}

LEMMA ResidueStep ==
    Typed /\ HighestSoFar /\ ResidueIsExact /\ [ScanNext]_vars => ResidueIsExact'
<1> SUFFICES ASSUME Typed, HighestSoFar, ResidueIsExact, [ScanNext]_vars PROVE ResidueIsExact'
  OBVIOUS
<1>0. /\ image \in Image /\ at \in Nat /\ at <= Clusters /\ pass \in 1 .. 3
      /\ out \in Seq(StalePage)
  BY SizesAssumption DEF Typed, ScanTypeOK
<1>a. \A n \in Nat : n \notin RootPages(image) => StaleBelow(n + 1) = StaleBelow(n)
  BY RootPageType, <1>0 DEF StaleBelow
<1>b. StaleBelow(0) = {}
  BY RootPageType, <1>0 DEF StaleBelow
<1>1. CASE pass = 1
  <2>1. out = << >>
    BY <1>0, <1>1, <1>b DEF ResidueIsExact, StaleBelow
  <2>2. out' = << >> /\ image' = image
    BY <1>1, <2>1 DEF ScanNext, SkipPage, RecordFirst, RecordHigher, KeepCurrent, EndPass1,
       SkipCurrent, SkipSurvived, Surface, EndPass2, Visiting, Scanning, vars, scanVars
  <2>3. pass' = 1 \/ (pass' = 2 /\ at' = 0)
    BY <1>1 DEF ScanNext, SkipPage, RecordFirst, RecordHigher, KeepCurrent, EndPass1,
       SkipCurrent, SkipSurvived, Surface, EndPass2, Visiting, Scanning, vars, scanVars
  <2>4. \A c \in RootPages(image) : ~(c < 0)
    BY <1>0, RootPageType
  <2> QED  BY <2>2, <2>3, <2>4 DEF ResidueIsExact
<1>2. CASE pass # 1
  <2> USE <1>2
  <2>0. pass' # 1 /\ image' = image /\ current' = current
    BY DEF ScanNext, SkipPage, RecordFirst, RecordHigher, KeepCurrent, EndPass1,
       SkipCurrent, SkipSurvived, Surface, EndPass2, Visiting, Scanning, vars, scanVars
  <2>e. {out[i].at : i \in DOMAIN out} = StaleBelow(at)
    BY DEF ResidueIsExact, StaleBelow
  <2>1. CASE out' = out /\ StaleBelow(at') = StaleBelow(at)
    BY <2>0, <2>1 DEF ResidueIsExact, StaleBelow
  <2>2. CASE SkipPage
    BY <1>0, <1>a, <2>1, <2>2 DEF SkipPage, Advance
  <2>3. ASSUME at \in RootPages(image) PROVE current.self \in Nat
    <3>1. PICK c \in RootPages(image) :
              current = [self |-> image[c].self, names |-> Carve(image[c])]
      BY <2>3 DEF HighestSoFar, CurrentOf
    <3> QED  BY <1>0, <3>1, RootPageType
  <2>4. CASE SkipCurrent
    <3>1. at \in RootPages(image) /\ at' = at + 1 /\ out' = out
      BY <2>4 DEF SkipCurrent, Visiting, Advance
    <3>2. image[at].self \in Nat /\ current.self \in Nat
      BY <1>0, <2>3, <3>1, RootPageType
    <3>3. ~(image[at].self < current.self)
      BY <2>4, <3>2 DEF SkipCurrent, NotStale
    <3>4. StaleBelow(at + 1) = StaleBelow(at)
      BY <1>0, <3>3, RootPageType DEF StaleBelow
    <3> QED  BY <2>1, <3>1, <3>4
  <2>5. CASE SkipSurvived
    <3>1. at \in RootPages(image) /\ at' = at + 1 /\ out' = out
      BY <2>5 DEF SkipSurvived, Visiting, Advance
    <3>2. ~(\E name \in Range(Carve(image[at])) : name \notin Range(current.names))
      BY <2>5 DEF SkipSurvived, Dropped
    <3>3. StaleBelow(at + 1) = StaleBelow(at)
      BY <1>0, <3>2, RootPageType DEF StaleBelow
    <3> QED  BY <2>1, <3>1, <3>3
  <2>6. CASE Surface
    <3> DEFINE page == [self |-> image[at].self, table |-> image[at].table, at |-> at,
                        names |-> Dropped(image[at], current)]
    <3>1. at \in RootPages(image) /\ at' = at + 1 /\ out' = Append(out, page)
      BY <2>6 DEF Surface, Visiting, Advance
    <3>2. image[at].self \in Nat /\ current.self \in Nat
      BY <1>0, <2>3, <3>1, RootPageType
    <3>3. image[at].self < current.self
      BY <2>6, <3>2 DEF Surface, NotStale
    <3>4. \E name \in Range(Carve(image[at])) : name \notin Range(current.names)
      BY <2>6 DEF Surface, Dropped
    <3>5. StaleBelow(at + 1) = StaleBelow(at) \cup {at}
      <4>1. \A c \in RootPages(image) : c < at + 1 <=> c < at \/ c = at
        BY <1>0, RootPageType
      <4> QED  BY <3>1, <3>3, <3>4, <4>1 DEF StaleBelow
    <3>6. page \in StalePage
      BY <3>1, SurfacedType
    <3>7. /\ Len(out') = Len(out) + 1
          /\ \A i \in 1 .. Len(out) : out'[i] = out[i]
          /\ out'[Len(out) + 1] = page
          /\ DOMAIN out = 1 .. Len(out) /\ DOMAIN out' = 1 .. Len(out) + 1
          /\ Len(out) \in Nat
      BY <1>0, <3>1, <3>6
    <3>8. \A i \in DOMAIN out : out[i].at \in Nat /\ out[i].at < at
      BY <1>0, <2>e, RootPageType DEF StaleBelow
    <3>9. {out'[i].at : i \in DOMAIN out'} = StaleBelow(at')
      BY <2>e, <3>1, <3>5, <3>7
    <3>10. \A i, j \in DOMAIN out' : i < j => out'[i].at < out'[j].at
      BY <3>7, <3>8 DEF ResidueIsExact
    <3>11. \A i \in DOMAIN out' :
              /\ out'[i].self = image[out'[i].at].self
              /\ out'[i].names = Range(Carve(image[out'[i].at])) \ Range(current.names)
      BY <3>7 DEF ResidueIsExact, Dropped
    <3> HIDE DEF page
    <3> QED  BY <2>0, <3>9, <3>10, <3>11 DEF ResidueIsExact, StaleBelow
  <2>7. CASE EndPass2 \/ UNCHANGED vars
    BY <2>1, <2>7 DEF EndPass2, vars, scanVars
  <2>8. ~(RecordFirst \/ RecordHigher \/ KeepCurrent \/ EndPass1)
    BY DEF RecordFirst, RecordHigher, KeepCurrent, EndPass1, Visiting, Scanning
  <2> QED
    BY <2>2, <2>4, <2>5, <2>6, <2>7, <2>8 DEF ScanNext
<1> QED  BY <1>1, <1>2

-----------------------------------------------------------------------------
\* What any step of a scan of any image keeps.
LEMMA ScanStep == ScanInv /\ [ScanNext]_vars => ScanInv'
<1>1. Typed /\ AllPassed /\ [ScanNext]_vars => AllPassed'
  BY DEF AllPassed, Returned, Typed, ScanTypeOK, ScanNext, SkipPage, RecordFirst,
     RecordHigher, KeepCurrent, EndPass1, SkipCurrent, SkipSurvived, Surface, EndPass2,
     Visiting, Scanning, vars, scanVars
<1> QED  BY <1>1, TypeStep, HighestStep, ResidueStep DEF ScanInv

LEMMA ScanInvHolds == Spec => []ScanInv
<1>1. Init => ScanInv
  BY InitHolds, ResidueAssumption DEF Init
<1> QED  BY <1>1, ScanStep, PTL DEF Spec

(***************************************************************************)
(* The scan keeps its types on every image (lib.rs:545-601).               *)
(***************************************************************************)
THEOREM ResidueTypeCorrect == Spec => []ScanTypeOK
<1>1. ScanInv => ScanTypeOK
  BY DEF ScanInv, Typed
<1> QED  BY <1>1, ScanInvHolds, PTL

\* What the invariant of pass 1 says at its end.
LEMMA HighestAtEnd == ScanInv => CurrentIsHighest
<1> SUFFICES ASSUME ScanInv, pass >= 2, RootPages(image) # {}
             PROVE  \E c \in RootPages(image) :
                       /\ IsCurrentPage(image, c)
                       /\ current = [self |-> image[c].self, names |-> Carve(image[c])]
  BY DEF ScanInv, HighestSoFar, CurrentOf, CurrentIsHighest
<1> QED  BY DEF ScanInv, HighestSoFar, CurrentOf, IsCurrentPage

(***************************************************************************)
(* On any image, well-formed or not, pass 2 judges by the names of the     *)
(* first of the highest-numbered root pages (lib.rs:556-562, 576-583).     *)
(***************************************************************************)
THEOREM ResidueJudgesByHighest == Spec => []CurrentIsHighest
  BY ScanInvHolds, HighestAtEnd, PTL

(***************************************************************************)
(* On any image, what is surfaced is exactly the names lower-numbered root *)
(* pages hold and the current one does not, each page once and in order    *)
(* (lib.rs:535-538, 569-599).                                              *)
(***************************************************************************)
THEOREM ResidueSurfacesExactly == Spec => []ResidueIsExact
<1>1. ScanInv => ResidueIsExact
  BY DEF ScanInv
<1> QED  BY <1>1, ScanInvHolds, PTL
=============================================================================
