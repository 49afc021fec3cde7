----------------------- MODULE ContainerResolverProofs -----------------------
(***************************************************************************)
(* Proofs about the resident scan, for every image, band size and number   *)
(* of clusters.                                                            *)
(***************************************************************************)
EXTENDS ContainerResolver, ContainerBaseProofs

(***************************************************************************)
(* The scan's variables have their types, and nothing is learned when the  *)
(* band size is zero (container.rs:209-214).                               *)
(***************************************************************************)
Typed == TypeOK /\ (band = 0 => base = EmptyBase)

(***************************************************************************)
(* They have them before the first cluster (container.rs:215-218).         *)
(***************************************************************************)
LEMMA ScanTypedInit == Init => Typed
<1>1. DOMAIN EmptyBase = {}
  BY DEF EmptyBase
<1>2. 0 \in 0 .. Clusters
  BY SizesAssumption
<1> QED BY <1>1, <1>2 DEF Init, Typed, TypeOK

(***************************************************************************)
(* Every step of the scan keeps the types (container.rs:219-241).          *)
(***************************************************************************)
LEMMA ScanTypedNext == Typed /\ [Next]_vars => Typed'
<1> SUFFICES ASSUME Typed, [Next]_vars PROVE Typed'
  OBVIOUS
<1>0. image \in Image /\ band \in Nat
  BY ScanAssumption DEF Typed, TypeOK
<1>1. CASE ZeroBand
  BY <1>1 DEF ZeroBand, Typed, TypeOK
<1>2. CASE StopScan
  BY <1>2 DEF StopScan, Typed, TypeOK
<1>3. CASE SkipCluster
  BY <1>3, SizesAssumption DEF SkipCluster, Inspecting, Typed, TypeOK
<1>4. CASE SkipInconsistent
  BY <1>4, SizesAssumption DEF SkipInconsistent, Inspecting, Typed, TypeOK
<1>5. CASE KeepFirst
  BY <1>5, SizesAssumption DEF KeepFirst, Inspecting, Typed, TypeOK
<1>6. CASE LearnBase
  <2>1. c \in Cluster /\ image[c] # NoPage /\ ImpliesBase(image, band, c)
    BY <1>6, SizesAssumption DEF LearnBase, Inspecting, Typed, TypeOK, Cluster
  <2>2. image[c].self \in Nat
    BY <1>0, <2>1 DEF Image, Page
  <2>3. Idx \in Nat
    BY <1>0, <2>2, DecomposeType DEF Idx
  <2>4. ImpliedBase(image, band, c) \in Cluster
    BY <1>0, <2>1, ImpliedBaseType
  <2>5. DOMAIN base' = DOMAIN base \cup {Idx} /\ c' = c + 1
           /\ UNCHANGED <<image, band, done>> /\ band # 0
    BY <1>6 DEF LearnBase, Inspecting
  <2>6. \A i \in DOMAIN base' : base'[i] \in Cluster
    BY <1>6, <2>4, <2>5 DEF LearnBase, Typed, TypeOK
  <2> QED BY <2>1, <2>3, <2>5, <2>6, SizesAssumption DEF Typed, TypeOK, Cluster
<1>7. CASE UNCHANGED vars
  BY <1>7 DEF vars, Typed, TypeOK
<1> QED BY <1>1, <1>2, <1>3, <1>4, <1>5, <1>6, <1>7 DEF Next

(***************************************************************************)
(* Every reachable state of the scan is well typed.                        *)
(***************************************************************************)
THEOREM ScanTypeCorrect == Spec => []TypeOK
<1>1. Typed => TypeOK
  BY DEF Typed
<1> QED BY ScanTypedInit, ScanTypedNext, <1>1, PTL DEF Spec

-----------------------------------------------------------------------------
(***************************************************************************)
(* One more cluster adds at most itself to the witnesses of a container,   *)
(* and to the containers witnessed (one iteration, container.rs:219-241).  *)
(***************************************************************************)
LEMMA OneMoreCluster ==
    ASSUME NEW img, NEW b, NEW k \in Cluster
    PROVE  /\ \A idx : Witnesses(img, b, k + 1, idx) =
                  Witnesses(img, b, k, idx) \cup
                  {d \in {k} : /\ Fits(k) /\ img[k] # NoPage
                              /\ Container(img[k].self, b) = idx
                              /\ ImpliesBase(img, b, k)}
           /\ Witnessed(img, b, k + 1) =
                  Witnessed(img, b, k) \cup
                  {Container(img[d].self, b) :
                      d \in {e \in {k} : /\ Fits(k) /\ img[k] # NoPage
                                        /\ ImpliesBase(img, b, k)}}
<1>1. \A d \in Cluster : d < k + 1 <=> d < k \/ d = k
  BY SizesAssumption DEF Cluster
<1>2. MsbClusters(img) \subseteq Cluster
        /\ (k \in MsbClusters(img) <=> Fits(k) /\ img[k] # NoPage)
  BY DEF MsbClusters
<1>3. k < k + 1 /\ ~(k < k)
  BY SizesAssumption DEF Cluster
<1>4. ASSUME NEW idx
      PROVE  Witnesses(img, b, k + 1, idx) =
                  Witnesses(img, b, k, idx) \cup
                  {d \in {k} : /\ Fits(k) /\ img[k] # NoPage
                              /\ Container(img[k].self, b) = idx
                              /\ ImpliesBase(img, b, k)}
  BY <1>1, <1>2, <1>3 DEF Witnesses
<1>5. Witnessed(img, b, k + 1) =
                  Witnessed(img, b, k) \cup
                  {Container(img[d].self, b) :
                      d \in {e \in {k} : /\ Fits(k) /\ img[k] # NoPage
                                        /\ ImpliesBase(img, b, k)}}
  BY <1>1, <1>2, <1>3 DEF Witnessed
<1> QED BY <1>4, <1>5

(***************************************************************************)
(* What the scan keeps true: every base learned is the one its container's *)
(* lowest witness implies.  The witness is named, so that no step has to   *)
(* argue that a lowest one exists.                                         *)
(***************************************************************************)
Decided(idx) ==
    \E w \in Witnesses(image, band, c, idx) :
        /\ base[idx] = ImpliedBase(image, band, w)
        /\ \A d \in Witnesses(image, band, c, idx) : w <= d

LowestDecides ==
    band # 0 =>
        /\ DOMAIN base = Witnessed(image, band, c)
        /\ \A idx \in DOMAIN base : Decided(idx)
        /\ base = [idx \in DOMAIN base |-> base[idx]]
        /\ done => c = Clusters \/ ~Fits(c)

ScanInv == Typed /\ LowestDecides

(***************************************************************************)
(* Initially nothing has been scanned, so there is no witness to decide.   *)
(***************************************************************************)
LEMMA ScanInvInit == Init => ScanInv
<1> SUFFICES ASSUME Init PROVE ScanInv
  OBVIOUS
<1>1. DOMAIN EmptyBase = {} /\ EmptyBase = [idx \in DOMAIN EmptyBase |-> EmptyBase[idx]]
  BY DEF EmptyBase
<1>2. 0 \in 0 .. Clusters
  BY SizesAssumption
<1>3. Typed
  BY <1>1, <1>2 DEF Init, Typed, TypeOK
<1>4. \A d \in Cluster : ~(d < 0)
  BY SizesAssumption DEF Cluster
<1>5. Witnessed(image, band, 0) = {}
  BY <1>4 DEF Witnessed, MsbClusters
<1> QED BY <1>1, <1>3, <1>5 DEF Init, ScanInv, LowestDecides

(***************************************************************************)
(* A cluster that witnesses nothing leaves every decision as it was: the   *)
(* loop's two `continue`s (container.rs:225-227 and 235-237).              *)
(***************************************************************************)
LEMMA PassByKeeps ==
    ASSUME LowestDecides, c \in Cluster, band # 0, c' = c + 1, ~done,
           UNCHANGED <<image, band, base, done>>,
           image[c] = NoPage \/ ~ImpliesBase(image, band, c)
    PROVE  LowestDecides'
<1>1. ASSUME NEW idx
      PROVE  Witnesses(image, band, c + 1, idx) = Witnesses(image, band, c, idx)
  <2>1. Witnesses(image, band, c + 1, idx) =
            Witnesses(image, band, c, idx) \cup
            {d \in {c} : /\ Fits(c) /\ image[c] # NoPage
                        /\ Container(image[c].self, band) = idx
                        /\ ImpliesBase(image, band, c)}
    BY OneMoreCluster
  <2> QED BY <2>1
<1>2. Witnessed(image, band, c + 1) = Witnessed(image, band, c)
  <2>1. Witnessed(image, band, c + 1) =
            Witnessed(image, band, c) \cup
            {Container(image[d].self, band) :
                d \in {e \in {c} : /\ Fits(c) /\ image[c] # NoPage
                                  /\ ImpliesBase(image, band, c)}}
    BY OneMoreCluster
  <2> QED BY <2>1
<1>3. \A idx : Decided(idx) => Decided(idx)'
  BY <1>1 DEF Decided
<1> QED BY <1>2, <1>3 DEF LowestDecides

(***************************************************************************)
(* Every step of the scan keeps the decisions lowest-first.                *)
(***************************************************************************)
LEMMA ScanInvNext == ScanInv /\ [Next]_vars => ScanInv'
<1> SUFFICES ASSUME ScanInv, [Next]_vars PROVE ScanInv'
  OBVIOUS
<1>1. Typed'
  BY ScanTypedNext DEF ScanInv
<1>2. image \in Image /\ band \in Nat /\ c \in 0 .. Clusters /\ LowestDecides
  BY ScanAssumption DEF ScanInv, Typed, TypeOK
<1>3. Inspecting => c \in Cluster /\ c \in Nat /\ band # 0 /\ ~done /\ Fits(c)
  BY <1>2, SizesAssumption DEF Inspecting, Cluster
<1>4. CASE ZeroBand
  BY <1>1, <1>4 DEF ZeroBand, ScanInv, LowestDecides
<1>5. CASE StopScan
  <2>1. \A idx : Decided(idx) => Decided(idx)'
    BY <1>5 DEF StopScan, Decided
  <2> QED BY <1>1, <1>2, <1>5, <2>1 DEF StopScan, ScanInv, LowestDecides
<1>6. CASE SkipCluster
  BY <1>1, <1>2, <1>3, <1>6, PassByKeeps DEF SkipCluster, ScanInv
<1>7. CASE SkipInconsistent
  BY <1>1, <1>2, <1>3, <1>7, PassByKeeps DEF SkipInconsistent, ScanInv
<1>8. CASE KeepFirst
  <2>1. /\ Idx \in DOMAIN base
        /\ UNCHANGED <<image, band, base, done>>
        /\ c' = c + 1
        /\ c \in Cluster /\ band # 0 /\ ~done
    BY <1>3, <1>8 DEF KeepFirst, AlreadyKnown
  <2>2. Witnessed(image, band, c + 1) = Witnessed(image, band, c)
    BY <1>2, <2>1, OneMoreCluster DEF Idx, LowestDecides
  <2>3. ASSUME NEW idx, Decided(idx) PROVE Decided(idx)'
    <3>1. PICK w \in Witnesses(image, band, c, idx) :
              /\ base[idx] = ImpliedBase(image, band, w)
              /\ \A d \in Witnesses(image, band, c, idx) : w <= d
      BY <2>3 DEF Decided
    <3>2. w <= c
      BY <2>1, <3>1, SizesAssumption DEF Witnesses, MsbClusters, Cluster
    <3>3. w \in Witnesses(image, band, c + 1, idx)
             /\ \A d \in Witnesses(image, band, c + 1, idx) : w <= d
      BY <2>1, <3>1, <3>2, OneMoreCluster
    <3> QED BY <2>1, <3>1, <3>3 DEF Decided
  <2> QED BY <1>1, <1>2, <2>1, <2>2, <2>3 DEF ScanInv, LowestDecides
<1>9. CASE LearnBase
  <2>0. PICK k : k = Idx    \* a rigid name: Idx itself changes with c
    OBVIOUS
  <2>1. /\ k \notin DOMAIN base
        /\ UNCHANGED <<image, band, done>>
        /\ c' = c + 1
        /\ c \in Cluster /\ band # 0 /\ ~done /\ Fits(c)
        /\ image[c] # NoPage /\ ImpliesBase(image, band, c)
        /\ base' = [i \in DOMAIN base \cup {k} |->
                       IF i = k THEN ImpliedBase(image, band, c) ELSE base[i]]
    BY <2>0, <1>3, <1>9 DEF LearnBase, AlreadyKnown
  <2>2. DOMAIN base' = DOMAIN base \cup {k} /\ base' = [i \in DOMAIN base' |-> base'[i]]
    BY <2>1
  <2>3. Witnessed(image, band, c + 1) = DOMAIN base'
    BY <1>2, <2>0, <2>1, <2>2, OneMoreCluster DEF Idx, LowestDecides
  <2>4. Witnesses(image, band, c, k) = {}
    BY <1>2, <2>0, <2>1 DEF Witnesses, Witnessed, LowestDecides
  <2>5. Witnesses(image, band, c + 1, k) = {c}
    BY <2>0, <2>1, <2>4, OneMoreCluster DEF Idx
  <2>6. c <= c /\ base'[k] = ImpliedBase(image, band, c)
    BY <1>2, <2>1, <2>2
  <2>7. Decided(k)'
    <3>1. \E w \in Witnesses(image, band, c + 1, k) :
             /\ base'[k] = ImpliedBase(image, band, w)
             /\ \A d \in Witnesses(image, band, c + 1, k) : w <= d
      BY <2>5, <2>6
    <3>2. image' = image /\ band' = band /\ c' = c + 1
      BY <2>1
    <3> QED BY <3>1, <3>2 DEF Decided
  <2>8. ASSUME NEW idx \in DOMAIN base PROVE Decided(idx)'
    <3>1. PICK w \in Witnesses(image, band, c, idx) :
              /\ base[idx] = ImpliedBase(image, band, w)
              /\ \A d \in Witnesses(image, band, c, idx) : w <= d
      BY <1>2, <2>1, <2>8 DEF Decided, LowestDecides
    <3>2. Witnesses(image, band, c + 1, idx) = Witnesses(image, band, c, idx)
      BY <2>0, <2>1, OneMoreCluster DEF Idx
    <3>3. base'[idx] = base[idx]
      BY <2>1
    <3> QED BY <2>1, <3>1, <3>2, <3>3 DEF Decided
  <2>9. \A idx \in DOMAIN base' : Decided(idx)'
    BY <2>2, <2>7, <2>8
  <2> QED BY <1>1, <2>1, <2>2, <2>3, <2>9 DEF ScanInv, LowestDecides
<1>10. CASE UNCHANGED vars
  <2>1. \A idx : Decided(idx) => Decided(idx)'
    BY <1>10 DEF vars, Decided
  <2> QED BY <1>1, <1>2, <1>10, <2>1 DEF vars, ScanInv, LowestDecides
<1> QED BY <1>4, <1>5, <1>6, <1>7, <1>8, <1>9, <1>10 DEF Next

(***************************************************************************)
(* The base map the scan has built is, in every reachable state, the map   *)
(* of lowest witnesses over the clusters scanned; what the constructor     *)
(* returns is ResidentBase (container.rs:207-246).                         *)
(***************************************************************************)
LEMMA LowestIsFirstWitness == ScanInv => BaseIsFirstWitness
<1> SUFFICES ASSUME ScanInv PROVE BaseIsFirstWitness
  OBVIOUS
<1>1. CASE band = 0
  BY <1>1 DEF ScanInv, Typed, BaseIsFirstWitness
<1>2. CASE band # 0
  <2>1. \A idx \in DOMAIN base :
            base[idx] = ImpliedBase(image, band, FirstWitness(image, band, c, idx))
    <3> SUFFICES ASSUME NEW idx \in DOMAIN base
                 PROVE  base[idx] = ImpliedBase(image, band, FirstWitness(image, band, c, idx))
      OBVIOUS
    <3>1. PICK w \in Witnesses(image, band, c, idx) :
              /\ base[idx] = ImpliedBase(image, band, w)
              /\ \A d \in Witnesses(image, band, c, idx) : w <= d
      BY <1>2 DEF ScanInv, LowestDecides, Decided
    <3> QED BY <3>1, FirstWitnessIs
  <2>2. base = BaseBelow(image, band, c)
    BY <1>2, <2>1 DEF ScanInv, LowestDecides, BaseBelow
  <2>3. ASSUME done PROVE BaseBelow(image, band, c) = BaseBelow(image, band, Clusters)
    <3>1. c \in 0 .. Clusters /\ (c = Clusters \/ ~Fits(c))
      BY <1>2, <2>3 DEF ScanInv, LowestDecides, Typed, TypeOK
    <3>2. \A d \in Cluster : Fits(d) => (d < c <=> d < Clusters)
      BY <3>1, SizesAssumption DEF Fits, Cluster
    <3>3. \A idx : Witnesses(image, band, c, idx) = Witnesses(image, band, Clusters, idx)
      BY <3>2 DEF Witnesses, MsbClusters
    <3>4. Witnessed(image, band, c) = Witnessed(image, band, Clusters)
      BY <3>2 DEF Witnessed, MsbClusters
    <3>5. \A idx : FirstWitness(image, band, c, idx) = FirstWitness(image, band, Clusters, idx)
      BY <3>3 DEF FirstWitness
    <3> QED BY <3>4, <3>5 DEF BaseBelow
  <2> QED BY <1>2, <2>2, <2>3 DEF BaseIsFirstWitness, ResidentBase
<1> QED BY <1>1, <1>2

(***************************************************************************)
(* At every step the map is the map of the lowest witnesses, and at the    *)
(* end the one DirectoryWalk starts from (container.rs:219-241).           *)
(***************************************************************************)
THEOREM ScanFindsFirstWitness == Spec => []BaseIsFirstWitness
<1> QED BY ScanInvInit, ScanInvNext, LowestIsFirstWitness, PTL DEF Spec

(***************************************************************************)
(* Whatever a learned container's blocks are asked for, the answer is less *)
(* than one band past the image (container.rs:235, 262-267).               *)
(***************************************************************************)
THEOREM ScanResolvesNearImage == Spec => []ResolvedNearImage
<1>1. Typed => ResolvedNearImage
  <2> SUFFICES ASSUME Typed, NEW idx \in DOMAIN base
               PROVE  ResolveVirtual(base, band, idx * band + band - 1) < Clusters + band
    BY DEF ResolvedNearImage
  <2>1. band \in Nat /\ idx \in Nat /\ band # 0
    <3>1. DOMAIN EmptyBase = {}
      BY DEF EmptyBase
    <3> QED BY <3>1, ScanAssumption DEF Typed, TypeOK
  <2>2. idx * band \in Nat
    BY <2>1
  <2> DEFINE v == idx * band + band - 1
  <2>3. v \in Nat
    BY <2>1, <2>2
  <2>4. OffsetInBand(v, band) \in Nat /\ OffsetInBand(v, band) < band
    BY <2>1, <2>3, DecomposeType
  <2>5. \A i \in DOMAIN base : base[i] \in Nat /\ base[i] < Clusters
    BY SizesAssumption DEF Typed, TypeOK, Cluster
  <2> QED BY <2>1, <2>4, <2>5, SizesAssumption DEF ResolveVirtual, NoCluster
<1> QED BY ScanTypedInit, ScanTypedNext, <1>1, PTL DEF Spec

(***************************************************************************)
(* If the resident pages of a container agree on its base, each of them is *)
(* resolved to the very cluster it sits on (container.rs:45-55).           *)
(***************************************************************************)
THEOREM ScanAgreementResolves == Spec => []AgreementResolves
<1>1. ScanInv /\ BaseIsFirstWitness => AgreementResolves
  <2> SUFFICES ASSUME ScanInv, BaseIsFirstWitness, done, band # 0,
                      NEW p \in MsbClusters(image),
                      NEW idx, idx = Container(image[p].self, band),
                      p \in Witnesses(image, band, Clusters, idx),
                      p <= MaxCluster,
                      \A q \in Witnesses(image, band, Clusters, idx) :
                          ImpliedBase(image, band, q) = ImpliedBase(image, band, p)
               PROVE  ResolveVirtual(base, band, image[p].self) = p
    BY DEF AgreementResolves
  <2>1. /\ DOMAIN base = Witnessed(image, band, c)
        /\ \A i \in DOMAIN base : Decided(i)
        /\ c = Clusters \/ ~Fits(c)
        /\ c \in 0 .. Clusters
        /\ image \in Image /\ band \in Nat
    BY ScanAssumption DEF ScanInv, LowestDecides, Typed, TypeOK
  <2>2. \A d \in Cluster : Fits(d) => (d < c <=> d < Clusters)
    BY <2>1, SizesAssumption DEF Fits, Cluster
  <2>3. Witnesses(image, band, c, idx) = Witnesses(image, band, Clusters, idx)
    BY <2>2 DEF Witnesses, MsbClusters
  <2>4. idx \in DOMAIN base
    BY <2>1, <2>3 DEF Witnesses, Witnessed
  <2>5. base[idx] = ImpliedBase(image, band, p)
    BY <2>1, <2>3, <2>4 DEF Decided
  <2>6. p \in Nat /\ image[p].self \in Nat
    BY <2>1, SizesAssumption DEF MsbClusters, Cluster, Image, Page
  <2>7. OffsetInBand(image[p].self, band) \in Nat
    BY <2>1, <2>6, DecomposeType
  <2>8. base[idx] + OffsetInBand(image[p].self, band) = p
    BY <2>5, <2>6, <2>7 DEF ImpliedBase
  <2> QED BY <2>4, <2>8 DEF ResolveVirtual
<1> QED BY ScanInvInit, ScanInvNext, LowestIsFirstWitness, <1>1, PTL DEF Spec

(***************************************************************************)
(* Taking one page away changes the base of no container but the one whose *)
(* lowest witness it was (container.rs:232-240).  The lowest witness of    *)
(* any other container is still there, and still the lowest.               *)
(***************************************************************************)
THEOREM ScanConfinesDamage == Spec => []OnePageMovesOneContainer
<1>1. ScanInv /\ BaseIsFirstWitness => OnePageMovesOneContainer
  <2> SUFFICES ASSUME ScanInv, BaseIsFirstWitness, done, band # 0,
                      NEW p \in MsbClusters(image),
                      NEW rest, rest = ResidentBase(Without(p), band),
                      NEW idx \in DOMAIN base \cup DOMAIN rest,
                      ~(/\ p \in Witnesses(image, band, Clusters, idx)
                        /\ \A q \in Witnesses(image, band, Clusters, idx) : p <= q)
               PROVE  idx \in DOMAIN base \cap DOMAIN rest /\ base[idx] = rest[idx]
    BY DEF OnePageMovesOneContainer
  <2> DEFINE W == Witnesses(image, band, Clusters, idx)
             V == Witnesses(Without(p), band, Clusters, idx)
  <2>1. /\ base = BaseBelow(image, band, Clusters)
        /\ rest = BaseBelow(Without(p), band, Clusters)
    BY DEF BaseIsFirstWitness, ResidentBase
  <2>2. image \in Image /\ p \in Cluster
    BY ScanAssumption DEF ScanInv, Typed, TypeOK, MsbClusters
  <2>3. /\ Without(p)[p] = NoPage
        /\ \A d \in Cluster \ {p} : Without(p)[d] = image[d]
    BY <2>2 DEF Without, Image
  <2>4. \A d : d \in V <=> d \in W /\ d # p
    BY <2>3 DEF Witnesses, MsbClusters, ImpliesBase
  <2>5. /\ idx \in DOMAIN base <=> W # {}
        /\ idx \in DOMAIN rest <=> V # {}
    BY <2>1 DEF BaseBelow, Witnessed, Witnesses
  <2>6. W # {}
    BY <2>4, <2>5
  <2>7. W \in SUBSET Nat
    BY SizesAssumption DEF Witnesses, MsbClusters, Cluster
  <2>8. PICK w \in W : \A d \in W : w <= d
    BY <2>6, <2>7, LeastExists
  <2>9. w # p
    BY <2>8
  <2>10. w \in V /\ \A d \in V : w <= d
    BY <2>4, <2>8, <2>9
  <2>11. FirstWitness(image, band, Clusters, idx) = w
    BY <2>8, FirstWitnessIs
  <2>12. FirstWitness(Without(p), band, Clusters, idx) = w
    BY <2>10, FirstWitnessIs
  <2>13. base[idx] = ImpliedBase(image, band, w)
    BY <2>1, <2>5, <2>6, <2>11 DEF BaseBelow
  <2>14. rest[idx] = ImpliedBase(Without(p), band, w)
    BY <2>1, <2>5, <2>10, <2>12 DEF BaseBelow
  <2>15. Without(p)[w] = image[w]
    BY <2>3, <2>8, <2>9 DEF Witnesses, MsbClusters
  <2> QED BY <2>5, <2>6, <2>10, <2>13, <2>14, <2>15 DEF ImpliedBase
<1> QED BY ScanInvInit, ScanInvNext, LowestIsFirstWitness, <1>1, PTL DEF Spec
=============================================================================
