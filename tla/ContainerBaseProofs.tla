------------------------- MODULE ContainerBaseProofs -------------------------
(***************************************************************************)
(* Lemmas about the container base map as a pure operator, for every       *)
(* image, band size and block; the scan and the walk both rest on them.    *)
(***************************************************************************)
EXTENDS ContainerBase, WellFoundedInduction, TLAPS

(***************************************************************************)
(* A self-block and a band size decompose into naturals, the offset below  *)
(* the band size (decompose_virtual_block, container.rs:93-98).            *)
(***************************************************************************)
LEMMA DecomposeType ==
    ASSUME NEW v \in Nat, NEW b \in Nat
    PROVE  /\ Container(v, b) \in Nat
           /\ OffsetInBand(v, b) \in Nat
           /\ b # 0 => OffsetInBand(v, b) < b
<1>1. CASE b = 0
  BY <1>1 DEF Container, OffsetInBand
<1>2. CASE b # 0
  <2>1. v \div b \in Nat /\ v % b \in 0 .. b - 1
    BY <1>2
  <2> QED BY <1>2, <2>1 DEF Container, OffsetInBand
<1> QED BY <1>1, <1>2

(***************************************************************************)
(* A page the scan inspects has a natural self-block, so the base it       *)
(* implies, when it implies one, is a cluster (container.rs:235).          *)
(***************************************************************************)
LEMMA ImpliedBaseType ==
    ASSUME NEW img \in Image, NEW b \in Nat, NEW k \in Cluster, img[k] # NoPage,
           ImpliesBase(img, b, k)
    PROVE  ImpliedBase(img, b, k) \in Cluster
<1>1. img[k].self \in Nat
  BY DEF Image, Page
<1>2. OffsetInBand(img[k].self, b) \in Nat
  BY <1>1, DecomposeType
<1> QED BY <1>2, SizesAssumption DEF ImpliesBase, ImpliedBase, Cluster

(***************************************************************************)
(* A nonempty set of naturals has a least element: the lowest witness of a *)
(* container exists (container.rs:238-240).                                *)
(***************************************************************************)
LEMMA LeastExists ==
    ASSUME NEW S \in SUBSET Nat, S # {}
    PROVE  \E x \in S : \A y \in S : x <= y
<1> DEFINE Less == {ss \in Nat \X Nat : ss[1] < ss[2]}
<1>1. IsWellFoundedOn(Less, Nat)
  BY NatLessThanWellFounded DEF OpToRel
<1> HIDE DEF Less
<1>2. PICK x \in S : \A y \in S : ~ (<<y, x>> \in Less)
  BY <1>1, WFMin
<1>3. \A y \in S : ~ (y < x)
  BY <1>2 DEF Less
<1> QED BY <1>3
(***************************************************************************)
(* The lowest witness of a container is unique, so naming one is enough to *)
(* know what FirstWitness denotes.                                         *)
(***************************************************************************)
LEMMA FirstWitnessIs ==
    ASSUME NEW img, NEW b, NEW limit, NEW idx,
           NEW w \in Witnesses(img, b, limit, idx),
           \A d \in Witnesses(img, b, limit, idx) : w <= d
    PROVE  FirstWitness(img, b, limit, idx) = w
<1>1. Witnesses(img, b, limit, idx) \subseteq Int
  BY SizesAssumption DEF Witnesses, MsbClusters, Cluster
<1>2. \A x, y \in Int : x <= y /\ y <= x => x = y
  OBVIOUS
<1> QED BY <1>1, <1>2 DEF FirstWitness

(***************************************************************************)
(* The witnesses of a container are clusters of the image, and a container *)
(* that has one has a lowest one, which FirstWitness denotes               *)
(* (container.rs:238-240).                                                 *)
(***************************************************************************)
LEMMA FirstWitnessIsLowest ==
    ASSUME NEW img, NEW b, NEW limit, NEW idx, Witnesses(img, b, limit, idx) # {}
    PROVE  /\ FirstWitness(img, b, limit, idx) \in Witnesses(img, b, limit, idx)
           /\ FirstWitness(img, b, limit, idx) \in Cluster
<1>1. Witnesses(img, b, limit, idx) \subseteq Cluster
  BY DEF Witnesses, MsbClusters
<1>2. Witnesses(img, b, limit, idx) \in SUBSET Nat
  BY <1>1, SizesAssumption DEF Cluster
<1>3. PICK w \in Witnesses(img, b, limit, idx) :
          \A d \in Witnesses(img, b, limit, idx) : w <= d
  BY <1>2, LeastExists
<1>4. FirstWitness(img, b, limit, idx) = w
  BY <1>3, FirstWitnessIs
<1> QED BY <1>1, <1>4

(***************************************************************************)
(* The map the scan returns sends container indices to clusters of the     *)
(* image (container.rs:207-246).                                           *)
(***************************************************************************)
LEMMA ResidentBaseType ==
    ASSUME NEW img \in Image, NEW b \in Nat
    PROVE  /\ DOMAIN ResidentBase(img, b) \subseteq Nat
           /\ \A idx \in DOMAIN ResidentBase(img, b) :
                 ResidentBase(img, b)[idx] \in Cluster
<1>1. CASE b = 0
  BY <1>1 DEF ResidentBase, EmptyBase
<1>2. CASE b # 0
  <2>1. ResidentBase(img, b) = BaseBelow(img, b, Clusters)
    BY <1>2 DEF ResidentBase
  <2>2. DOMAIN ResidentBase(img, b) = Witnessed(img, b, Clusters)
    BY <2>1 DEF BaseBelow
  <2>3. ASSUME NEW idx \in Witnessed(img, b, Clusters)
        PROVE  idx \in Nat /\ ResidentBase(img, b)[idx] \in Cluster
    <3>1. PICK d \in Witnesses(img, b, Clusters, idx) : TRUE
      BY <2>3 DEF Witnessed, Witnesses
    <3>2. d \in Cluster /\ img[d] # NoPage /\ idx = Container(img[d].self, b)
      BY <3>1 DEF Witnesses, MsbClusters
    <3>3. img[d].self \in Nat
      BY <3>2 DEF Image, Page
    <3>4. idx \in Nat
      BY <3>2, <3>3, DecomposeType
    <3> DEFINE w == FirstWitness(img, b, Clusters, idx)
    <3>5. w \in Witnesses(img, b, Clusters, idx) /\ w \in Cluster
      BY <3>1, FirstWitnessIsLowest
    <3>6. img[w] # NoPage /\ ImpliesBase(img, b, w)
      BY <3>5 DEF Witnesses, MsbClusters
    <3>7. ResidentBase(img, b)[idx] = ImpliedBase(img, b, w)
      BY <2>1, <2>3 DEF BaseBelow
    <3> QED BY <3>4, <3>5, <3>6, <3>7, ImpliedBaseType
  <2> QED BY <2>2, <2>3
<1> QED BY <1>1, <1>2

(***************************************************************************)
(* A page that agrees with every witness of its container is where its     *)
(* block resolves to (container.rs:45-55 and 262-267).                     *)
(***************************************************************************)
LEMMA AgreedWitnessResolves ==
    ASSUME NEW img \in Image, NEW b \in Nat \ {0}, NEW idx,
           NEW p \in Witnesses(img, b, Clusters, idx), p <= MaxCluster,
           \A q \in Witnesses(img, b, Clusters, idx) :
               ImpliedBase(img, b, q) = ImpliedBase(img, b, p)
    PROVE  ResolveVirtual(ResidentBase(img, b), b, img[p].self) = p
<1>1. /\ p \in Cluster /\ img[p] # NoPage /\ ImpliesBase(img, b, p)
      /\ idx = Container(img[p].self, b) /\ p \in MsbClusters(img) /\ p < Clusters
  BY DEF Witnesses, MsbClusters
<1>2. img[p].self \in Nat /\ p \in Nat
  BY <1>1, SizesAssumption DEF Image, Page, Cluster
<1>3. OffsetInBand(img[p].self, b) \in Nat
  BY <1>2, DecomposeType
<1>4. idx \in Witnessed(img, b, Clusters)
  BY <1>1 DEF Witnessed
<1>5. /\ DOMAIN ResidentBase(img, b) = Witnessed(img, b, Clusters)
      /\ ResidentBase(img, b)[idx] = ImpliedBase(img, b, FirstWitness(img, b, Clusters, idx))
  BY <1>4 DEF ResidentBase, BaseBelow
<1>6. ResidentBase(img, b)[idx] = ImpliedBase(img, b, p)
  BY <1>5, FirstWitnessIsLowest
<1>7. ResidentBase(img, b)[idx] + OffsetInBand(img[p].self, b) = p
  BY <1>2, <1>3, <1>6 DEF ImpliedBase
<1> QED BY <1>1, <1>4, <1>5, <1>7 DEF ResolveVirtual
=============================================================================
