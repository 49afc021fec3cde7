------------------------- MODULE DirectoryWalkProofs -------------------------
(***************************************************************************)
(* Proofs about the directory walk, for every image, every root, every     *)
(* band size and every pair of caps.                                       *)
(***************************************************************************)
EXTENDS DirectoryWalk, ContainerBaseProofs, TLAPS

(***************************************************************************)
(* A page read for a block is a page of the image that carries that block: *)
(* every way of resolving it ends in page_answers_block                    *)
(* (directory.rs:298-321 and 325-339).                                     *)
(***************************************************************************)
LEMMA ReadPageType ==
    ASSUME NEW img \in Image, NEW block \in Nat,
           ReadPage(img, ResidentBase(img, Band), block) # NoPage
    PROVE  /\ ReadPage(img, ResidentBase(img, Band), block) \in Page
           /\ ReadPage(img, ResidentBase(img, Band), block) \in Range(img)
<1> DEFINE bs == ResidentBase(img, Band)
           mapped == ResolveVirtual(bs, Band, block)
           resident == ResidentCluster(block)
<1>1. Container(block, Band) \in Nat /\ OffsetInBand(block, Band) \in Nat
  BY AddressingAssumption, DecomposeType
<1>2. \A idx \in DOMAIN bs : bs[idx] \in Nat
  BY AddressingAssumption, ResidentBaseType, SizesAssumption DEF Cluster
<1>3. mapped \in Nat \cup {NoCluster}
  BY <1>1, <1>2 DEF ResolveVirtual
<1>4. resident \in Nat \cup {NoCluster}
  BY AddressingAssumption DEF ResidentCluster
<1>5. \A k \in Nat : AnswersBlock(img, k, block) => k \in Cluster
  BY SizesAssumption DEF AnswersBlock, Fits, Cluster
<1>6. ResolveBlock(img, bs, block) \in Cluster \cup {NoCluster}
  BY <1>3, <1>4, <1>5 DEF ResolveBlock, AnswersBlock
<1> QED BY <1>6 DEF ReadPage, Image, Range

(***************************************************************************)
(* A copy of a block that agrees with every witness of its container is    *)
(* found, by the container strategy alone (directory.rs:298-312).          *)
(***************************************************************************)
LEMMA AgreedCopyIsRead ==
    ASSUME NEW img \in Image, NEW block \in Nat,
           NEW p \in Copies(img, block)
                     \cap Witnesses(img, Band, Clusters, Container(block, Band)),
           p <= MaxCluster,
           \A q \in Witnesses(img, Band, Clusters, Container(block, Band)) :
               ImpliedBase(img, Band, q) = ImpliedBase(img, Band, p)
    PROVE  ReadPage(img, ResidentBase(img, Band), block) # NoPage
<1>1. /\ img[p].self = block /\ img[p] # NoPage /\ Fits(p) /\ p \in Cluster
  BY DEF Copies, MsbClusters
<1>2. p # NoCluster
  BY <1>1, SizesAssumption DEF Cluster, NoCluster
<1>3. ResolveVirtual(ResidentBase(img, Band), Band, block) = p
  BY <1>1, AgreedWitnessResolves, AddressingAssumption
<1>4. ResolveBlock(img, ResidentBase(img, Band), block) = p
  BY <1>1, <1>2, <1>3 DEF ResolveBlock, AnswersBlock
<1> QED BY <1>1, <1>2, <1>4 DEF ReadPage

-----------------------------------------------------------------------------
(***************************************************************************)
(* The open row loops are loops over branch pages, so a row that is not    *)
(* empty holds a block number (directory.rs:375-387).                      *)
(***************************************************************************)
OpenBranches ==
    \A i \in DOMAIN stack : /\ Loaded(stack[i].block) # NoPage
                            /\ Loaded(stack[i].block).parses
                            /\ Loaded(stack[i].block).branch

Typed == TypeOK /\ OpenBranches

(***************************************************************************)
(* What a block reads as has the type of a page (directory.rs:325-339).    *)
(***************************************************************************)
LEMMA LoadedType ==
    ASSUME TypeOK, NEW b \in Nat, Loaded(b) # NoPage
    PROVE  Loaded(b) \in Page /\ Loaded(b) \in Range(image)
<1>1. image \in Image /\ base = ResidentBase(image, Band)
  BY WalkAssumption DEF TypeOK
<1> QED BY <1>1, ReadPageType DEF Loaded

(***************************************************************************)
(* The row a loop is at, and the stack once it has moved to the next one   *)
(* (directory.rs:377-386).                                                 *)
(***************************************************************************)
LEMMA RowFacts ==
    ASSUME Typed, Looping, Top.next <= Len(Rows)
    PROVE  /\ Top \in Frame /\ Len(stack) \in DOMAIN stack
           /\ Rows = Loaded(Top.block).children /\ Rows \in Seq(Nat \cup {NoBlock})
           /\ Top.next \in DOMAIN Rows
           /\ Rows[Top.next] \in Nat \cup {NoBlock}
           /\ NextRow \in Seq(Frame)
           /\ DOMAIN NextRow = DOMAIN stack /\ Len(NextRow) = Len(stack)
           /\ \A i \in DOMAIN stack :
                 /\ NextRow[i].block = stack[i].block
                 /\ NextRow[i].next = IF i = Len(stack) THEN Top.next + 1
                                                        ELSE stack[i].next
<1>0. stack \in Seq(Frame)
  BY DEF Typed, TypeOK
<1>1. Len(stack) \in DOMAIN stack /\ Top \in Frame
  BY <1>0 DEF Looping, Top
<1>2. Top.block \in Nat /\ Top.next \in Nat \ {0}
  BY <1>1 DEF Frame
<1>3. Loaded(Top.block) # NoPage
  BY <1>1 DEF Typed, OpenBranches, Top
<1>4. Rows = Loaded(Top.block).children /\ Rows \in Seq(Nat \cup {NoBlock})
  BY <1>2, <1>3, LoadedType DEF Typed, Rows, Page
<1>5. Top.next \in DOMAIN Rows /\ Rows[Top.next] \in Nat \cup {NoBlock}
  BY <1>2, <1>4
<1> DEFINE moved == [Top EXCEPT !.next = Top.next + 1]
<1>6. NextRow = [stack EXCEPT ![Len(stack)] = moved]
  BY <1>1 DEF NextRow, Top
<1>7. moved \in Frame /\ moved.block = Top.block /\ moved.next = Top.next + 1
  BY <1>1, <1>2 DEF Frame
<1> HIDE DEF moved
<1>8. NextRow \in Seq(Frame) /\ DOMAIN NextRow = DOMAIN stack /\ Len(NextRow) = Len(stack)
  BY <1>0, <1>1, <1>6, <1>7
<1>9. \A i \in DOMAIN stack :
          /\ NextRow[i].block = stack[i].block
          /\ NextRow[i].next = IF i = Len(stack) THEN Top.next + 1 ELSE stack[i].next
  BY <1>0, <1>1, <1>6, <1>7 DEF Top
<1> QED BY <1>1, <1>4, <1>5, <1>8, <1>9

(***************************************************************************)
(* Entering a block that is not capped and not seen (directory.rs:364-370).*)
(***************************************************************************)
LEMMA EnterFacts ==
    ASSUME Typed, EnterNew
    PROVE  /\ call \in Nat /\ answer = Walking
           /\ call' = NoBlock
           /\ UNCHANGED <<image, base, root, tree, cut>>
           /\ call \notin Range(visited)
           /\ visited' \in Seq(Nat)
           /\ Range(visited') = Range(visited) \cup {call}
           /\ Len(visited') = Len(visited) + 1
           /\ Len(visited) < MaxVisited
           /\ Len(stack) < MaxDepth
           /\ \A i \in DOMAIN visited' :
                 \/ i \in DOMAIN visited /\ visited'[i] = visited[i]
                 \/ i = Len(visited') /\ visited'[i] = call
<1>1. visited \in Seq(Nat) /\ stack \in Seq(Frame) /\ call \in Nat /\ answer = Walking
  BY DEF EnterNew, Entering, Typed, TypeOK
<1>2. visited' = Append(visited, call)
  BY DEF EnterNew
<1>3. /\ visited' \in Seq(Nat) /\ Len(visited') = Len(visited) + 1
      /\ DOMAIN visited' = 1 .. Len(visited) + 1 /\ DOMAIN visited = 1 .. Len(visited)
      /\ visited'[Len(visited) + 1] = call
      /\ \A i \in DOMAIN visited : visited'[i] = visited[i]
  BY <1>1, <1>2
<1>4. Len(visited) \in Nat
  BY <1>1
<1>5. Range(visited') = Range(visited) \cup {call}
  BY <1>3, <1>4 DEF Range
<1>6. Len(visited) < MaxVisited /\ Len(stack) < MaxDepth
  BY <1>1, WalkAssumption DEF EnterNew, AtCap
<1> QED BY <1>1, <1>3, <1>4, <1>5, <1>6 DEF EnterNew, Seen

(***************************************************************************)
(* The walk starts well typed (directory.rs:466-470).                      *)
(***************************************************************************)
LEMMA WalkTypedInit == Init => Typed
<1> SUFFICES ASSUME Init PROVE Typed
  OBVIOUS
<1>1. stack \in Seq(Frame) /\ visited \in Seq(Nat) /\ out \in Seq(Entries)
         /\ DOMAIN stack = {}
  BY DEF Init
<1>2. call \in Nat \cup {NoBlock} /\ root \in Roots /\ image \in Images /\ cut \subseteq Nat
  BY WalkAssumption DEF Init
<1>3. answer \in Answer
  BY DEF Init, Walking, Answer
<1> QED BY <1>1, <1>2, <1>3 DEF Init, Typed, TypeOK, OpenBranches, Loaded

(***************************************************************************)
(* Every step of the walk keeps the types (directory.rs:356-393).          *)
(***************************************************************************)
LEMMA WalkTypedNext == Typed /\ [Next]_vars => Typed'
<1> SUFFICES ASSUME Typed, [Next]_vars PROVE Typed'
  OBVIOUS
<1> USE DEF Typed
<1>a. /\ call \in Nat \cup {NoBlock} /\ stack \in Seq(Frame) /\ visited \in Seq(Nat)
      /\ out \in Seq(Entries) /\ answer \in Answer /\ cut \subseteq Nat
  BY DEF TypeOK
<1>b. UNCHANGED <<image, base, root, tree>>
  BY DEF Next, vars, EnterCapped, EnterSeen, EnterNew, EnterUnresolved, EnterMalformed,
         EnterLeaf, EnterBranch, SkipRow, FollowRow, LeaveBranch, Finish
<1>c. \A b : Loaded(b)' = Loaded(b)
  BY <1>b DEF Loaded
<1>d. /\ (image \in Images)' /\ (base = ResidentBase(image, Band))' /\ (root \in Roots)'
      /\ (tree = [b \in Blocks(image, root) |-> Loaded(b)])'
  BY <1>b, <1>c DEF TypeOK
<1>e. SUFFICES /\ call' \in Nat \cup {NoBlock} /\ stack' \in Seq(Frame)
               /\ visited' \in Seq(Nat) /\ out' \in Seq(Entries)
               /\ answer' \in Answer /\ cut' \subseteq Nat
               /\ \A i \in DOMAIN stack' : /\ Loaded(stack'[i].block) # NoPage
                                           /\ Loaded(stack'[i].block).parses
                                           /\ Loaded(stack'[i].block).branch
  BY <1>c, <1>d DEF TypeOK, OpenBranches
<1>f. ASSUME EnterNew PROVE call \in Nat /\ visited' \in Seq(Nat) /\ call' = NoBlock /\ cut' = cut
  BY <1>f, <1>a DEF EnterNew, Entering
<1>1. CASE EnterCapped
  BY <1>1, <1>a DEF EnterCapped, Entering, OpenBranches
<1>2. CASE EnterSeen
  BY <1>2, <1>a DEF EnterSeen, OpenBranches
<1>3. CASE EnterUnresolved
  <2>1. call \in Nat /\ visited' \in Seq(Nat) /\ call' = NoBlock /\ cut' = cut
    BY <1>3, <1>f DEF EnterUnresolved
  <2>2. answer' = Unresolved(call) /\ stack' = << >> /\ out' = << >>
    BY <1>3 DEF EnterUnresolved
  <2>3. answer' \in Answer
    BY <2>1, <2>2 DEF Answer, Unresolved
  <2> QED BY <2>1, <2>2, <2>3, <1>a
<1>4. CASE EnterMalformed
  <2>1. call \in Nat /\ visited' \in Seq(Nat) /\ call' = NoBlock /\ cut' = cut
    BY <1>4, <1>f DEF EnterMalformed
  <2>2. answer' = Truncated /\ stack' = << >> /\ out' = << >>
    BY <1>4 DEF EnterMalformed
  <2>3. answer' \in Answer
    BY <2>1, <2>2 DEF Answer, Truncated
  <2> QED BY <2>1, <2>2, <2>3, <1>a
<1>5. CASE EnterLeaf
  <2>1. call \in Nat /\ visited' \in Seq(Nat) /\ call' = NoBlock /\ cut' = cut
    BY <1>5, <1>f DEF EnterLeaf
  <2>2. Loaded(call) # NoPage /\ out' = out \o Loaded(call).entries
           /\ stack' = stack /\ answer' = answer
    BY <1>5 DEF EnterLeaf
  <2>3. Loaded(call).entries \in Seq(Entries)
    BY <2>1, <2>2, LoadedType DEF Page
  <2>4. out' \in Seq(Entries)
    BY <1>a, <2>2, <2>3
  <2> QED BY <2>1, <2>2, <2>4, <1>a DEF OpenBranches
<1>6. CASE EnterBranch
  <2>1. call \in Nat /\ visited' \in Seq(Nat) /\ call' = NoBlock /\ cut' = cut
    BY <1>6, <1>f DEF EnterBranch
  <2> DEFINE f == [block |-> call, next |-> 1]
  <2>2. /\ Loaded(call) # NoPage /\ Loaded(call).parses /\ Loaded(call).branch
        /\ stack' = Append(stack, f) /\ out' = out /\ answer' = answer
    BY <1>6 DEF EnterBranch
  <2>3. f \in Frame /\ f.block = call
    BY <2>1 DEF Frame
  <2> HIDE DEF f
  <2>4. /\ stack' \in Seq(Frame)
        /\ \A i \in DOMAIN stack' : (i \in DOMAIN stack /\ stack'[i] = stack[i]) \/ stack'[i] = f
    BY <1>a, <2>2, <2>3
  <2> QED BY <2>1, <2>2, <2>3, <2>4, <1>a DEF OpenBranches
<1>7. CASE SkipRow
  <2>1. Looping /\ Top.next <= Len(Rows) /\ stack' = NextRow
           /\ UNCHANGED <<call, visited, out, answer, cut>>
    BY <1>7 DEF SkipRow
  <2> QED BY <1>a, RowFacts, <2>1 DEF OpenBranches
<1>8. CASE FollowRow
  <2>1. Looping /\ Top.next <= Len(Rows) /\ stack' = NextRow /\ call' = Rows[Top.next]
           /\ UNCHANGED <<visited, out, answer, cut>>
    BY <1>8 DEF FollowRow
  <2> QED BY <1>a, RowFacts, <2>1 DEF OpenBranches
<1>9. CASE LeaveBranch
  <2>1. stack # << >> /\ stack' = SubSeq(stack, 1, Len(stack) - 1)
           /\ UNCHANGED <<call, visited, out, answer, cut>>
    BY <1>9 DEF LeaveBranch, Looping
  <2>2. /\ stack' \in Seq(Frame)
        /\ \A i \in DOMAIN stack' : i \in DOMAIN stack /\ stack'[i] = stack[i]
    BY <1>a, <2>1
  <2> QED BY <1>a, <2>1, <2>2 DEF OpenBranches
<1>10. CASE Finish
  <2>1. answer' = Ok(out) /\ UNCHANGED <<call, stack, visited, out, cut>>
    BY <1>10 DEF Finish
  <2>2. answer' \in Answer
    BY <1>a, <2>1 DEF Answer, Ok
  <2> QED BY <1>a, <2>1, <2>2 DEF OpenBranches
<1>11. CASE UNCHANGED vars
  BY <1>11, <1>a DEF vars, OpenBranches
<1> QED BY <1>1, <1>2, <1>3, <1>4, <1>5, <1>6, <1>7, <1>8, <1>9, <1>10, <1>11 DEF Next

(***************************************************************************)
(* Every reachable state of the walk is well typed.                        *)
(***************************************************************************)
THEOREM WalkTypeCorrect == Spec => []TypeOK
<1>1. Typed => TypeOK
  BY DEF Typed
<1> QED BY WalkTypedInit, WalkTypedNext, <1>1, PTL DEF Spec

-----------------------------------------------------------------------------
(***************************************************************************)
(* The open pages have been visited (directory.rs:370-386).                *)
(***************************************************************************)
OpenVisited == \A i \in DOMAIN stack : stack[i].block \in Range(visited)

Bounded == Typed /\ WalkBounded /\ OpenVisited

(***************************************************************************)
(* Nothing is open or visited at first (directory.rs:467-469).             *)
(***************************************************************************)
LEMMA BoundedInit == Init => Bounded
<1> SUFFICES ASSUME Init PROVE Bounded
  OBVIOUS
<1>1. stack = << >> /\ visited = << >>
  BY DEF Init
<1>2. DOMAIN stack = {} /\ DOMAIN visited = {} /\ Len(stack) = 0 /\ Len(visited) = 0
  BY <1>1
<1> QED BY <1>2, WalkTypedInit, WalkAssumption DEF Bounded, WalkBounded, OpenVisited, IsInjective

(***************************************************************************)
(* Every step respects the caps and enters no page twice: the caps and the *)
(* visited test guard the one place a page is entered                      *)
(* (directory.rs:364-370).                                                 *)
(***************************************************************************)
LEMMA BoundedNext == Bounded /\ [Next]_vars => Bounded'
<1> SUFFICES ASSUME Bounded, [Next]_vars PROVE (WalkBounded /\ OpenVisited)'
  BY WalkTypedNext DEF Bounded
<1>a. stack \in Seq(Frame) /\ visited \in Seq(Nat)
  BY DEF Bounded, Typed, TypeOK
<1>b. Len(stack) \in Nat /\ Len(visited) \in Nat
  BY <1>a
<1>c. ASSUME EnterNew
      PROVE  Len(visited') <= MaxVisited /\ IsInjective(visited')
  <2>1. Len(visited') <= MaxVisited
    BY <1>b, <1>c, EnterFacts, WalkAssumption DEF Bounded
  <2>2. \A i \in DOMAIN visited : visited[i] \in Range(visited)
    BY DEF Range
  <2>3. \A i, j \in DOMAIN visited' : visited'[i] = visited'[j] => i = j
    BY <1>c, <2>2, EnterFacts DEF Bounded, WalkBounded, IsInjective
  <2> QED BY <2>1, <2>3 DEF IsInjective
<1>d. ASSUME UNCHANGED <<stack, visited>> PROVE (WalkBounded /\ OpenVisited)'
  BY <1>d DEF Bounded, WalkBounded, OpenVisited
<1>e. ASSUME EnterNew, stack' = << >> PROVE (WalkBounded /\ OpenVisited)'
  <2>1. DOMAIN stack' = {} /\ Len(stack') = 0
    BY <1>e
  <2> QED BY <1>c, <1>e, <2>1, WalkAssumption DEF WalkBounded, OpenVisited
<1>f. ASSUME Looping, Top.next <= Len(Rows), stack' = NextRow, visited' = visited
      PROVE  (WalkBounded /\ OpenVisited)'
  <2>1. /\ DOMAIN stack' = DOMAIN stack /\ Len(stack') = Len(stack)
        /\ \A i \in DOMAIN stack : stack'[i].block = stack[i].block
    BY <1>f, RowFacts DEF Bounded
  <2> QED BY <1>f, <2>1 DEF Bounded, WalkBounded, OpenVisited
<1>1. CASE EnterCapped
  BY <1>1, <1>d DEF EnterCapped
<1>2. CASE EnterSeen
  BY <1>2, <1>d DEF EnterSeen
<1>3. CASE EnterUnresolved
  BY <1>3, <1>e DEF EnterUnresolved
<1>4. CASE EnterMalformed
  BY <1>4, <1>e DEF EnterMalformed
<1>5. CASE EnterLeaf
  <2>1. EnterNew /\ stack' = stack
    BY <1>5 DEF EnterLeaf
  <2> QED BY <1>c, <2>1, EnterFacts DEF Bounded, WalkBounded, OpenVisited
<1>6. CASE EnterBranch
  <2> DEFINE f == [block |-> call, next |-> 1]
  <2>1. EnterNew /\ stack' = Append(stack, f) /\ f.block = call
    BY <1>6 DEF EnterBranch
  <2>2. f \in Frame
    BY <2>1, EnterFacts DEF Bounded, Frame
  <2> HIDE DEF f
  <2>3. /\ Len(stack') = Len(stack) + 1
        /\ DOMAIN stack = 1 .. Len(stack) /\ DOMAIN stack' = 1 .. Len(stack) + 1
        /\ stack'[Len(stack) + 1] = f
        /\ \A i \in DOMAIN stack : stack'[i] = stack[i]
    BY <1>a, <2>1, <2>2
  <2>4. \A i \in DOMAIN stack' :
            \/ i \in DOMAIN stack /\ stack'[i] = stack[i]
            \/ i = Len(stack) + 1 /\ stack'[i] = f
    BY <1>b, <2>3
  <2>5. Len(stack') <= MaxDepth
    BY <1>b, <2>1, <2>3, EnterFacts, WalkAssumption DEF Bounded
  <2>6. call \notin Range(visited) /\ Range(visited') = Range(visited) \cup {call}
    BY <2>1, EnterFacts DEF Bounded
  <2>7. \A i \in DOMAIN stack : stack[i].block \in Range(visited)
    BY DEF Bounded, OpenVisited
  <2>8. \A i, j \in DOMAIN stack' : stack'[i].block = stack'[j].block => i = j
    BY <2>1, <2>4, <2>6, <2>7 DEF Bounded, WalkBounded
  <2>9. OpenVisited'
    BY <2>1, <2>4, <2>6, <2>7 DEF OpenVisited
  <2> QED BY <1>c, <2>1, <2>5, <2>8, <2>9 DEF WalkBounded
<1>7. CASE SkipRow
  BY <1>7, <1>f DEF SkipRow
<1>8. CASE FollowRow
  BY <1>8, <1>f DEF FollowRow
<1>9. CASE LeaveBranch
  <2>1. stack # << >> /\ stack' = SubSeq(stack, 1, Len(stack) - 1) /\ visited' = visited
    BY <1>9 DEF LeaveBranch, Looping
  <2>2. /\ Len(stack') <= Len(stack)
        /\ \A i \in DOMAIN stack' : i \in DOMAIN stack /\ stack'[i] = stack[i]
    BY <1>a, <2>1
  <2>3. Len(stack') \in Nat
    BY <1>a, <2>1
  <2>4. Len(stack') <= MaxDepth
    BY <1>b, <2>2, <2>3, WalkAssumption DEF Bounded, WalkBounded
  <2> QED BY <2>1, <2>2, <2>4 DEF Bounded, WalkBounded, OpenVisited
<1>10. CASE Finish
  BY <1>10, <1>d DEF Finish
<1>11. CASE UNCHANGED vars
  BY <1>11, <1>d DEF vars
<1> QED BY <1>1, <1>2, <1>3, <1>4, <1>5, <1>6, <1>7, <1>8, <1>9, <1>10, <1>11 DEF Next

(***************************************************************************)
(* The walk stays within both caps and enters no page twice, on every      *)
(* image whatsoever (directory.rs:86-96 and 350-354).                      *)
(***************************************************************************)
THEOREM WalkStaysBounded == Spec => []WalkBounded
<1>1. Bounded => WalkBounded
  BY DEF Bounded
<1> QED BY BoundedInit, BoundedNext, <1>1, PTL DEF Spec

(***************************************************************************)
(* A cluster a block resolves to holds the page of that block: both        *)
(* strategies end in page_answers_block (directory.rs:298-321).            *)
(***************************************************************************)
LEMMA ResolvedPageAnswers ==
    ASSUME NEW img, NEW bs, NEW block, ResolveBlock(img, bs, block) # NoCluster
    PROVE  img[ResolveBlock(img, bs, block)].self = block
BY DEF ResolveBlock, AnswersBlock

(***************************************************************************)
(* No physical page is read twice, for every band size: visited holds no   *)
(* block twice, and a page records one block (directory.rs:276-297 and     *)
(* 367-370).                                                               *)
(***************************************************************************)
THEOREM WalkVisitsPagesOnce == Spec => []PagesVisitedOnce
<1>1. WalkBounded => PagesVisitedOnce
  <2> SUFFICES ASSUME WalkBounded, NEW i \in DOMAIN visited, NEW j \in DOMAIN visited,
                      ResolveBlock(image, base, visited[i]) # NoCluster,
                      ResolveBlock(image, base, visited[i]) = ResolveBlock(image, base, visited[j])
               PROVE  i = j
    BY DEF PagesVisitedOnce
  <2>1. visited[i] = visited[j]
    BY ResolvedPageAnswers
  <2> QED BY <2>1 DEF WalkBounded, IsInjective
<1> QED BY WalkStaysBounded, <1>1, PTL

-----------------------------------------------------------------------------
(***************************************************************************)
(* Every block the walk touches was asked for by the caller or named by a  *)
(* branch page it had read, and so is one of the blocks of the image.      *)
(***************************************************************************)
Led(b) == b = root \/ \E v \in Range(visited) : b \in Children(tree, v)

LedTo ==
    /\ Range(visited) \subseteq DOMAIN tree
    /\ call # NoBlock => call \in DOMAIN tree /\ Led(call)
    /\ UnresolvedIsGenuine

LedInv == Bounded /\ LedTo

(***************************************************************************)
(* The tree of a walk is what each block of the image reads as             *)
(* (directory.rs:325-339).                                                 *)
(***************************************************************************)
LEMMA TreeFacts ==
    ASSUME Typed
    PROVE  /\ DOMAIN tree = Blocks(image, root)
           /\ \A b \in DOMAIN tree : tree[b] = Loaded(b)
  BY DEF Typed, TypeOK

(***************************************************************************)
(* A row that is followed names a child of the page it is in, and that     *)
(* child is a block of the image (directory.rs:377-385).                   *)
(***************************************************************************)
LEMMA RowIsChild ==
    ASSUME LedInv, Looping, Top.next <= Len(Rows), Rows[Top.next] # NoBlock
    PROVE  /\ Rows[Top.next] \in DOMAIN tree
           /\ Top.block \in Range(visited)
           /\ Rows[Top.next] \in Children(tree, Top.block)
           /\ IsBranch(tree, Top.block)
           /\ tree[Top.block].children = Rows
<1>1. /\ Top \in Frame /\ Len(stack) \in DOMAIN stack /\ Top = stack[Len(stack)]
      /\ Rows = Loaded(Top.block).children /\ Top.next \in DOMAIN Rows
  BY RowFacts DEF LedInv, Bounded, Top
<1>2. /\ Loaded(Top.block) # NoPage /\ Loaded(Top.block).parses /\ Loaded(Top.block).branch
      /\ Top.block \in Range(visited) /\ Top.block \in Nat
  BY <1>1 DEF LedInv, Bounded, Typed, OpenBranches, OpenVisited, Frame
<1>3. Top.block \in DOMAIN tree /\ tree[Top.block] = Loaded(Top.block)
  BY <1>2, TreeFacts DEF LedInv, LedTo, Bounded
<1>4. IsBranch(tree, Top.block)
  BY <1>2, <1>3 DEF IsBranch, Readable
<1>5. Rows[Top.next] \in Range(Rows)
  BY <1>1 DEF Range
<1>6. Rows[Top.next] \in Children(tree, Top.block)
  BY <1>1, <1>3, <1>4, <1>5 DEF Children
<1>7. Loaded(Top.block) \in Range(image) \ {NoPage}
  BY <1>2, LoadedType DEF LedInv, Bounded, Typed
<1>8. Rows[Top.next] \in Blocks(image, root)
  BY <1>1, <1>5, <1>7 DEF Blocks
<1> QED BY <1>1, <1>2, <1>3, <1>4, <1>6, <1>8, TreeFacts DEF LedInv, Bounded

(***************************************************************************)
(* The walk starts at the block it was asked for (directory.rs:470).       *)
(***************************************************************************)
LEMMA LedInit == Init => LedInv
<1> SUFFICES ASSUME Init PROVE LedTo
  BY BoundedInit DEF LedInv
<1>1. Range(visited) = {}
  BY DEF Init, Range
<1>2. root \in Nat /\ root # NoBlock
  BY WalkAssumption DEF Init, NoBlock
<1>3. root \in DOMAIN tree
  BY <1>2 DEF Init, Blocks
<1>4. answer.status # "unresolved"
  BY DEF Init, Walking
<1> QED BY <1>1, <1>3, <1>4 DEF Init, LedTo, Led, UnresolvedIsGenuine

(***************************************************************************)
(* A step only ever calls descend on a child of the page whose row it is   *)
(* at, and only reports the block it has been called with                  *)
(* (directory.rs:372 and 385).                                             *)
(***************************************************************************)
LEMMA LedNext == LedInv /\ [Next]_vars => LedInv'
<1> SUFFICES ASSUME LedInv, [Next]_vars PROVE LedTo'
  BY BoundedNext DEF LedInv
<1>a. UNCHANGED <<image, base, root, tree>>
  BY DEF Next, vars, EnterCapped, EnterSeen, EnterNew, EnterUnresolved, EnterMalformed,
         EnterLeaf, EnterBranch, SkipRow, FollowRow, LeaveBranch, Finish
<1>b. ASSUME visited' = visited, call' \in {NoBlock, call}, answer' = answer
      PROVE  LedTo'
  BY <1>a, <1>b DEF LedInv, LedTo, Led, UnresolvedIsGenuine, Loaded
<1>c. ASSUME EnterNew, answer'.status # "unresolved"
      PROVE  LedTo'
  BY <1>a, <1>c, EnterFacts DEF LedInv, LedTo, Bounded, UnresolvedIsGenuine, EnterNew, Entering
<1>1. CASE EnterCapped
  BY <1>1, <1>b DEF EnterCapped
<1>2. CASE EnterSeen
  BY <1>2, <1>b DEF EnterSeen
<1>3. CASE EnterUnresolved
  <2>1. EnterNew /\ Loaded(call) = NoPage /\ answer' = Unresolved(call) /\ call # NoBlock
    BY <1>3 DEF EnterUnresolved, EnterNew, Entering
  <2>2. answer'.block = call
    BY <2>1 DEF Unresolved
  <2>3. Loaded(answer.block)' = NoPage
    BY <1>a, <2>1, <2>2 DEF Loaded
  <2>4. Range(visited') = Range(visited) \cup {call} /\ call' = NoBlock
    BY <2>1, EnterFacts DEF LedInv, Bounded
  <2>5. call = root' \/ \E v \in Range(visited') : call \in Children(tree', v)
    BY <1>a, <2>1, <2>4 DEF LedInv, LedTo, Led
  <2>6. UnresolvedIsGenuine'
    BY <2>2, <2>3, <2>5 DEF UnresolvedIsGenuine
  <2> QED BY <1>a, <2>1, <2>4, <2>6 DEF LedInv, LedTo
<1>4. CASE EnterMalformed
  BY <1>4, <1>c DEF EnterMalformed, Truncated
<1>5. CASE EnterLeaf
  BY <1>5, <1>c DEF EnterLeaf, EnterNew, Entering, Walking
<1>6. CASE EnterBranch
  BY <1>6, <1>c DEF EnterBranch, EnterNew, Entering, Walking
<1>7. CASE SkipRow
  BY <1>7, <1>b DEF SkipRow
<1>8. CASE FollowRow
  <2>1. /\ Looping /\ Top.next <= Len(Rows) /\ Rows[Top.next] # NoBlock
        /\ call' = Rows[Top.next] /\ visited' = visited /\ answer' = answer
    BY <1>8 DEF FollowRow
  <2>2. call' \in DOMAIN tree /\ \E v \in Range(visited) : call' \in Children(tree, v)
    BY <2>1, RowIsChild
  <2> QED BY <1>a, <2>1, <2>2 DEF LedInv, LedTo, Led, UnresolvedIsGenuine, Loaded
<1>9. CASE LeaveBranch
  BY <1>9, <1>b DEF LeaveBranch
<1>10. CASE Finish
  <2>1. answer'.status # "unresolved" /\ UNCHANGED <<call, visited>>
    BY <1>10 DEF Finish, Ok
  <2> QED BY <1>a, <2>1 DEF LedInv, LedTo, Led, UnresolvedIsGenuine
<1>11. CASE UNCHANGED vars
  BY <1>11, <1>b DEF vars
<1> QED BY <1>1, <1>2, <1>3, <1>4, <1>5, <1>6, <1>7, <1>8, <1>9, <1>10, <1>11 DEF Next

(***************************************************************************)
(* An error names a block the walk was led to and that resolves to no page *)
(* (directory.rs:437-441).                                                 *)
(***************************************************************************)
THEOREM WalkErrorsAreGenuine == Spec => []UnresolvedIsGenuine
<1>1. LedInv => UnresolvedIsGenuine
  BY DEF LedInv, LedTo
<1> QED BY LedInit, LedNext, <1>1, PTL DEF Spec

(***************************************************************************)
(* A block with a resident page is reported unresolved only when the       *)
(* resident pages of its container contradict that page, or when its place *)
(* is beyond what 64 bits address (container.rs:45-55).                    *)
(***************************************************************************)
THEOREM WalkFindsAgreedPages == Spec => []AgreedPagesAreFound
<1>1. LedInv => AgreedPagesAreFound
  <2> SUFFICES ASSUME LedInv, answer.status = "unresolved",
                      NEW k \in Copies(image, answer.block)
                           \cap Witnesses(image, Band, Clusters, Container(answer.block, Band)),
                      k <= MaxCluster,
                      \A d \in Witnesses(image, Band, Clusters, Container(answer.block, Band)) :
                          ImpliedBase(image, Band, d) = ImpliedBase(image, Band, k)
               PROVE  FALSE
    <3>1. \A m \in Witnesses(image, Band, Clusters, Container(answer.block, Band)) :
              m \in Nat
      BY SizesAssumption DEF Witnesses, MsbClusters, Cluster
    <3> QED BY <3>1, MaxClusterAssumption DEF AgreedPagesAreFound
  <2>1. image \in Image /\ base = ResidentBase(image, Band) /\ answer \in Answer
    BY WalkAssumption DEF LedInv, Bounded, Typed, TypeOK
  <2>2. answer.block \in Nat
    BY <2>1 DEF Answer
  <2>3. Loaded(answer.block) # NoPage
    BY <2>1, <2>2, AgreedCopyIsRead DEF Loaded
  <2> QED BY <2>3 DEF LedInv, LedTo, UnresolvedIsGenuine
<1> QED BY LedInit, LedNext, <1>1, PTL DEF Spec

-----------------------------------------------------------------------------
(***************************************************************************)
(* Completeness.  While no error has been met, every visited page has been *)
(* read, and every child of a visited branch page has been visited, was    *)
(* refused by a cap, is being entered, or stands at a row its still open   *)
(* loop has ahead of it.  When the last loop closes nothing is ahead.      *)
(***************************************************************************)
NoError == answer.status \in {"walking", "ok"}

Ahead(b, k) ==
    \E i \in DOMAIN stack : \E r \in DOMAIN tree[b].children :
        /\ stack[i].block = b
        /\ r >= stack[i].next
        /\ tree[b].children[r] = k

AllRead == NoError => \A b \in Range(visited) : IsBranch(tree, b) \/ IsLeaf(tree, b)

AllFollowed ==
    NoError =>
        \A b \in Range(visited) : \A k \in Children(tree, b) :
            k \in Range(visited) \cup cut \cup {call} \/ Ahead(b, k)

RootFirst ==
    \/ root \in Range(visited)
    \/ call = root /\ visited = << >> /\ stack = << >> /\ answer = Walking

Shut == answer.status = "ok" => call = NoBlock /\ stack = << >>

ClosedInv == LedInv /\ AllRead /\ AllFollowed /\ RootFirst /\ Shut

(***************************************************************************)
(* At first nothing has been visited (directory.rs:467-470).               *)
(***************************************************************************)
LEMMA ClosedInit == Init => ClosedInv
<1> SUFFICES ASSUME Init PROVE ClosedInv
  OBVIOUS
<1>1. Range(visited) = {}
  BY DEF Init, Range
<1>2. answer.status # "ok"
  BY DEF Init, Walking
<1> QED BY <1>1, <1>2, LedInit DEF Init, ClosedInv, AllRead, AllFollowed, RootFirst, Shut

(***************************************************************************)
(* The innermost open page is a branch of the tree and its rows are the    *)
(* rows the loop goes through (directory.rs:375-377).                      *)
(***************************************************************************)
LEMMA TopFacts ==
    ASSUME LedInv, Looping
    PROVE  /\ Top \in Frame /\ Top = stack[Len(stack)]
           /\ DOMAIN stack = 1 .. Len(stack) /\ Len(stack) \in Nat \ {0}
           /\ tree[Top.block].children = Rows
           /\ Rows \in Seq(Nat \cup {NoBlock})
<1>1. stack \in Seq(Frame)
  BY DEF LedInv, Bounded, Typed, TypeOK
<1>2. Len(stack) \in DOMAIN stack /\ Top \in Frame /\ Top = stack[Len(stack)]
         /\ DOMAIN stack = 1 .. Len(stack) /\ Len(stack) \in Nat \ {0}
  BY <1>1 DEF Looping, Top
<1>3. Loaded(Top.block) # NoPage /\ Top.block \in Range(visited) /\ Top.block \in Nat
  BY <1>2 DEF LedInv, Bounded, Typed, OpenBranches, OpenVisited, Frame
<1>4. Top.block \in DOMAIN tree /\ tree[Top.block] = Loaded(Top.block)
  BY <1>3, TreeFacts DEF LedInv, LedTo, Bounded
<1>5. Loaded(Top.block) \in Page
  BY <1>3, LoadedType DEF LedInv, Bounded, Typed
<1> QED BY <1>2, <1>4, <1>5 DEF Rows, Page

(***************************************************************************)
(* No step drops a child that has not been dealt with: a row is left       *)
(* behind only once its child has been called, and a loop only when it has *)
(* no row left (directory.rs:364-391).                                     *)
(***************************************************************************)
LEMMA ClosedNext == ClosedInv /\ [Next]_vars => ClosedInv'
<1> SUFFICES ASSUME ClosedInv, [Next]_vars
             PROVE  (AllRead /\ AllFollowed /\ RootFirst /\ Shut)'
  BY LedNext DEF ClosedInv
<1>a. UNCHANGED <<image, base, root, tree>>
  BY DEF Next, vars, EnterCapped, EnterSeen, EnterNew, EnterUnresolved, EnterMalformed,
         EnterLeaf, EnterBranch, SkipRow, FollowRow, LeaveBranch, Finish
<1>b. stack \in Seq(Frame) /\ visited \in Seq(Nat)
  BY DEF ClosedInv, LedInv, Bounded, Typed, TypeOK
<1>c. \A b : NoBlock \notin Children(tree, b)
  BY DEF Children
<1>d. ASSUME EnterNew
      PROVE  /\ Range(visited') = Range(visited) \cup {call} /\ call' = NoBlock
             /\ cut' = cut /\ answer = Walking /\ NoError
             /\ call \in DOMAIN tree /\ tree[call] = Loaded(call)
             /\ RootFirst'
  <2>1. /\ Range(visited') = Range(visited) \cup {call} /\ call' = NoBlock
        /\ cut' = cut /\ answer = Walking /\ call # NoBlock
    BY <1>d, EnterFacts DEF ClosedInv, LedInv, Bounded, EnterNew, Entering
  <2>2. call \in DOMAIN tree
    BY <2>1 DEF ClosedInv, LedInv, LedTo
  <2>3. root' \in Range(visited')
    BY <1>a, <2>1 DEF ClosedInv, RootFirst
  <2> QED BY <2>1, <2>2, <2>3, TreeFacts
             DEF RootFirst, NoError, Walking, ClosedInv, LedInv, Bounded
<1>e. ASSUME EnterNew, answer'.status \notin {"walking", "ok"}
      PROVE  (AllRead /\ AllFollowed /\ RootFirst /\ Shut)'
  BY <1>d, <1>e DEF AllRead, AllFollowed, NoError, Shut
<1>f. ASSUME Entering, call' = NoBlock, call \in Range(visited) \cup cut',
             cut \subseteq cut', UNCHANGED <<stack, visited, answer>>
      PROVE  (AllRead /\ AllFollowed /\ Shut)'
  <2>1. AllRead' /\ Shut'
    BY <1>a, <1>f DEF ClosedInv, AllRead, Shut, NoError, Entering, Walking
  <2>2. \A b, k : Ahead(b, k)' <=> Ahead(b, k)
    BY <1>a, <1>f DEF Ahead
  <2>3. AllFollowed'
    BY <1>a, <1>f, <2>2 DEF ClosedInv, AllFollowed, NoError
  <2> QED BY <2>1, <2>3
<1>1. CASE EnterCapped
  <2>1. /\ Entering /\ AtCap /\ call' = NoBlock /\ UNCHANGED <<stack, visited, answer>>
        /\ cut' = IF Seen THEN cut ELSE cut \cup {call}
    BY <1>1 DEF EnterCapped
  <2>2. visited # << >> \/ stack # << >>
    BY <2>1, WalkAssumption DEF AtCap
  <2>3. RootFirst'
    BY <1>a, <2>1, <2>2 DEF ClosedInv, RootFirst
  <2> QED BY <1>f, <2>1, <2>3 DEF Seen
<1>2. CASE EnterSeen
  <2>1. /\ Entering /\ Seen /\ call' = NoBlock /\ UNCHANGED <<stack, visited, answer, cut>>
    BY <1>2 DEF EnterSeen
  <2>2. visited # << >>
    BY <2>1 DEF Seen, Range
  <2>3. RootFirst'
    BY <1>a, <2>1, <2>2 DEF ClosedInv, RootFirst
  <2> QED BY <1>f, <2>1, <2>3 DEF Seen
<1>3. CASE EnterUnresolved
  BY <1>3, <1>e DEF EnterUnresolved, Unresolved
<1>4. CASE EnterMalformed
  BY <1>4, <1>e DEF EnterMalformed, Truncated
<1>5. CASE EnterLeaf
  <2>1. /\ EnterNew /\ stack' = stack /\ answer' = answer
        /\ Loaded(call) # NoPage /\ Loaded(call).parses /\ ~Loaded(call).branch
    BY <1>5 DEF EnterLeaf
  <2>2. IsLeaf(tree, call) /\ Children(tree, call) = {}
    BY <1>d, <2>1 DEF IsLeaf, IsBranch, Readable, Children
  <2>3. AllRead'
    BY <1>a, <1>d, <2>1, <2>2 DEF ClosedInv, AllRead
  <2>4. \A b, k : Ahead(b, k)' <=> Ahead(b, k)
    BY <1>a, <2>1 DEF Ahead
  <2>5. AllFollowed'
    BY <1>a, <1>d, <2>1, <2>2, <2>4 DEF ClosedInv, AllFollowed
  <2>6. Shut'
    BY <1>d, <2>1 DEF Shut, Walking
  <2> QED BY <1>d, <2>1, <2>3, <2>5, <2>6
<1>6. CASE EnterBranch
  <2> DEFINE f == [block |-> call, next |-> 1]
  <2>1. /\ EnterNew /\ stack' = Append(stack, f) /\ answer' = answer
        /\ Loaded(call) # NoPage /\ Loaded(call).parses /\ Loaded(call).branch
        /\ f.block = call /\ f.next = 1
    BY <1>6 DEF EnterBranch
  <2>2. IsBranch(tree, call) /\ Children(tree, call) \subseteq Range(tree[call].children)
    BY <1>d, <2>1 DEF IsBranch, Readable, Children
  <2>3. AllRead'
    BY <1>a, <1>d, <2>1, <2>2 DEF ClosedInv, AllRead
  <2>4. call \in Nat
    BY <2>1, EnterFacts DEF ClosedInv, LedInv, Bounded
  <2>5. Loaded(call) \in Page
    BY <2>1, <2>4, LoadedType DEF ClosedInv, LedInv, Bounded, Typed
  <2>6. tree[call].children \in Seq(Nat \cup {NoBlock})
    BY <1>d, <2>1, <2>5 DEF Page
  <2>7. f \in Frame
    BY <2>4 DEF Frame
  <2> HIDE DEF f
  <2>8. /\ Len(stack) + 1 \in DOMAIN stack' /\ stack'[Len(stack) + 1] = f
        /\ \A i \in DOMAIN stack : i \in DOMAIN stack' /\ stack'[i] = stack[i]
    BY <1>b, <2>1, <2>7
  <2>9. \A b, k : Ahead(b, k) => Ahead(b, k)'
    BY <1>a, <2>8 DEF Ahead
  <2>10. ASSUME NEW b, b = call, NEW k \in Children(tree, b) PROVE Ahead(b, k)'
    <3>1. PICK r \in DOMAIN tree[b].children : tree[b].children[r] = k
      BY <2>2, <2>10 DEF Range
    <3>2. r >= 1
      BY <2>6, <2>10
    <3>3. Len(stack) + 1 \in DOMAIN stack' /\ stack'[Len(stack) + 1].block = b
             /\ stack'[Len(stack) + 1].next = 1
      BY <2>1, <2>8, <2>10
    <3> QED BY <1>a, <3>1, <3>2, <3>3 DEF Ahead
  <2>11. AllFollowed'
    BY <1>a, <1>d, <2>1, <2>9, <2>10 DEF ClosedInv, AllFollowed
  <2>12. Shut'
    BY <1>d, <2>1 DEF Shut, Walking
  <2> QED BY <1>d, <2>1, <2>3, <2>11, <2>12
<1>g. ASSUME Looping, Top.next <= Len(Rows), stack' = NextRow,
             call' = Rows[Top.next], UNCHANGED <<visited, answer, cut>>
      PROVE  (AllRead /\ AllFollowed /\ RootFirst /\ Shut)'
  <2>1. /\ DOMAIN stack' = DOMAIN stack
        /\ Top \in Frame
        /\ \A i \in DOMAIN stack :
              /\ stack'[i].block = stack[i].block
              /\ stack'[i].next = IF i = Len(stack) THEN Top.next + 1 ELSE stack[i].next
    BY <1>g, RowFacts DEF ClosedInv, LedInv, Bounded
  <2>2. /\ tree[Top.block].children = Rows /\ Top = stack[Len(stack)]
        /\ Rows \in Seq(Nat \cup {NoBlock})
    BY <1>g, TopFacts DEF ClosedInv
  <2>3. AllRead' /\ Shut' /\ RootFirst'
    BY <1>a, <1>g DEF ClosedInv, AllRead, Shut, RootFirst, NoError, Looping, Walking
  <2>4. ASSUME NEW b, NEW k, Ahead(b, k) PROVE Ahead(b, k)' \/ k = call'
    <3>1. PICK i \in DOMAIN stack, r \in DOMAIN tree[b].children :
              stack[i].block = b /\ r >= stack[i].next /\ tree[b].children[r] = k
      BY <2>4 DEF Ahead
    <3>2. CASE i # Len(stack)
      BY <1>a, <2>1, <3>1, <3>2 DEF Ahead
    <3>3. CASE i = Len(stack)
      <4>1. b = Top.block /\ r \in DOMAIN Rows /\ Rows[r] = k /\ r >= Top.next
        BY <2>2, <3>1, <3>3
      <4>2. r = Top.next \/ r >= Top.next + 1
        BY <2>1, <2>2, <4>1 DEF Frame
      <4> QED BY <1>a, <1>g, <2>1, <3>1, <3>3, <4>1, <4>2 DEF Ahead
    <3> QED BY <3>2, <3>3
  <2>5. AllFollowed'
    BY <1>a, <1>c, <1>g, <2>4 DEF ClosedInv, AllFollowed, NoError, Looping
  <2> QED BY <2>3, <2>5
<1>7. CASE SkipRow
  BY <1>7, <1>g DEF SkipRow, Looping
<1>8. CASE FollowRow
  BY <1>8, <1>g DEF FollowRow
<1>9. CASE LeaveBranch
  <2>1. /\ Looping /\ Top.next > Len(Rows) /\ stack' = SubSeq(stack, 1, Len(stack) - 1)
        /\ UNCHANGED <<call, visited, answer, cut>>
    BY <1>9 DEF LeaveBranch
  <2>2. /\ tree[Top.block].children = Rows /\ Top = stack[Len(stack)] /\ Top \in Frame
        /\ Rows \in Seq(Nat \cup {NoBlock})
        /\ DOMAIN stack = 1 .. Len(stack) /\ Len(stack) \in Nat \ {0}
    BY <2>1, TopFacts DEF ClosedInv
  <2>3. DOMAIN stack' = 1 .. Len(stack) - 1 /\ \A i \in DOMAIN stack' : stack'[i] = stack[i]
    BY <1>b, <2>1, <2>2
  <2>4. AllRead' /\ Shut' /\ RootFirst'
    BY <1>a, <2>1 DEF ClosedInv, AllRead, Shut, RootFirst, NoError, Looping, Walking
  <2>5. ASSUME NEW b, NEW k, Ahead(b, k) PROVE Ahead(b, k)'
    <3>1. PICK i \in DOMAIN stack, r \in DOMAIN tree[b].children :
              stack[i].block = b /\ r >= stack[i].next /\ tree[b].children[r] = k
      BY <2>5 DEF Ahead
    <3>2. CASE i = Len(stack)
      BY <2>1, <2>2, <3>1, <3>2 DEF Frame
    <3>3. CASE i # Len(stack)
      BY <1>a, <2>2, <2>3, <3>1, <3>3 DEF Ahead
    <3> QED BY <3>2, <3>3
  <2>6. AllFollowed'
    BY <1>a, <2>1, <2>5 DEF ClosedInv, AllFollowed, NoError
  <2> QED BY <2>4, <2>6
<1>10. CASE Finish
  <2>1. /\ call = NoBlock /\ stack = << >> /\ answer = Walking /\ answer' = Ok(out)
        /\ UNCHANGED <<call, stack, visited, cut>>
    BY <1>10 DEF Finish
  <2>2. NoError
    BY <2>1 DEF NoError, Walking
  <2>3. root # NoBlock
    BY WalkAssumption DEF ClosedInv, LedInv, Bounded, Typed, TypeOK, NoBlock
  <2>4. AllRead' /\ Shut' /\ RootFirst'
    BY <1>a, <2>1, <2>2, <2>3 DEF ClosedInv, AllRead, Shut, RootFirst
  <2>5. AllFollowed'
    BY <1>a, <2>1, <2>2 DEF ClosedInv, AllFollowed, Ahead
  <2> QED BY <2>4, <2>5
<1>11. CASE UNCHANGED vars
  BY <1>11, <1>a DEF vars, ClosedInv, AllRead, AllFollowed, Ahead, RootFirst, Shut, NoError
<1> QED BY <1>1, <1>2, <1>3, <1>4, <1>5, <1>6, <1>7, <1>8, <1>9, <1>10, <1>11 DEF Next

(***************************************************************************)
(* An Ok answer has followed every child of every page it visited, except  *)
(* at blocks a cap refused (directory.rs:54-59 and 364-366).               *)
(***************************************************************************)
THEOREM WalkOkIsClosed == Spec => []OkIsClosed
<1>1. ClosedInv => OkIsClosed
  <2> SUFFICES ASSUME ClosedInv, answer.status = "ok" PROVE OkIsClosed
    BY DEF OkIsClosed
  <2>1. call = NoBlock /\ stack = << >> /\ NoError /\ answer # Walking
    BY DEF ClosedInv, Shut, NoError, Walking
  <2>2. \A b, k : ~Ahead(b, k)
    BY <2>1 DEF Ahead
  <2>3. \A b : NoBlock \notin Children(tree, b)
    BY DEF Children
  <2> QED BY <2>1, <2>2, <2>3 DEF ClosedInv, AllRead, AllFollowed, RootFirst, OkIsClosed
<1> QED BY ClosedInit, ClosedNext, <1>1, PTL DEF Spec

-----------------------------------------------------------------------------
(***************************************************************************)
(* Flattening a sequence of sequences one further: the recursion of        *)
(* FlattenSeq is followed by least counterexample.                         *)
(***************************************************************************)
FlatBody(seqs, f, i) == IF i = 1 THEN seqs[i] ELSE f[i - 1] \o seqs[i]

LEMMA FlatExists ==
    ASSUME NEW seqs, NEW n \in Nat
    PROVE  \E f : f = [i \in 1 .. n |-> FlatBody(seqs, f, i)]
<1> DEFINE Solves(f, m) ==
             /\ f = [i \in 1 .. n |-> f[i]]
             /\ \A i \in 1 .. m : f[i] = FlatBody(seqs, f, i)
           Open == {m \in 0 .. n : \A f : ~ Solves(f, m)}
<1>1. Open = {}
  <2>1. SUFFICES ASSUME Open # {} PROVE FALSE
    OBVIOUS
  <2>2. PICK m \in Open : \A y \in Open : m <= y
    <3>1. Open \in SUBSET Nat
      OBVIOUS
    <3> HIDE DEF Open
    <3> QED BY <2>1, <3>1, LeastExists
  <2>3. m # 0
    <3> DEFINE f == [i \in 1 .. n |-> << >>]
    <3>1. Solves(f, 0)
      OBVIOUS
    <3> HIDE DEF Solves
    <3> QED BY <3>1
  <2>4. m - 1 \in 0 .. n /\ m - 1 \notin Open
    BY <2>2, <2>3
  <2>5. PICK f : Solves(f, m - 1)
    <3> HIDE DEF Solves
    <3> QED BY <2>4
  <2> DEFINE g == [i \in 1 .. n |-> IF i = m THEN FlatBody(seqs, f, m) ELSE f[i]]
  <2>6. \A i \in 1 .. m : g[i] = FlatBody(seqs, g, i)
    <3> SUFFICES ASSUME NEW i \in 1 .. m PROVE g[i] = FlatBody(seqs, g, i)
      OBVIOUS
    <3>1. g[i] = FlatBody(seqs, f, i)
      <4>1. i \in 1 .. n /\ (i # m => i \in 1 .. m - 1)
        BY <2>4
      <4>2. i # m => f[i] = FlatBody(seqs, f, i)
        BY <2>5, <4>1
      <4> QED BY <4>1, <4>2
    <3>2. i # 1 => g[i - 1] = f[i - 1]
      OBVIOUS
    <3> HIDE DEF g
    <3>3. FlatBody(seqs, g, i) = FlatBody(seqs, f, i)
      BY <3>2 DEF FlatBody
    <3> QED BY <3>1, <3>3
  <2>7. Solves(g, m)
    BY <2>6
  <2> HIDE DEF Solves
  <2> QED BY <2>2, <2>7
<1>2. PICK f : Solves(f, n)
  <2> HIDE DEF Solves
  <2> QED BY <1>1
<1>3. f = [i \in 1 .. n |-> FlatBody(seqs, f, i)]
  BY <1>2
<1> QED BY <1>3

LEMMA FlattenIs ==
    ASSUME NEW seqs, Len(seqs) \in Nat, Len(seqs) # 0
    PROVE  \E f : /\ FlattenSeq(seqs) = f[Len(seqs)]
                  /\ \A i \in 1 .. Len(seqs) : f[i] = FlatBody(seqs, f, i)
<1> DEFINE f == CHOOSE g : g = [i \in 1 .. Len(seqs) |-> FlatBody(seqs, g, i)]
<1>1. FlattenSeq(seqs) = f[Len(seqs)]
  BY DEF FlattenSeq, FlatBody
<1>2. \E g : g = [i \in 1 .. Len(seqs) |-> FlatBody(seqs, g, i)]
  BY FlatExists
<1>3. f = [i \in 1 .. Len(seqs) |-> FlatBody(seqs, f, i)]
  <2> DEFINE Is(g) == g = [i \in 1 .. Len(seqs) |-> FlatBody(seqs, g, i)]
  <2>1. (\E g : Is(g)) => Is(CHOOSE g : Is(g))
    <3> HIDE DEF Is
    <3> QED OBVIOUS
  <2> QED BY <1>2, <2>1
<1> HIDE DEF f
<1>4. \A i \in 1 .. Len(seqs) : f[i] = FlatBody(seqs, f, i)
  BY <1>3
<1> QED BY <1>1, <1>4

LEMMA FlattenAppend ==
    ASSUME NEW S, NEW seqs \in Seq(Seq(S)), NEW x \in Seq(S)
    PROVE  FlattenSeq(Append(seqs, x)) = FlattenSeq(seqs) \o x
<1> DEFINE n == Len(seqs)
           more == Append(seqs, x)
<1>1. /\ n \in Nat /\ Len(more) = n + 1 /\ more[n + 1] = x
      /\ \A i \in 1 .. n : more[i] = seqs[i]
  OBVIOUS
<1> HIDE DEF more
<1>2. PICK g : /\ FlattenSeq(more) = g[n + 1]
               /\ \A i \in 1 .. n + 1 : g[i] = FlatBody(more, g, i)
  <2>1. \E f : /\ FlattenSeq(more) = f[Len(more)]
               /\ \A i \in 1 .. Len(more) : f[i] = FlatBody(more, f, i)
    BY <1>1, FlattenIs
  <2> QED BY <1>1, <2>1
<1>3. g[n + 1] = FlatBody(more, g, n + 1)
  BY <1>1, <1>2
<1>4. CASE n = 0
  <2>1. FlattenSeq(more) = x
    BY <1>1, <1>2, <1>3, <1>4 DEF FlatBody
  <2>2. FlattenSeq(seqs) = << >>
    BY <1>4 DEF FlattenSeq
  <2>3. << >> \o x = x
    OBVIOUS
  <2> QED BY <2>1, <2>2, <2>3 DEF more
<1>5. CASE n # 0
  <2>1. PICK f : /\ FlattenSeq(seqs) = f[n]
                 /\ \A i \in 1 .. n : f[i] = FlatBody(seqs, f, i)
    BY <1>1, <1>5, FlattenIs
  <2> DEFINE Bad == {i \in 1 .. n : f[i] # g[i]}
  <2>2. Bad = {}
    <3>1. SUFFICES ASSUME Bad # {} PROVE FALSE
      OBVIOUS
    <3>2. PICK i \in Bad : \A y \in Bad : i <= y
      <4>1. Bad \in SUBSET Nat
        BY <1>1
      <4> HIDE DEF Bad
      <4> QED BY <3>1, <4>1, LeastExists
    <3>3. i \in 1 .. n /\ (i # 1 => i - 1 \in 1 .. n /\ i - 1 \notin Bad)
      BY <1>1, <3>2
    <3>4. more[i] = seqs[i] /\ (i # 1 => f[i - 1] = g[i - 1])
      BY <1>1, <3>3
    <3>5. f[i] = FlatBody(seqs, f, i) /\ g[i] = FlatBody(more, g, i)
      BY <1>1, <1>2, <2>1, <3>3
    <3>6. f[i] = g[i]
      BY <3>4, <3>5 DEF FlatBody
    <3> QED BY <3>2, <3>6
  <2>3. f[n] = g[n]
    BY <1>1, <1>5, <2>2
  <2>4. FlattenSeq(more) = g[n] \o x
    BY <1>1, <1>2, <1>3, <1>5 DEF FlatBody
  <2> QED BY <2>1, <2>3, <2>4 DEF more
<1> QED BY <1>4, <1>5

(***************************************************************************)
(* Visiting one more block adds what that block lists.                     *)
(***************************************************************************)
Contribution(t, b) == IF IsLeaf(t, b) THEN t[b].entries ELSE << >>

\* A function on the first n positions is a sequence.
LEMMA FunctionIsSequence ==
    ASSUME NEW V, NEW n \in Nat, NEW f \in [1 .. n -> V]
    PROVE  f \in Seq(V)
  OBVIOUS

LEMMA ListingAppend ==
    ASSUME NEW t, NEW S, NEW blocks \in Seq(S), NEW b \in S,
           \A c \in S : Contribution(t, c) \in Seq(Entries)
    PROVE  Listing(t, Append(blocks, b)) = Listing(t, blocks) \o Contribution(t, b)
<1> DEFINE Parts(s) == [i \in DOMAIN s |-> Contribution(t, s[i])]
<1>1. Listing(t, blocks) = FlattenSeq(Parts(blocks))
      /\ Listing(t, Append(blocks, b)) = FlattenSeq(Parts(Append(blocks, b)))
  BY DEF Listing, Contribution
<1>2. Parts(blocks) \in Seq(Seq(Entries))
  <2>1. /\ Len(blocks) \in Nat
        /\ DOMAIN blocks = 1 .. Len(blocks)
        /\ \A i \in 1 .. Len(blocks) : blocks[i] \in S
    OBVIOUS
  <2>2. \A i \in 1 .. Len(blocks) : Contribution(t, blocks[i]) \in Seq(Entries)
    BY <2>1
  <2>3. Parts(blocks) = [i \in 1 .. Len(blocks) |-> Contribution(t, blocks[i])]
    BY <2>1
  <2>4. Parts(blocks) \in [1 .. Len(blocks) -> Seq(Entries)]
    BY <2>2, <2>3
  <2> HIDE DEF Parts
  <2> QED BY <2>1, <2>4, FunctionIsSequence
<1>3. Parts(Append(blocks, b)) = Append(Parts(blocks), Contribution(t, b))
  OBVIOUS
<1> HIDE DEF Parts
<1> QED BY <1>1, <1>2, <1>3, FlattenAppend

(***************************************************************************)
(* The entries collected are those of the visited leaf pages.              *)
(***************************************************************************)
ListedInv == LedInv /\ ListingFollowsVisits

\* A block of the tree contributes entries, or none.
LEMMA ContributionType ==
    ASSUME Typed, NEW b \in Nat, b \in DOMAIN tree
    PROVE  Contribution(tree, b) \in Seq(Entries)
<1>1. tree[b] = Loaded(b)
  BY TreeFacts
<1>2. CASE IsLeaf(tree, b)
  <2>1. Loaded(b) \in Page
    BY <1>1, <1>2, LoadedType DEF IsLeaf, Readable, Typed
  <2> QED BY <1>1, <1>2, <2>1 DEF Contribution, IsLeaf, Page
<1>3. CASE ~ IsLeaf(tree, b)
  BY <1>3 DEF Contribution
<1> QED BY <1>2, <1>3

LEMMA ListedInit == Init => ListedInv
<1> SUFFICES ASSUME Init PROVE ListingFollowsVisits
  BY LedInit DEF ListedInv
<1>1. Listing(tree, << >>) = << >>
  <2>1. [k \in DOMAIN << >> |-> Contribution(tree, << >>[k])] = << >>
    OBVIOUS
  <2>2. Listing(tree, << >>) = FlattenSeq(<< >>)
    BY <2>1 DEF Listing, Contribution
  <2> QED BY <2>2 DEF FlattenSeq
<1>2. visited = << >> /\ out = << >> /\ answer.status = "walking"
  BY DEF Init, Walking
<1> QED BY <1>1, <1>2 DEF ListingFollowsVisits

LEMMA ListedNext == ListedInv /\ [Next]_vars => ListedInv'
<1> SUFFICES ASSUME ListedInv, [Next]_vars PROVE ListingFollowsVisits'
  BY LedNext DEF ListedInv
<1>a. UNCHANGED <<image, base, root, tree>>
  BY DEF Next, vars, EnterCapped, EnterSeen, EnterNew, EnterUnresolved, EnterMalformed,
         EnterLeaf, EnterBranch, SkipRow, FollowRow, LeaveBranch, Finish
<1>b. Typed /\ LedTo /\ ListingFollowsVisits
  BY DEF ListedInv, LedInv, Bounded
<1>c. ASSUME UNCHANGED <<visited, out, answer>> PROVE ListingFollowsVisits'
  BY <1>a, <1>b, <1>c DEF ListingFollowsVisits
<1>d. ASSUME answer'.status \notin {"walking", "ok"} PROVE ListingFollowsVisits'
  BY <1>d DEF ListingFollowsVisits
<1>e. ASSUME EnterNew
      PROVE  /\ answer.status = "walking" /\ answer.status # "ok"
             /\ call \in DOMAIN tree /\ tree[call] = Loaded(call)
             /\ out = Listing(tree, visited) /\ out \in Seq(Entries)
             /\ Listing(tree, visited') = out \o Contribution(tree, call)
  <2>1. call \in Nat /\ answer = Walking /\ call # NoBlock /\ visited' = Append(visited, call)
    BY <1>b, <1>e, EnterFacts DEF EnterNew, Entering
  <2>2. answer.status = "walking"
    BY <2>1 DEF Walking
  <2>3. call \in DOMAIN tree /\ tree[call] = Loaded(call)
    BY <1>b, <2>1, TreeFacts DEF LedTo
  <2>4. out = Listing(tree, visited)
    BY <1>b, <2>2 DEF ListingFollowsVisits
  <2> DEFINE S == DOMAIN tree \cap Nat
  <2>5. visited \in Seq(S) /\ call \in S
    <3>1. visited \in Seq(Nat) /\ \A i \in 1 .. Len(visited) : visited[i] \in DOMAIN tree
      BY <1>b DEF Typed, TypeOK, LedTo, Range
    <3>2. Len(visited) \in Nat /\ \A i \in 1 .. Len(visited) : visited[i] \in Nat
      BY <3>1
    <3>3. call \in S /\ \A i \in 1 .. Len(visited) : visited[i] \in S
      BY <2>1, <2>3, <3>1, <3>2
    <3> HIDE DEF S
    <3>4. visited \in [1 .. Len(visited) -> S]
      BY <3>1, <3>3
    <3> QED BY <3>2, <3>3, <3>4, FunctionIsSequence
  <2>6. \A c \in S : Contribution(tree, c) \in Seq(Entries)
    BY <1>b, ContributionType
  <2> HIDE DEF S
  <2>7. Listing(tree, Append(visited, call)) = Listing(tree, visited) \o Contribution(tree, call)
    BY <2>5, <2>6, ListingAppend
  <2> QED BY <1>b, <2>1, <2>2, <2>3, <2>4, <2>7 DEF Typed, TypeOK
<1>1. CASE EnterCapped
  BY <1>1, <1>c DEF EnterCapped
<1>2. CASE EnterSeen
  BY <1>2, <1>c DEF EnterSeen
<1>3. CASE EnterUnresolved
  BY <1>3, <1>d DEF EnterUnresolved, Unresolved
<1>4. CASE EnterMalformed
  BY <1>4, <1>d DEF EnterMalformed, Truncated
<1>5. CASE EnterLeaf
  <2>1. EnterNew /\ out' = out \o Loaded(call).entries /\ answer' = answer
    BY <1>5 DEF EnterLeaf
  <2>2. IsLeaf(tree, call)
    BY <1>5, <1>e, <2>1 DEF EnterLeaf, IsLeaf, Readable
  <2>3. Contribution(tree, call) = Loaded(call).entries
    BY <1>e, <2>1, <2>2 DEF Contribution
  <2>4. out' = Listing(tree, visited') /\ answer'.status # "ok"
    BY <1>e, <2>1, <2>3
  <2> QED BY <1>a, <2>4 DEF ListingFollowsVisits
<1>6. CASE EnterBranch
  <2>1. EnterNew /\ out' = out /\ answer' = answer
    BY <1>6 DEF EnterBranch
  <2>2. ~ IsLeaf(tree, call)
    BY <1>6, <1>e, <2>1 DEF EnterBranch, IsLeaf
  <2>3. out \o << >> = out
    BY <1>e, <2>1
  <2>4. out' = Listing(tree, visited') /\ answer'.status # "ok"
    BY <1>e, <2>1, <2>2, <2>3 DEF Contribution
  <2> QED BY <1>a, <2>4 DEF ListingFollowsVisits
<1>7. CASE SkipRow
  BY <1>7, <1>c DEF SkipRow
<1>8. CASE FollowRow
  BY <1>8, <1>c DEF FollowRow
<1>9. CASE LeaveBranch
  BY <1>9, <1>c DEF LeaveBranch
<1>10. CASE Finish
  <2>1. /\ answer.status = "walking" /\ answer'.status = "ok" /\ answer'.entries = out
        /\ UNCHANGED <<visited, out>>
    BY <1>10 DEF Finish, Walking, Ok
  <2>2. out' = Listing(tree', visited') /\ answer'.entries = out'
    BY <1>a, <1>b, <2>1 DEF ListingFollowsVisits
  <2> QED BY <2>2 DEF ListingFollowsVisits
<1>11. CASE UNCHANGED vars
  BY <1>11, <1>c DEF vars
<1> QED BY <1>1, <1>2, <1>3, <1>4, <1>5, <1>6, <1>7, <1>8, <1>9, <1>10, <1>11 DEF Next

(***************************************************************************)
(* The listing is what the visited leaf pages hold, in visiting order and  *)
(* each page once, on every image (directory.rs:388-391 and 430-433).      *)
(***************************************************************************)
THEOREM WalkListsVisitedLeaves == Spec => []ListingFollowsVisits
<1>1. ListedInv => ListingFollowsVisits
  BY DEF ListedInv
<1> QED BY ListedInit, ListedNext, <1>1, PTL DEF Spec
=============================================================================
