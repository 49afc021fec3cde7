---------------------------- MODULE DirectoryWalk ----------------------------
(***************************************************************************)
(* walk_directory and the recursive descend under it                       *)
(* (core/src/directory.rs:356-393 and 466-472), with the call stack made   *)
(* explicit.  `call` is the block descend has just been called with;       *)
(* `stack` holds the open row loops of the branch pages above it, so       *)
(* Len(stack) is the depth argument.  Each action is one way a call can    *)
(* go, or one step of a row loop.                                          *)
(*                                                                         *)
(* The resolver is built before the walk starts; the map it builds is      *)
(* ResidentBase (module ContainerResolver).                                *)
(***************************************************************************)
EXTENDS BlockResolution, PageTree

CONSTANTS
    Images,       \* the images a caller may pass
    Roots,        \* the root blocks a caller may pass
    MaxDepth,     \* MAX_DESCENT_DEPTH
    MaxVisited    \* MAX_VISITED_PAGES

ASSUME WalkAssumption ==
    /\ Images \subseteq Image
    /\ Roots \subseteq Nat
    /\ MaxDepth \in Nat \ {0}
    /\ MaxVisited \in Nat \ {0}

VARIABLES
    image,     \* the byte slice, never written
    base,      \* the resolver's container base map
    call,      \* the block being entered, or NoBlock inside a row loop
    stack,     \* open branch pages, outermost first, each with its next row
    visited,   \* the blocks entered so far, in order
    out,       \* the entries collected so far
    answer,    \* what walk_directory returns
    root,      \* history: the block the walk was asked for
    tree,      \* history: what every block of the image reads as
    cut        \* history: the blocks a cap refused to enter

vars == <<image, base, call, stack, visited, out, answer, root, tree, cut>>

Walking    == [status |-> "walking"]
Ok(list)   == [status |-> "ok", entries |-> list]
Unresolved(b) == [status |-> "unresolved", block |-> b]
Truncated  == [status |-> "truncated"]

Answer == [status : {"walking", "truncated"}]
              \cup [status : {"ok"}, entries : Seq(Entries)]
              \cup [status : {"unresolved"}, block : Nat]

Frame == [block : Nat, next : Nat \ {0}]

\* What a block reads as.
Loaded(b) == ReadPage(image, base, b)

\* Every block number this walk can meet: the one asked for, and those in rows.
Blocks(img, b0) ==
    ({b0} \cup UNION {Range(p.children) : p \in Range(img) \ {NoPage}}) \ {NoBlock}

TypeOK ==
    /\ image \in Images
    /\ base = ResidentBase(image, Band)
    /\ call \in Nat \cup {NoBlock}
    /\ stack \in Seq(Frame)
    /\ visited \in Seq(Nat)
    /\ out \in Seq(Entries)
    /\ answer \in Answer
    /\ root \in Roots
    /\ tree = [b \in Blocks(image, root) |-> Loaded(b)]
    /\ cut \subseteq Nat

Init ==
    /\ image \in Images
    /\ root \in Roots
    /\ base = ResidentBase(image, Band)
    /\ call = root
    /\ stack = << >>
    /\ visited = << >>
    /\ out = << >>
    /\ answer = Walking
    /\ tree = [b \in Blocks(image, root) |-> Loaded(b)]
    /\ cut = {}

AtCap_deep == Len(stack) > MaxDepth \/ Len(visited) > MaxVisited
AtCap == Len(stack) >= MaxDepth \/ Len(visited) >= MaxVisited

Seen == call \in Range(visited)

\* descend has been called and has not returned yet.
Entering == answer = Walking /\ call # NoBlock

(***************************************************************************)
(* The caps: descend returns Ok(()) before looking at the block.           *)
(***************************************************************************)
EnterCapped ==
    /\ Entering
    /\ AtCap
    /\ call' = NoBlock
    /\ cut' = IF Seen THEN cut ELSE cut \cup {call}
    /\ UNCHANGED <<image, base, stack, visited, out, answer, root, tree>>

\* A block entered before, by a cycle or a shared child: Ok(()).
EnterSeen ==
    /\ Entering
    /\ ~AtCap
    /\ Seen
    /\ call' = NoBlock
    /\ UNCHANGED <<image, base, stack, visited, out, answer, root, tree, cut>>

\* The block is visited from here on, whatever its page turns out to be.
EnterNew ==
    /\ Entering
    /\ ~AtCap
    /\ ~Seen
    /\ visited' = Append(visited, call)
    /\ call' = NoBlock
    /\ UNCHANGED <<image, base, root, tree, cut>>

(***************************************************************************)
(* An error leaves every open call at once (the ? operator); the entries   *)
(* collected so far are dropped with the walk.                             *)
(***************************************************************************)
EnterUnresolved_ignored ==
    /\ EnterNew
    /\ Loaded(call) = NoPage
    /\ UNCHANGED <<stack, out, answer>>

EnterUnresolved_cleared ==
    /\ EnterNew
    /\ Loaded(call) = NoPage
    /\ answer' = Unresolved(call')
    /\ stack' = << >>
    /\ out' = << >>

EnterUnresolved ==
    /\ EnterNew
    /\ Loaded(call) = NoPage
    /\ answer' = Unresolved(call)
    /\ stack' = << >>
    /\ out' = << >>

EnterMalformed_unresolved ==
    /\ EnterNew
    /\ Loaded(call) # NoPage
    /\ ~Loaded(call).parses
    /\ answer' = Unresolved(call)
    /\ stack' = << >>
    /\ out' = << >>

EnterMalformed ==
    /\ EnterNew
    /\ Loaded(call) # NoPage
    /\ ~Loaded(call).parses
    /\ answer' = Truncated
    /\ stack' = << >>
    /\ out' = << >>

EnterLeaf ==
    /\ EnterNew
    /\ Loaded(call) # NoPage
    /\ Loaded(call).parses
    /\ ~Loaded(call).branch
    /\ out' = out \o Loaded(call).entries
    /\ UNCHANGED <<stack, answer>>

EnterBranch_listing ==
    /\ EnterNew
    /\ Loaded(call) # NoPage
    /\ Loaded(call).parses
    /\ Loaded(call).branch
    /\ stack' = Append(stack, [block |-> call, next |-> 1])
    /\ out' = out \o Loaded(call).entries
    /\ UNCHANGED answer

EnterBranch ==
    /\ EnterNew
    /\ Loaded(call) # NoPage
    /\ Loaded(call).parses
    /\ Loaded(call).branch
    /\ stack' = Append(stack, [block |-> call, next |-> 1])
    /\ UNCHANGED <<out, answer>>

-----------------------------------------------------------------------------
\* The innermost open row loop.
Looping == answer = Walking /\ call = NoBlock /\ stack # << >>
Top     == stack[Len(stack)]
Rows    == Loaded(Top.block).children

NextRow == [stack EXCEPT ![Len(stack)].next = @ + 1]

\* A row too short to hold a block number is skipped.
SkipRow_stopping ==
    /\ Looping
    /\ Top.next <= Len(Rows)
    /\ Rows[Top.next] = NoBlock
    /\ stack' = [stack EXCEPT ![Len(stack)].next = Len(Rows) + 1]
    /\ UNCHANGED <<image, base, call, visited, out, answer, root, tree, cut>>

SkipRow ==
    /\ Looping
    /\ Top.next <= Len(Rows)
    /\ Rows[Top.next] = NoBlock
    /\ stack' = NextRow
    /\ UNCHANGED <<image, base, call, visited, out, answer, root, tree, cut>>

\* Recurse into the row's child.
FollowRow_rereading ==
    /\ Looping
    /\ Top.next <= Len(Rows)
    /\ Rows[Top.next] # NoBlock
    /\ call' = Rows[Top.next]
    /\ UNCHANGED <<image, base, stack, visited, out, answer, root, tree, cut>>

FollowRow ==
    /\ Looping
    /\ Top.next <= Len(Rows)
    /\ Rows[Top.next] # NoBlock
    /\ call' = Rows[Top.next]
    /\ stack' = NextRow
    /\ UNCHANGED <<image, base, visited, out, answer, root, tree, cut>>

\* The loop is over: this call of descend returns Ok(()).
LeaveBranch ==
    /\ Looping
    /\ Top.next > Len(Rows)
    /\ stack' = SubSeq(stack, 1, Len(stack) - 1)
    /\ UNCHANGED <<image, base, call, visited, out, answer, root, tree, cut>>

\* The outermost call has returned: walk_directory returns Ok(out).
Finish ==
    /\ answer = Walking
    /\ call = NoBlock
    /\ stack = << >>
    /\ answer' = Ok(out)
    /\ UNCHANGED <<image, base, call, stack, visited, out, root, tree, cut>>

Next ==
    \/ EnterCapped
    \/ EnterSeen
    \/ EnterUnresolved
    \/ EnterMalformed
    \/ EnterLeaf
    \/ EnterBranch
    \/ SkipRow
    \/ FollowRow
    \/ LeaveBranch
    \/ Finish

\* One thread runs the recursion; it is never kept from its next step.
Spec == Init /\ [][Next]_vars /\ WF_vars(Next)

-----------------------------------------------------------------------------
(***************************************************************************)
(* The walk is bounded as the constants promise, and no page is entered    *)
(* twice, whatever cycles or shared children the image has                 *)
(* (directory.rs:86-96 and 350-354).  The open pages are distinct visited  *)
(* branch pages, so a cycle never nests a row loop in itself.              *)
(***************************************************************************)
WalkBounded ==
    /\ Len(stack) <= MaxDepth
    /\ Len(visited) <= MaxVisited
    /\ IsInjective(visited)
    /\ \A i, j \in DOMAIN stack : stack[i].block = stack[j].block => i = j

(***************************************************************************)
(* The entries collected are those of the visited leaf pages, in visiting  *)
(* order, each page once and no other page ever: nothing is fabricated and *)
(* nothing is listed twice (directory.rs:388-391 and 430-433).             *)
(***************************************************************************)
ListingFollowsVisits ==
    /\ answer.status \in {"walking", "ok"} => out = Listing(tree, visited)
    /\ answer.status = "ok" => answer.entries = out

(***************************************************************************)
(* A walk that answers Ok has been everywhere: the root and every child a  *)
(* visited branch page names have been visited, and every visited page was *)
(* readable, unless a cap refused the block (directory.rs:54-59, 364-366). *)
(***************************************************************************)
OkIsClosed ==
    answer.status = "ok" =>
        /\ root \in Range(visited)
        /\ \A b \in Range(visited) :
              /\ IsBranch(tree, b) \/ IsLeaf(tree, b)
              /\ Children(tree, b) \subseteq Range(visited) \cup cut

(***************************************************************************)
(* An error names a block the walk was led to, by the caller or by a row   *)
(* of a branch page it had read, and that block resolves to no page        *)
(* (directory.rs:437-441).                                                 *)
(***************************************************************************)
UnresolvedIsGenuine ==
    answer.status = "unresolved" =>
        /\ Loaded(answer.block) = NoPage
        /\ \/ answer.block = root
           \/ \E b \in Range(visited) : answer.block \in Children(tree, b)

(***************************************************************************)
(* A resident page is never called unresolved while the resident pages of  *)
(* its container agree on where the container starts: only contradictory   *)
(* self-blocks can hide it (container.rs:45-55, directory.rs:286-297).     *)
(***************************************************************************)
AgreedPagesAreFound ==
    answer.status = "unresolved" =>
        LET peers == Witnesses(image, Band, Clusters, Container(answer.block, Band))
        IN  \A c \in Copies(image, answer.block) \cap peers :
                c > MaxCluster \/ \E d \in peers :
                    ImpliedBase(image, Band, d) # ImpliedBase(image, Band, c)

(***************************************************************************)
(* No physical page is read twice, although pages are remembered by block  *)
(* number and two numbers may lead to one cluster, by way of two container *)
(* indexes, the high band or the low one: a wrong container size costs     *)
(* pages and never puts one in the place of another (directory.rs:276-297, *)
(* 351-352 and 367-370).                                                   *)
(***************************************************************************)
PagesVisitedOnce ==
    \A i, j \in DOMAIN visited :
        LET c == ResolveBlock(image, base, visited[i])
        IN  c # NoCluster /\ c = ResolveBlock(image, base, visited[j]) => i = j

(***************************************************************************)
(* The walk implements the one-shot listing promise (directory.rs:341-355  *)
(* and 423-443): of its state only the answer is seen, every step up to    *)
(* the last stutters, and the last gives an answer the promise allows of   *)
(* the tree the root reaches.                                              *)
(***************************************************************************)
Listed == INSTANCE TreeListing WITH
              tree   <- tree,
              root   <- root,
              answer <- answer
ImplementsListing == Listed!Spec

(***************************************************************************)
(* Every walk returns, on every image (directory.rs:350-354).              *)
(***************************************************************************)
WalkReturns == <>(answer # Walking)
-----------------------------------------------------------------------------
(***************************************************************************)
(* What the documentation promises beyond that.                            *)
(*                                                                         *)
(* "never a silently-truncated listing" (directory.rs:355 and 433): an Ok  *)
(* answer lists every leaf the root reaches.                               *)
(***************************************************************************)
NeverSilentlyTruncated ==
    answer.status = "ok" => Leaves(tree, root) \subseteq Range(visited)

(***************************************************************************)
(* "then also allow the low mapping as a fallback (a small image may place *)
(* a page at a low block number)" (directory.rs:236-237), and "None only   *)
(* when no strategy lands the genuine page" (directory.rs:295-296): a page *)
(* sitting at the cluster its own block number names is found.             *)
(***************************************************************************)
LowMappingIsFallback ==
    answer.status = "unresolved" => ~AnswersBlock(image, answer.block, answer.block)
=============================================================================
