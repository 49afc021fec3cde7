------------------------------ MODULE PageTree ------------------------------
(***************************************************************************)
(* A directory B+-tree as the walk can see it: a function `tree` from      *)
(* block numbers to the page each one reads as, or NoPage for a block no   *)
(* strategy resolves.  Nothing here depends on how a block is resolved or  *)
(* in which order the tree is walked.  On a hostile image the "tree" is    *)
(* any directed graph.                                                     *)
(***************************************************************************)
EXTENDS RefsImage, SequencesExt

Readable(tree, b) == b \in DOMAIN tree /\ tree[b] # NoPage
IsBranch(tree, b) == Readable(tree, b) /\ tree[b].parses /\ tree[b].branch
IsLeaf(tree, b)   == Readable(tree, b) /\ tree[b].parses /\ ~tree[b].branch

\* The two ways a block stops a walk with an error.
IsWall(tree, b)      == ~Readable(tree, b)
IsMalformed(tree, b) == Readable(tree, b) /\ ~tree[b].parses

\* The children a branch page names; rows too short for a block name none.
Children(tree, b) ==
    IF IsBranch(tree, b) THEN Range(tree[b].children) \ {NoBlock} ELSE {}

(***************************************************************************)
(* The blocks within n steps of the root, and all the blocks it reaches:   *)
(* every step past the first Clusters ones would need another page.        *)
(***************************************************************************)
Reachable(tree, root) ==
    LET within[n \in 0 .. Clusters] ==
            IF n = 0 THEN {root}
            ELSE within[n - 1] \cup UNION {Children(tree, b) : b \in within[n - 1]}
    IN  within[Clusters]

\* A chain of n distinct branch pages from the root down, parent to child.
HasChain(tree, root, n) ==
    n = 0 \/ \E chain \in [1 .. n -> {b \in Reachable(tree, root) : IsBranch(tree, b)}] :
                /\ chain[1] = root
                /\ IsInjective(chain)
                /\ \A i \in 1 .. n - 1 : chain[i + 1] \in Children(tree, chain[i])

Leaves(tree, root) == {b \in Reachable(tree, root) : IsLeaf(tree, b)}

\* The entries of the leaf pages in `blocks`, page after page.
Listing(tree, blocks) ==
    FlattenSeq([i \in DOMAIN blocks |->
                   IF IsLeaf(tree, blocks[i]) THEN tree[blocks[i]].entries ELSE << >>])
=============================================================================
