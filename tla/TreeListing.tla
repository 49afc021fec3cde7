---------------------------- MODULE TreeListing -----------------------------
(***************************************************************************)
(* What listing a directory promises its caller, with no walk in sight:    *)
(* one answer, given once.                                                 *)
(*   - The whole listing: every leaf page the root reaches contributes its *)
(*     entries exactly once, and nothing else contributes.                 *)
(*   - A partial listing, only when the tree outgrows a cap.               *)
(*   - An error, and then it names a block the root reaches that really is *)
(*     unreadable or malformed.                                            *)
(* The documentation promises the first and the third                      *)
(* (core/src/directory.rs:430-442); the second is what the caps add.       *)
(***************************************************************************)
EXTENDS PageTree

CONSTANTS MaxDepth, MaxVisited

VARIABLES tree, root, answer

Pending == [status |-> "walking"]

Init == answer = Pending

OutgrowsCap ==
    \/ Cardinality(Reachable(tree, root)) > MaxVisited
    \/ HasChain(tree, root, MaxDepth)

Ok(order) == [status |-> "ok", entries |-> Listing(tree, order)]

ListAll ==
    /\ \A b \in Reachable(tree, root) : ~IsWall(tree, b) /\ ~IsMalformed(tree, b)
    /\ \E order \in SetToSeqs(Leaves(tree, root)) : answer' = Ok(order)

ListPart ==
    /\ OutgrowsCap
    /\ \E some \in SUBSET Leaves(tree, root) :
          \E order \in SetToSeqs(some) : answer' = Ok(order)

NameWall ==
    \E b \in Reachable(tree, root) :
        IsWall(tree, b) /\ answer' = [status |-> "unresolved", block |-> b]

NameMalformed ==
    (\E b \in Reachable(tree, root) : IsMalformed(tree, b))
        /\ answer' = [status |-> "truncated"]

Next ==
    /\ answer = Pending
    /\ ListAll \/ ListPart \/ NameWall \/ NameMalformed
    /\ UNCHANGED <<tree, root>>

Spec == Init /\ [][Next]_<<tree, root, answer>> /\ WF_answer(Next)
=============================================================================
