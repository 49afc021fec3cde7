--------------------------- MODULE MCDirectoryWalk ---------------------------
(***************************************************************************)
(* Instances for TLC.  Cluster 0 holds the root page, with each list of    *)
(* rows in MCRootRows; the other clusters hold any mix of the pages in the *)
(* palette: leaves, a malformed page, branch pages that share children,    *)
(* point back at the root or name a far block, and copies of one block at  *)
(* two places.                                                             *)
(***************************************************************************)
EXTENDS DirectoryWalk

CONSTANT MCTable

Leaf(s, e) ==
    [self |-> s, table |-> MCTable, parses |-> TRUE, branch |-> FALSE,
     children |-> << >>, entries |-> <<e>>]
Node(s, rows) ==
    [self |-> s, table |-> MCTable, parses |-> TRUE, branch |-> TRUE,
     children |-> rows, entries |-> <<"r">>]
Broken(s) ==
    [self |-> s, table |-> MCTable, parses |-> FALSE, branch |-> FALSE,
     children |-> << >>, entries |-> << >>]

MCRootRows ==
    {<< >>, <<1>>, <<5>>, <<1, 2>>, <<2, 1>>, <<1, 3>>, <<3, 1>>, <<1, 1>>, <<2, 5>>,
     <<NoBlock, 1>>, <<1, NoBlock>>, <<0, 1>>, <<1, 2, 3>>, <<3, NoBlock, 2>>}

MCPalette ==
    {NoPage, Leaf(1, "a"), Leaf(2, "b"), Leaf(5, "c"), Leaf(3, "a"), Broken(2),
     Node(1, <<2, 3>>), Node(2, <<0, 3>>), Node(3, <<5>>)}

MCImages ==
    {img \in [Cluster -> MCPalette \cup {Node(0, rows) : rows \in MCRootRows}] :
        /\ img[0] \notin MCPalette
        /\ \A c \in Cluster \ {0} : img[c] \in MCPalette}

\* Two pages of one container that disagree on its base, below a page that sits
\* at the cluster its own block number names.
MCRelocatedImages ==
    {img \in [Cluster -> {NoPage, Node(0, <<4>>), Leaf(3, "a"), Leaf(5, "b"), Leaf(4, "c")}] :
        img[0] = Node(0, <<4>>) /\ img[4] = Leaf(4, "c")}
=============================================================================
