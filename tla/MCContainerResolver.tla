------------------------- MODULE MCContainerResolver -------------------------
(***************************************************************************)
(* Instance for TLC: five clusters, two-cluster pages (so the last cluster *)
(* holds a page that does not fit), self-blocks over three containers.     *)
(***************************************************************************)
EXTENDS ContainerResolver

CONSTANT MCTable

MCPage(s) ==
    [self |-> s, table |-> MCTable, parses |-> TRUE, branch |-> FALSE,
     children |-> << >>, entries |-> << >>]

MCSelfs == 0 .. 5

MCImages ==
    {img \in [Cluster -> {MCPage(s) : s \in MCSelfs} \cup {NoPage}] :
        img[Clusters - 1] \in {NoPage, MCPage(1)}}
=============================================================================
