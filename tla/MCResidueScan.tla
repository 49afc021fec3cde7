---------------------------- MODULE MCResidueScan ----------------------------
(***************************************************************************)
(* recover_residue alone, on any image: two-cluster pages (so the last     *)
(* cluster holds a page that does not fit), several copies of one number,  *)
(* pages of another table, a malformed page and a branch page.             *)
(***************************************************************************)
EXTENDS ResidueScan

CONSTANT OtherTable

MCPage(t, s, names) ==
    [self |-> s, table |-> t, parses |-> TRUE, branch |-> FALSE,
     children |-> << >>, entries |-> names]

MCPages ==
    {MCPage(RootTable, s, names) : s \in 1 .. 3, names \in {<<"a">>, <<"a", "b">>, <<"c">>}}
    \cup {MCPage(OtherTable, 4, <<"a">>), NoPage,
          [MCPage(RootTable, 2, <<"b">>) EXCEPT !.parses = FALSE],
          [MCPage(RootTable, 3, << >>) EXCEPT !.branch = TRUE, !.children = <<1>>]}

MCImages ==
    {img \in [Cluster -> MCPages] : img[Clusters - 1] = MCPage(RootTable, 3, <<"c">>)}
=============================================================================
