--------------------------- MODULE MCLayerRegistry --------------------------
(***************************************************************************)
(* Instances of LayerRegistry for TLC: a name that can be a table, a       *)
(* function or both, one of a function, one of a function whose row cannot *)
(* be decoded, and the requests of each run.                               *)
(***************************************************************************)
EXTENDS LayerRegistry, TLC

CONSTANTS a, b, c, r1, r2

MCIds == {a, b}
ThreeIds == {a, b, c}

Ask(kind, names) == [kind |-> kind, names |-> names, valid |-> TRUE]

(* The catalogues: a table and a function; the table alone; a name shared  *)
(* by a table and a function; a function whose row cannot be decoded.      *)
Both == [tables |-> {a}, functions |-> {b}]
TableOnly == [tables |-> {a}, functions |-> {}]
Shared == [tables |-> {a}, functions |-> {a}]

Undecodable == [tables |-> {a}, functions |-> {c}]

AllCatalogs == {Both, Shared, Undecodable}
OneCatalog == {Both}
TwoCatalogs == {Both, TableOnly}

(* Every kind of request, with a multi-layer tile, one that names a layer  *)
(* twice, and one outside the grid.                                        *)
AllRequests ==
    {Ask("list", <<>>), Ask("detail", <<a>>), Ask("preview", <<a>>),
     Ask("tile", <<a, b>>), Ask("tile", <<a, a>>),
     [kind |-> "tile", names |-> <<b>>, valid |-> FALSE]}

MoreRequests == AllRequests \cup {Ask("detail", <<b>>), Ask("preview", <<b>>)}
RefreshAndTile == {Ask("list", <<>>), Ask("detail", <<a>>), Ask("tile", <<a>>)}
(* For the disagreements the README lists without a run, with TwoCatalogs.  *)
ListAndPreview == {Ask("list", <<>>), Ask("preview", <<a>>)}
OnlyLists == {Ask("list", <<>>)}

NoIds == {}
OnlyC == {c}

Workers == {r1, r2}
OneWorker == {r1}
Symmetric == Permutations({r1, r2})
=============================================================================
