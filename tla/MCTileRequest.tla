--------------------------- MODULE MCTileRequest ----------------------------
(* A catalogue and requests for TileRequest.                               *)
EXTENDS TileRequest, TLC

CONSTANTS h1, h2

-----------------------------------------------------------------------------
(* t has a feature id, u and w none, and ids that a path takes apart; f    *)
(* takes arguments with all kinds of defaults, g one whose name needs      *)
(* quotes and one with an empty default; k is no tile function.            *)
t == <<"t", "?">>
u == <<"u", ",", "u">>
f == <<"f">>
w == <<"w", "/", "w">>
g == <<"g">>
k == <<"k">>
nothing == <<"nothing">>

Integer(name) == [name |-> name, type |-> "integer", out |-> FALSE, default |-> <<>>, value |-> <<>>]
Arg(name, type, default, value) ==
    [name |-> name, type |-> type, out |-> FALSE, default |-> default, value |-> value]
Zxy == <<Integer("z"), Integer("x"), Integer("y")>>
Column(name, type) == [name |-> name, type |-> type]

SomeTables ==
    {[id |-> t, srid |-> 4326, geometry |-> "geom", key |-> <<"gid">>,
      columns |-> <<Column("name", "text"), Column("geom", "geometry"), Column("gid", "int4")>>],
     [id |-> u, srid |-> 3857, geometry |-> "geom", key |-> <<"name">>,
      columns |-> <<Column("geom", "geometry"), Column("name", "text")>>],
     [id |-> w, srid |-> 3857, geometry |-> "geom", key |-> <<>>, columns |-> <<Column("geom", "geometry")>>]}

SomeFunctions ==
    {[id |-> f, params |-> Zxy \o
        <<Arg("n", "integer", <<>>, <<>>),
          Arg("step", "integer", <<"'", "-5", "'", "::", "integer">>, <<"-5">>),
          Arg("s", "text", <<"'", "abc", " ", "name", "'", "::", "text">>, <<"abc", " ", "name">>),
          Arg("limit", "text", <<"'", "abc", "::", "name", "'", "::", "text">>, <<"abc", "::", "name">>)>>],
     [id |-> g, params |-> Zxy \o
        <<Arg("Width", "integer", <<"7">>, <<"7">>), Arg("s", "text", <<"'", "'", "::", "text">>, <<>>)>>],
     [id |-> k, params |-> <<Integer("x"), Integer("y"), Integer("z")>>]}

(* A default with the separator of the catalogue's list in it.             *)
CommaFunctions ==
    {[id |-> f, params |-> Zxy \o
        <<Arg("s", "text", <<"'", "abc", ", ", "name", "'", "::", "text">>, <<"abc", ", ", "name">>)>>]}
NoTables == {}

WordPieces == {"abc", "name", "-5", "7"}
Plain == {"x", "y", "z", "n", "s", "step", "limit", "properties", "resolution", "buffer",
          "filter", "filter-crs", "gid", "name", "geom", "unknown", "width"}
FoldNames == [p \in Plain |-> p] @@ "LIMIT" :> "limit" @@ "Width" :> "width"
Numbers == <<"7">> :> 7 @@ <<"0">> :> 0 @@ <<"-5">> :> -5
Fields == "gid" :> "gid" @@ "name" :> "name" @@ "unknown" :> "unknown" @@ " gid" :> "gid"
Filters == <<"good">> :> "AND good" @@ <<"bad">> :> "error" @@ <<"torn">> :> "panic"

-----------------------------------------------------------------------------
(* The server's settings, and requests by their path.                      *)
Tiles == <<"/", "tiles", "/">>
Health == <<"/", "health", ".", "json">>
Numerals == {"1", "2", "3"}
EscapesOfGo == "/" :> "%2F" @@ "," :> "%2C" @@ "?" :> "%3F"

(* A client asks the server itself, or a proxy that speaks HTTP with the   *)
(* server and adds the headers of one kind.                                *)
Client == [scheme |-> "https", host |-> "maps"]
Directly == [host |-> "maps", tls |-> TRUE, header |-> <<>>]
Through(headers) == [host |-> "inside", tls |-> FALSE, header |-> headers]
Forwarded == Through("Forwarded: host" :> "maps" @@ "Forwarded: proto" :> "https")
XForwarded == Through("X-Forwarded-Host" :> "maps" @@ "X-Forwarded-Proto" :> "https")

Get(path, way, query) == [path |-> path, way |-> way, query |-> query, valid |-> TRUE]
GetTile(names, query) ==
    Get(Url!Join(names, ",") \o <<"/", "3", "/", "1", "/", "2", ".", "pbf">>, Directly, query)
GetDetail(id, way) == Get(id \o <<".", "json">>, way, <<>>)

(* What the router makes of them.                                          *)
Routed(gets) ==
    {Url!Route(Tiles \o get.path) @@ get.way @@
        [asked |-> Client, valid |-> get.valid, query |-> get.query] : get \in gets}

SomeRequests == Routed(
    {GetTile(<<t, f, t>>, "n" :> <<<<"7">>>> @@ "limit" :> <<<<"abc">>>>),
     GetTile(<<f, t, nothing>>, "n" :> <<<<"7">>>> @@ "LIMIT" :> <<<<"7">>>> @@ "limit" :> <<<<"0">>>>),
     GetTile(<<t>>, "filter" :> <<<<"bad">>>>),
     GetTile(<<t>>, "filter" :> <<<<"torn">>>>),
     GetTile(<<t, f>>, "n" :> <<<<"7">>>> @@ "filter" :> <<<<"good">>>>
                          @@ "properties" :> <<<<"name", "%zz", "geom">>>>),
     GetTile(<<t>>, "properties" :> <<<<" gid">>>> @@ "filter-crs" :> <<<<"7">>>>),
     GetTile(<<t>>, "properties" :> <<<<"unknown">>>> @@ "resolution" :> <<<<"0">>>>),
     GetTile(<<g, f>>, "s" :> <<<<"good">>>>),
     GetTile(<<g>>, "Width" :> <<<<"-5">>>>),
     [GetTile(<<t>>, <<>>) EXCEPT !.valid = FALSE],
     GetTile(<<k>>, <<>>),
     GetTile(<<u>>, <<>>),
     GetDetail(f, Forwarded), GetDetail(t, XForwarded), GetDetail(u, Directly),
     GetDetail(g, Directly), GetDetail(nothing, Directly),
     Get(<<"index", ".", "json">>, Forwarded, <<>>)})

(* For the catalogue of CommaFunctions.                                    *)
OneDetail == Routed({GetDetail(f, Directly)})

(* The links of these requests are links that are to lead back.            *)
ASSUME LinksAreMeantToLead == ShowPreview /\ BaseIsServed /\ ProxiesAreHonest

(* The defaults of SomeFunctions survive their way into a detail, the one  *)
(* of CommaFunctions does not.                                             *)
ASSUME DefaultsMayBeSimple == DefaultsAreSimple <=> Functions = SomeFunctions
=============================================================================
