------------------------------- MODULE Routes -------------------------------
(***************************************************************************)
(* Where a URL leads, and the URLs the server tells its clients.  A path   *)
(* and an id are texts.  A request is seen with the host it was sent to,   *)
(* with TLS or without, and with the headers a proxy has added.            *)
(***************************************************************************)
EXTENDS Texts

CONSTANTS UrlBase,   \* the configured [scheme, host, path], or NoUrlBase
          NoUrlBase,
          BasePath, HealthEndpoint,  \* texts
          ShowPreview, EnableMetrics,
          Digits,    \* the pieces that are numbers
          Escapes    \* what url.PathEscape makes of a piece it does not leave alone

-----------------------------------------------------------------------------
(* Mutant: what a proxy says of its client is not looked at.               *)
FromProxy_Ignored(r, header, own) == own

FromProxy(r, header, own) == IF header \in DOMAIN r.header THEN r.header[header] ELSE own

(* The configured base; or what a Forwarded header says that names both    *)
(* host and proto; or the X-Forwarded headers, each in place of what the   *)
(* connection says.                                                        *)
serverURLHost(r) ==
    LET forwarded == {"Forwarded: host", "Forwarded: proto"} \subseteq DOMAIN r.header
    IN  IF UrlBase # NoUrlBase THEN UrlBase
        ELSE [scheme |-> FromProxy(r, IF forwarded THEN "Forwarded: proto" ELSE "X-Forwarded-Proto",
                                   IF r.tls THEN "https" ELSE "http"),
              host |-> FromProxy(r, IF forwarded THEN "Forwarded: host" ELSE "X-Forwarded-Host", r.host),
              path |-> <<>>]

Segments(text) == LET all == Split(text, "/") IN Only(all, ToSet(all) \ {<<>>})

(* ResolveReference: a base path that starts with "/" replaces the host's, *)
(* another takes the place of its last segment.  No "/" at the end.        *)
formatBaseURL(base, path) ==
    LET upto == SubSeq(base, 1, Max({0} \cup {i \in DOMAIN base : base[i] = "/"}))
        from == IF path = <<>> THEN base ELSE IF path[1] = "/" THEN path ELSE upto \o path
    IN  Join(<<<<>>>> \o Segments(from), "/")

serverURLBase(r) ==
    LET host == serverURLHost(r) IN [host EXCEPT !.path = formatBaseURL(@, BasePath)]

(* Mutant: the id goes into the URL as it is.                              *)
PathEscape_Forgotten(text) == text

PathEscape(text) ==
    [i \in DOMAIN text |-> IF text[i] \in DOMAIN Escapes THEN Escapes[text[i]] ELSE text[i]]

(* The places a client fills in.                                           *)
Slot == [z |-> "{z}", x |-> "{x}", y |-> "{y}"]

DetailURL(r, id) ==
    [serverURLBase(r) EXCEPT !.path = @ \o <<"/">> \o PathEscape(id) \o <<".", "json">>]
TileURL(r, id) ==
    [serverURLBase(r) EXCEPT !.path = @ \o <<"/">> \o PathEscape(id)
        \o <<"/", Slot.z, "/", Slot.x, "/", Slot.y, ".", "pbf">>]

-----------------------------------------------------------------------------
(* Between a client and the router: a place is filled in, the path ends at *)
(* a "?", and what is left is decoded.                                     *)
Fill(path, tile) ==
    [i \in DOMAIN path |->
        IF \E f \in DOMAIN Slot : Slot[f] = path[i]
        THEN tile[CHOOSE f \in DOMAIN Slot : Slot[f] = path[i]] ELSE path[i]]
Received(path) ==
    LET text == Split(path, "?")[1]
        Decode(p) == IF \E q \in DOMAIN Escapes : Escapes[q] = p
                     THEN CHOOSE q \in DOMAIN Escapes : Escapes[q] = p ELSE p
    IN  [i \in DOMAIN text |-> Decode(text[i])]

(* tileRouter: the first route that matches the path below BasePath; {name}*)
(* is one segment.  requestTiles splits it at the commas.                  *)
Suffixed(segment, ext) == Len(segment) > 2 /\ SubSeq(segment, Len(segment) - 1, Len(segment)) = <<".", ext>>
Stem(segment) == SubSeq(segment, 1, Len(segment) - 2)

Open(rest) ==
    LET Page(ext) == Len(rest) = 1 /\ Suffixed(rest[1], ext)
        To(kind, on) == [kind |-> kind, on |-> on]
    IN  <<To("index", ShowPreview /\ rest \in {<<>>, <<<<>>>>, <<<<"index", ".", "html">>>>}),
          To("list", ShowPreview /\ rest = <<<<"index", ".", "json">>>>),
          To("preview", ShowPreview /\ Page("html")),
          To("detail", ShowPreview /\ Page("json")),
          To("tile", /\ Len(rest) = 4 /\ rest[1] # <<>>
                     /\ \A i \in {2, 3} : Len(rest[i]) = 1 /\ rest[i][1] \in Digits
                     /\ Len(rest[4]) > 2 /\ rest[4][1] \in Digits /\ rest[4][2] = "."),
          To("metrics", EnableMetrics /\ rest = <<<<"metrics">>>>),
          To("health", rest = Segments(HealthEndpoint))>>

Take(routes, rest) ==
    LET open == {i \in DOMAIN routes : routes[i].on}
        kind == IF open = {} THEN "none" ELSE routes[Min(open)].kind
    IN  [kind |-> kind,
         names |-> IF kind = "tile" THEN Split(rest[1], ",")
                   ELSE IF kind \in {"preview", "detail"} THEN <<Stem(rest[1])>> ELSE <<>>,
         tile |-> IF kind = "tile" THEN [z |-> rest[2][1], x |-> rest[3][1], y |-> rest[4][1]]
                  ELSE <<>>]

Below(base, all) ==
    LET rest == SubSeq(all, Len(base) + 1, Len(all))
    IN  Take(IF IsPrefix(base, all) THEN Open(rest) ELSE <<>>, rest)
Route(path) == Below(<<<<>>>> \o Segments(BasePath), Split(path, "/"))
=============================================================================
