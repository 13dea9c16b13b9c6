---------------------------- MODULE TileRequest -----------------------------
(***************************************************************************)
(* Tile and detail requests from the router to the answer: the layers of a *)
(* request in turn, each looked up, made into a statement (TableQuery,     *)
(* FunctionQuery) and sent; the parts that come back joined into one tile; *)
(* the answer counted by tileMetrics.  Handlers run at the same time and   *)
(* share the template cache and the counters.  The registry is what one    *)
(* load made of the catalogue; LayerRegistry lets it change.               *)
(***************************************************************************)
EXTENDS Integers, Sequences, FiniteSets

CONSTANTS
    Handlers, NoHandler,
    Tables, Functions,  \* the catalogue, see TableQuery and FunctionQuery
    Requests,           \* see below
    MaxRequests,        \* requests taken up, all in all
    Fold, Words, Numeral, Unescape, Transpiled,
    MaxFeaturesPerTile, DefaultResolution, DefaultBuffer, PostGISVersion,
    UrlBase, NoUrlBase, BasePath, HealthEndpoint, ShowPreview, EnableMetrics, Digits, Escapes

(* A request is what the router makes of a URL, Route(path) for its path,  *)
(* with its query, whether its tile is one (see TileGrid), the host,       *)
(* connection and headers it comes with, and the scheme and host its       *)
(* client asked, which a proxy may have replaced.                          *)
Table == INSTANCE TableQuery
Function == INSTANCE FunctionQuery
Url == INSTANCE Routes

ASSUME HandlersAssumption == NoHandler \notin Handlers /\ MaxRequests \in Nat
ASSUME RequestsAssumption ==
    \A r \in Requests :
        /\ r.kind \in {"tile", "detail", "list"}
        /\ r.names \in Seq(Seq(STRING))
        /\ r.kind = "tile" => r.names # <<>>
        /\ r.kind = "tile" => \A k \in DOMAIN r.query : r.query[k][1] \in Seq(STRING)
ASSUME TablesAssumption ==
    \A t \in Tables :
        /\ t.columns \in Seq(Table!ToSet(t.columns))
        /\ \A i, j \in DOMAIN t.columns : t.columns[i].name = t.columns[j].name => i = j
ASSUME FunctionsAssumption ==
    \A f \in Functions :
        /\ f.params \in Seq(Function!ToSet(f.params))
        /\ \A i \in 4..Len(f.params) :
              Function!IsTileFunction(f) /\ ~f.params[i].out => f.params[i].name \notin {"x", "y", "z"}

(* Words have no signs in them; x, y and z are in lower case.              *)
ASSUME WordsAssumption == Words \cap {Function!Quote, Function!Cast, Function!Between} = {}
ASSUME FoldAssumption == \A n \in {"x", "y", "z"} : Fold[n] = n

(* Layers are schemas and names, with a "." between them.                  *)
ASSUME CatalogueAssumption ==
    /\ IsFiniteSet(Tables) /\ IsFiniteSet(Functions)
    /\ \A l \in Tables \cup Functions : l.id \in Seq(STRING) \ {<<>>, <<"index">>}

(* No two pieces are escaped alike, and none as what the server writes into*)
(* a link itself; what looks like an escape or a place is escaped.  A base *)
(* path needs no escapes, and has no two slashes in a row, which a link    *)
(* would keep and the router not.                                          *)
Slots == {Url!Slot[f] : f \in DOMAIN Url!Slot}
Escaped == {Escapes[p] : p \in DOMAIN Escapes}
ASSUME DigitsAssumption == {"1", "2", "3"} \subseteq Digits
ASSUME EscapesAssumption ==
    /\ Escapes \in [DOMAIN Escapes -> STRING] /\ "?" \in DOMAIN Escapes
    /\ \A p, q \in DOMAIN Escapes : Escapes[p] = Escapes[q] => p = q
    /\ Escaped \cap (Slots \cup Digits \cup {"/", "?", ".", "json", "pbf"}) = {}
    /\ \A l \in Tables \cup Functions : \A i \in DOMAIN l.id :
          l.id[i] \in Escaped \cup Slots => l.id[i] \in DOMAIN Escapes
SingleSlashes(path) == \A i \in 2..Len(path) : path[i] = "/" => path[i - 1] # "/"
ASSUME UrlBaseAssumption ==
    \/ UrlBase = NoUrlBase
    \/ /\ UrlBase \in [scheme : STRING, host : STRING, path : Seq(STRING)]
       /\ SingleSlashes(UrlBase.path)
ASSUME BasePathAssumption ==
    /\ BasePath \in Seq(STRING) /\ SingleSlashes(BasePath)
    /\ \A i \in DOMAIN BasePath : BasePath[i] \notin Escaped \cup Slots \cup {"?"}

VARIABLES
    server,     \* "starting", "serving" or "down"
    globalLayers,
    globalTemplates,       \* the names of the templates in the cache
    globalTemplatesMutex,  \* the handler that holds it
    left,       \* requests still to come
    pc, req,    \* where each handler is, and with which request
    at,         \* the place of the layer it is at among those of the request
    extant,     \* the layers it has
    layers,     \* and their parts of the tile
    sql,        \* the statement it is about to send
    reply,      \* its last answer; code 0 when the connection is lost
    tilesProcessed, tilesDuration   \* the metrics, by layer and code and by layer

handling == <<at, extant, layers, sql>>
metrics == <<tilesProcessed, tilesDuration>>
cache == <<globalTemplates, globalTemplatesMutex>>
vars == <<server, globalLayers, cache, left, pc, req, handling, reply, metrics>>

TableIds == {t.id : t \in Tables}
FunctionIds == {f.id : f \in {g \in Functions : Function!IsTileFunction(g)}}
TableOf(id) == CHOOSE t \in Tables : t.id = id
(* The functions of one name are taken to be one function: of overloads    *)
(* with the tile's signature the code keeps the row it reads last.         *)
FunctionOf(id) == CHOOSE f \in Functions : f.id = id /\ Function!IsTileFunction(f)

Labels == {r.names : r \in Requests}
Codes == {200, 400, 404, 500}
Reply(code, body) == [code |-> code, body |-> body]
NoReply == Reply(0, <<>>)
NoRequest == [kind |-> "none", names |-> <<>>]

Init ==
    /\ server = "starting"
    /\ globalLayers = <<>>
    /\ globalTemplates = {} /\ globalTemplatesMutex = NoHandler
    /\ left = MaxRequests
    /\ pc = [h \in Handlers |-> "idle"]
    /\ req = [h \in Handlers |-> NoRequest]
    /\ at = [h \in Handlers |-> 1]
    /\ extant = [h \in Handlers |-> <<>>] /\ layers = [h \in Handlers |-> <<>>]
    /\ sql = [h \in Handlers |-> Table!NoSQL]
    /\ reply = [h \in Handlers |-> NoReply]
    /\ tilesProcessed = [k \in Labels \X Codes |-> 0]
    /\ tilesDuration = [l \in Labels |-> 0]

-----------------------------------------------------------------------------
(* main: tables, then functions; a row that cannot be read ends it.        *)
Load ==
    LET broken(f) == Function!RowFatal(f) \/ Function!RowPanics(f)
    IN  /\ server = "starting"
        /\ IF \E f \in Functions : Function!IsTileFunction(f) /\ broken(f)
           THEN server' = "down" /\ UNCHANGED globalLayers
           ELSE /\ server' = "serving"
                /\ globalLayers' = [id \in TableIds \cup FunctionIds |->
                        IF id \in FunctionIds THEN Function!getFunctionLayer(FunctionOf(id))
                        ELSE Table!getTableLayer(TableOf(id))]
        /\ UNCHANGED <<cache, left, pc, req, handling, reply, metrics>>

Arrive(h) ==
    /\ server = "serving" /\ pc[h] = "idle" /\ left > 0
    /\ left' = left - 1
    /\ \E r \in Requests :
          /\ req' = [req EXCEPT ![h] = r]
          /\ pc' = [pc EXCEPT ![h] = IF r.kind = "tile" THEN "layer" ELSE r.kind]
    /\ reply' = [reply EXCEPT ![h] = NoReply]
    /\ UNCHANGED <<server, globalLayers, cache, handling, metrics>>

(* A handler at one of its places while the process is up.                 *)
In(h, place) == server = "serving" /\ pc[h] = place
Goto(h, place) == pc' = [pc EXCEPT ![h] = place]

(* The locals of a handler end with it.                                    *)
Return(h) ==
    /\ at' = [at EXCEPT ![h] = 1]
    /\ extant' = [extant EXCEPT ![h] = <<>>] /\ layers' = [layers EXCEPT ![h] = <<>>]
    /\ sql' = [sql EXCEPT ![h] = Table!NoSQL]

(* The answer of a tile request, on its way past tileMetrics.              *)
Answer(h, r) ==
    /\ reply' = [reply EXCEPT ![h] = r]
    /\ Goto(h, "count")
    /\ Return(h)
    /\ UNCHANGED <<server, globalLayers, cache, left, req, metrics>>

(* A panic: the connection is closed, nothing is counted.                  *)
Lost(h) ==
    /\ Goto(h, "idle")
    /\ Return(h)
    /\ UNCHANGED <<server, globalLayers, cache, left, req, reply, metrics>>

-----------------------------------------------------------------------------
(* requestListJSON and requestDetailJSON: the layers are loaded again,     *)
(* from the same catalogue and with the same result; a failure to do so,   *)
(* or to read the extent of a table, is the answer.                        *)
Inform(h, place, r) ==
    /\ In(h, place)
    /\ reply' = [reply EXCEPT ![h] = r]
    /\ Goto(h, "idle")
    /\ UNCHANGED <<server, globalLayers, cache, left, req, handling, metrics>>

List(h) ==
    LET entry(id) == [layer |-> id, kind |-> globalLayers[id].kind, url |-> Url!DetailURL(req[h], id)]
    IN  Inform(h, "list", Reply(200, Table!SetToSeq({entry(id) : id \in DOMAIN globalLayers})))

Detail(h) ==
    LET id == req[h].names[1]
        lyr == globalLayers[id]
        listing == IF lyr.kind = "function" THEN Function!getFunctionDetailJSON(lyr)
                   ELSE Table!getTableDetailJSON(lyr)
    IN  Inform(h, "detail",
            IF id \in DOMAIN globalLayers
            THEN Reply(200, <<[layer |-> id, url |-> Url!TileURL(req[h], id), of |-> listing]>>)
            ELSE Reply(404, <<>>))

ReadFails(h) == \E place \in {"list", "detail"} : Inform(h, place, Reply(500, <<>>))

(* requestTiles and requestTile.                                           *)
More(h) == In(h, "layer") /\ at[h] <= Len(req[h].names)
Source(h) == req[h].names[at[h]]

(* Mutant: only the layer before is not asked for again.                   *)
Has_Neighbour(h, id) == extant[h] # <<>> /\ extant[h][Len(extant[h])] = id

Has(h, id) == \E i \in 1..Len(extant[h]) : extant[h][i] = id

SkipDuplicate(h) ==
    /\ More(h) /\ Has(h, Source(h))
    /\ at' = [at EXCEPT ![h] = @ + 1]
    /\ UNCHANGED <<server, globalLayers, cache, left, pc, req, extant, layers, sql, reply, metrics>>

Wanted(h) == More(h) /\ ~Has(h, Source(h))

FindNothing(h) ==
    /\ Wanted(h) /\ Source(h) \notin DOMAIN globalLayers
    /\ Answer(h, Reply(404, <<>>))

InvalidTile(h) ==
    /\ Wanted(h) /\ Source(h) \in DOMAIN globalLayers /\ ~req[h].valid
    /\ Answer(h, Reply(400, <<>>))

Found(h, kind) ==
    /\ Wanted(h) /\ Source(h) \in DOMAIN globalLayers /\ req[h].valid
    /\ globalLayers[Source(h)].kind = kind

(* GetTileRequest of a function.                                           *)
CallFunction(h) ==
    /\ Found(h, "function")
    /\ LET lyr == globalLayers[Source(h)]
           args == Function!getFunctionArgs(lyr, req[h].query)
       IN  \E order \in Function!SetToSeqs(DOMAIN args) :
              sql' = [sql EXCEPT ![h] = Function!requestSQL(lyr, req[h].tile, args, order)]
    /\ Goto(h, "ask")
    /\ UNCHANGED <<server, globalLayers, cache, left, req, at, extant, layers, reply, metrics>>

(* GetTileRequest of a table: its filter comes first, and may panic; with  *)
(* an error no statement is made, and the error is dropped.                *)
FilterPanics(h) ==
    /\ Found(h, "table")
    /\ \E qp \in Table!getQueryParameters(globalLayers[Source(h)], req[h].query) :
          Table!filterSQL(qp) = "panic"
    /\ Lost(h)

SelectTable(h) ==
    /\ Found(h, "table")
    /\ \E qp \in Table!getQueryParameters(globalLayers[Source(h)], req[h].query) :
          /\ Table!filterSQL(qp) # "panic"
          /\ sql' = [sql EXCEPT ![h] = Table!requestSQL(globalLayers[Source(h)], qp)]
    /\ Goto(h, IF sql'[h] = Table!NoSQL THEN "ask" ELSE "template")
    /\ UNCHANGED <<server, globalLayers, cache, left, req, at, extant, layers, reply, metrics>>

-----------------------------------------------------------------------------
(* getSQLTemplate: the cache is read without the mutex its writers take.   *)
(* Mutant: the template is parsed and stored every time.                   *)
ReadTemplate_Miss(h) ==
    /\ In(h, "template")
    /\ Goto(h, "lock")
    /\ UNCHANGED <<server, globalLayers, cache, left, req, handling, reply, metrics>>

ReadTemplate(h) ==
    /\ In(h, "template")
    /\ Goto(h, IF "tabletilesql" \in globalTemplates THEN "ask" ELSE "lock")
    /\ UNCHANGED <<server, globalLayers, cache, left, req, handling, reply, metrics>>

(* The runtime ends the process when a read meets the flag of a write.     *)
MapRace(h) ==
    /\ In(h, "template")
    /\ \E w \in Handlers : pc[w] = "store"
    /\ server' = "down"
    /\ UNCHANGED <<globalLayers, cache, left, pc, req, handling, reply, metrics>>

LockTemplates(h) ==
    /\ In(h, "lock") /\ globalTemplatesMutex = NoHandler
    /\ globalTemplatesMutex' = h
    /\ Goto(h, "store")
    /\ UNCHANGED <<server, globalLayers, globalTemplates, left, req, handling, reply, metrics>>

StoreTemplate(h) ==
    /\ In(h, "store")
    /\ globalTemplates' = globalTemplates \cup {"tabletilesql"}
    /\ Goto(h, "unlock")
    /\ UNCHANGED <<server, globalLayers, globalTemplatesMutex, left, req, handling, reply, metrics>>

(* Mutant: the mutex is not released.                                      *)
UnlockTemplates_Forgotten(h) ==
    /\ In(h, "unlock")
    /\ Goto(h, "ask")
    /\ UNCHANGED <<server, globalLayers, cache, left, req, handling, reply, metrics>>

UnlockTemplates(h) ==
    /\ In(h, "unlock")
    /\ globalTemplatesMutex' = NoHandler
    /\ Goto(h, "ask")
    /\ UNCHANGED <<server, globalLayers, globalTemplates, left, req, handling, reply, metrics>>

-----------------------------------------------------------------------------
(* dBTileRequest: the database refuses a statement, fails (a timeout       *)
(* included), or answers it.                                               *)
Refused(id, stmt) ==
    IF id \in FunctionIds THEN Function!Refused(FunctionOf(id), stmt)
    ELSE Table!Refused(TableOf(id), stmt)

Part(id, stmt) ==
    [layer |-> id,
     of |-> IF id \in FunctionIds THEN Function!Bound(FunctionOf(id), stmt) ELSE stmt]

AskFails(h) == In(h, "ask") /\ Answer(h, Reply(500, <<>>))

(* Mutant: a layer that has been answered is not noted.                    *)
Ask_NotNoted(h) ==
    /\ In(h, "ask") /\ ~Refused(Source(h), sql[h])
    /\ layers' = [layers EXCEPT ![h] = Append(@, Part(Source(h), sql[h]))]
    /\ at' = [at EXCEPT ![h] = @ + 1]
    /\ Goto(h, "layer")
    /\ UNCHANGED <<server, globalLayers, cache, left, req, extant, sql, reply, metrics>>

Ask(h) ==
    /\ In(h, "ask") /\ ~Refused(Source(h), sql[h])
    /\ layers' = [layers EXCEPT ![h] = Append(@, Part(Source(h), sql[h]))]
    /\ extant' = [extant EXCEPT ![h] = Append(@, Source(h))]
    /\ at' = [at EXCEPT ![h] = @ + 1]
    /\ Goto(h, "layer")
    /\ UNCHANGED <<server, globalLayers, cache, left, req, sql, reply, metrics>>

(* The write of the tile fails when the client has gone.                   *)
Respond(h) ==
    /\ In(h, "layer") /\ at[h] > Len(req[h].names)
    /\ Answer(h, Reply(200, layers[h]))

RespondFails(h) ==
    /\ In(h, "layer") /\ at[h] > Len(req[h].names)
    /\ Answer(h, Reply(500, <<>>))

(* tileMetrics, after the handler: bad requests are not tracked, and       *)
(* without EnableMetrics it is blank.                                      *)
Ignore(h) ==
    /\ In(h, "count") /\ (reply[h].code \in 400..499 \/ ~EnableMetrics)
    /\ Goto(h, "idle")
    /\ UNCHANGED <<server, globalLayers, cache, left, req, handling, reply, metrics>>

(* Mutant: every answer is tracked.                                        *)
Track_All(h) ==
    /\ In(h, "count") /\ EnableMetrics
    /\ tilesProcessed' = [tilesProcessed EXCEPT ![<<req[h].names, reply[h].code>>] = @ + 1]
    /\ tilesDuration' = [tilesDuration EXCEPT ![req[h].names] = @ + 1]
    /\ Goto(h, "idle")
    /\ UNCHANGED <<server, globalLayers, cache, left, req, handling, reply>>

Track(h) ==
    /\ In(h, "count") /\ reply[h].code \notin 400..499 /\ EnableMetrics
    /\ tilesProcessed' = [tilesProcessed EXCEPT ![<<req[h].names, reply[h].code>>] = @ + 1]
    /\ tilesDuration' = [tilesDuration EXCEPT ![req[h].names] = @ + 1]
    /\ Goto(h, "idle")
    /\ UNCHANGED <<server, globalLayers, cache, left, req, handling, reply>>

LayerStep(h) ==
    \/ SkipDuplicate(h) \/ FindNothing(h) \/ InvalidTile(h)
    \/ CallFunction(h) \/ FilterPanics(h) \/ SelectTable(h)
    \/ Respond(h) \/ RespondFails(h)
TemplateStep(h) ==
    ReadTemplate(h) \/ MapRace(h) \/ LockTemplates(h) \/ StoreTemplate(h) \/ UnlockTemplates(h)
LastStep(h) == Ask(h) \/ AskFails(h) \/ Ignore(h) \/ Track(h) \/ List(h) \/ Detail(h) \/ ReadFails(h)

Next ==
    \/ Load
    \/ \E h \in Handlers : Arrive(h) \/ LayerStep(h) \/ TemplateStep(h) \/ LastStep(h)

Spec == Init /\ [][Next]_vars

(* A goroutine that can go on does; a mutex that is free again and again   *)
(* is handed to each that waits (Go's mutex does not starve); the database *)
(* answers or its timeout does.                                            *)
FairSpec ==
    /\ Spec
    /\ \A h \in Handlers : /\ WF_vars(LayerStep(h) \/ TemplateStep(h) \/ LastStep(h))
                           /\ SF_vars(LockTemplates(h))

-----------------------------------------------------------------------------
Places == {"idle", "layer", "template", "lock", "store", "unlock", "ask", "count", "list", "detail"}

TypeOK ==
    /\ server \in {"starting", "serving", "down"}
    /\ DOMAIN globalLayers \in {{}, TableIds \cup FunctionIds}
    /\ globalTemplates \subseteq {"tabletilesql"}
    /\ globalTemplatesMutex \in Handlers \cup {NoHandler}
    /\ left \in 0..MaxRequests
    /\ pc \in [Handlers -> Places]
    /\ req \in [Handlers -> Requests \cup {NoRequest}]
    /\ \A h \in Handlers : /\ at[h] \in 1..(Len(req[h].names) + 1)
                           /\ Len(extant[h]) = Len(layers[h]) /\ Len(extant[h]) < at[h]
                           /\ reply[h].code \in Codes \cup {0}
    /\ tilesProcessed \in [Labels \X Codes -> 0..MaxRequests]
    /\ tilesDuration \in [Labels -> 0..MaxRequests]

Served(h, kind) == req[h].kind = kind /\ reply[h].code = 200

(* Parts of a tile, one for each name, in the order of first mention.      *)
InFull(names, parts) ==
    /\ {parts[i].layer : i \in DOMAIN parts} = {names[i] : i \in DOMAIN names}
    /\ \A i, j \in DOMAIN parts : i < j =>
          \E m \in DOMAIN names : names[m] = parts[i].layer /\ \A n \in 1..m : names[n] # parts[j].layer

(* A tile that is answered holds every layer of its request once, in the   *)
(* order of their first mention, whatever the duplicates and whatever else *)
(* went on (requestTiles).                                                 *)
TilesAreWhole ==
    \A h \in Handlers : Served(h, "tile") => InFull(req[h].names, reply[h].body)

(* The part of a function is bound to what the tile and the query say.     *)
Binds(r, part) ==
    LET names == {p.name : p \in Function!ToSet(FunctionOf(part.layer).params)}
    IN  part.layer \in FunctionIds /\ (\A n \in names \cap DOMAIN r.query : Fold[n] = n) =>
        \A n \in DOMAIN part.of : part.of[n] =
            IF n \in {"x", "y", "z"} THEN <<"value", r.tile[n]>>
            ELSE IF n \in DOMAIN r.query THEN <<"value", r.query[n][1]>>
            ELSE <<"default">>

(* In a call the database accepts, x, y and z are the tile's and every     *)
(* other argument is the value the query gave it or else its default,      *)
(* whatever order the map is walked in (LayerFunction.requestSQL).  The    *)
(* names are not quoted, so this is said of requests that give no argument *)
(* whose name needs quotes.                                                *)
CallsBindTheirArguments ==
    \A h \in Handlers : Served(h, "tile") =>
        \A i \in DOMAIN reply[h].body : Binds(req[h], reply[h].body[i])

(* A statement only fails for what the request says: a filter that is an   *)
(* error (or an extent of 0) of a table; of a function an argument without *)
(* default that is left out, or one that is given though its name needs    *)
(* quotes.  This last is no fault of the request: the code writes the      *)
(* names without quotes (LayerFunction.requestSQL), so such an argument    *)
(* cannot be given at all.  A request that leaves it to its default is     *)
(* answered.  And the feature id is always among the columns, whatever     *)
(* properties are asked for (getQueryPropertiesParameter).                 *)
RefusedForTheRequest ==
    \A h \in Handlers : pc[h] = "ask" /\ Refused(Source(h), sql[h]) =>
        LET given == req[h].query
            id == Source(h)
        IN  IF id \in FunctionIds
            THEN \E p \in Function!Inputs(FunctionOf(id)) :
                    \/ p.default = <<>> /\ p.name \notin DOMAIN given \cup {"x", "y", "z"}
                    \/ p.name \in DOMAIN given /\ Fold[p.name] # p.name
            ELSE \/ "filter" \in DOMAIN given /\ Transpiled[given["filter"][1]] = "error"
                 \/ \E k \in Table!Spelled(given, "resolution") :
                        given[k][1] \in DOMAIN Numeral /\ Numeral[given[k][1]] = 0

(* The detail of a function lists the arguments it was declared with, in   *)
(* that order, with their types and default values, and the detail of a    *)
(* table the columns that are no geometries (getFunctionLayers,            *)
(* parseArgDefault, getFunctionDetailJSON, getTableDetailJSON).            *)
ListedAsDeclared ==
    \A h \in Handlers : Served(h, "detail") =>
        LET id == req[h].names[1]
            declared(p) == [name |-> p.name, type |-> p.type, default |-> p.value]
            column(c) == [name |-> c.name, type |-> c.type]
        IN  reply[h].body[1].of =
                IF id \in FunctionIds
                THEN [i \in 1..(Len(FunctionOf(id).params) - 3) |->
                         declared(FunctionOf(id).params[i + 3])]
                ELSE LET columns == TableOf(id).columns
                         shown == Table!Only(columns, {c \in Table!ToSet(columns) : ~Table!IsGeometry(c)})
                     IN  [i \in DOMAIN shown |-> column(shown[i])]

(* They are when names differ, parameters with a default come last         *)
(* (PostgreSQL asks for both), and a default is printed as the value       *)
(* itself or as the value in quotes with a cast to a type of one word, and *)
(* has no quote and no ", " in it, and no "::" outside quotes.             *)
IsPlain(value) == value \in Seq(STRING \ {Function!Quote, Function!Between})
PrintedAsItIs(p) ==
    p.default = p.value /\ IsPlain(p.value) /\ \A i \in DOMAIN p.value : p.value[i] # Function!Cast
PrintedInQuotes(p) ==
    LET type == p.default[Len(p.default)]
    IN  /\ p.default # <<>> /\ IsPlain(p.value) /\ IsPlain(<<type>>) /\ type # Function!Cast
        /\ p.default = <<Function!Quote>> \o p.value \o <<Function!Quote, Function!Cast, type>>
HasSimpleDefaults(f) ==
    /\ \A i \in DOMAIN f.params : PrintedAsItIs(f.params[i]) \/ PrintedInQuotes(f.params[i])
    /\ \A i, j \in DOMAIN f.params : i < j =>
          /\ f.params[i].name # f.params[j].name
          /\ f.params[i].default # <<>> => f.params[j].default # <<>>
DefaultsAreSimple == \A f \in Functions : Function!IsTileFunction(f) => HasSimpleDefaults(f)

(* A link of a list or a detail leads the client back to the host and      *)
(* scheme it asked, through any proxy that says what these were, and to    *)
(* the layer it stands at, below any base path (serverURLHost,             *)
(* formatBaseURL, tileRouter).  An id with a "/" is two segments to the    *)
(* router, and one with a "," two layers to a tile request.                *)
LinksLeadBack ==
    \A h \in Handlers : \A kind \in {"list", "detail"} : Served(h, kind) =>
        \A i \in DOMAIN reply[h].body :
            LET id == reply[h].body[i].layer
                link == reply[h].body[i].url
                path == Url!Received(Url!Fill(link.path, [z |-> "3", x |-> "1", y |-> "2"]))
                target == Url!Route(path)
            IN  /\ UrlBase = NoUrlBase => [scheme |-> link.scheme, host |-> link.host] = req[h].asked
                /\ \/ Table!Contains(id, "/")
                   \/ kind = "detail" /\ Table!Contains(id, ",")
                   \/ /\ target.names = <<id>>
                      /\ target.kind = IF kind = "list" THEN "detail" ELSE "tile"

(* When they do: a proxy that changes what its client asked says what that *)
(* was, host and scheme together in a Forwarded header, or each it changes *)
(* in one of its own; and a path in UrlBase, which the router knows nothing*)
(* of, gives way to a base path that starts with "/".                      *)
ProxiesAreHonest ==
    \A r \in Requests : r.kind \in {"list", "detail"} =>
        LET said == DOMAIN r.header
        IN  /\ r.asked = [scheme |-> r.asked.scheme, host |-> r.asked.host]
            /\ \A header \in said \cap {"Forwarded: host", "X-Forwarded-Host"} :
                  r.header[header] = r.asked.host
            /\ \A header \in said \cap {"Forwarded: proto", "X-Forwarded-Proto"} :
                  r.header[header] = r.asked.scheme
            /\ \/ {"Forwarded: host", "Forwarded: proto"} \subseteq said
               \/ /\ "X-Forwarded-Host" \in said \/ r.host = r.asked.host
                  /\ "X-Forwarded-Proto" \in said \/ r.asked.scheme = IF r.tls THEN "https" ELSE "http"
BaseIsServed == UrlBase = NoUrlBase \/ (BasePath # <<>> /\ BasePath[1] = "/")

(* What is counted was asked of a layer that exists: its first at least,   *)
(* all of them when a tile was answered.  (tileMetrics; a request of       *)
(* several layers whose first fails is counted under all its names.)       *)
MetricsTrackValidLayers ==
    \A names \in Labels, code \in Codes : tilesProcessed[<<names, code>>] > 0 =>
        /\ names[1] \in DOMAIN globalLayers
        /\ code = 200 => \A i \in DOMAIN names : names[i] \in DOMAIN globalLayers

(* The unlocked read of the cache is a danger at the start only: once the  *)
(* template is cached and nobody is on the way to store it again, nobody   *)
(* ever is, and no read can meet a write (getSQLTemplate).                 *)
WindowClosed ==
    /\ globalTemplates # {}
    /\ \A h \in Handlers : pc[h] \notin {"lock", "store"}
RaceWindowCloses == [][WindowClosed => WindowClosed']_vars

(* Every request that is taken up is answered, lost to a panic, or ends    *)
(* with the process: no handler waits for the mutex for ever.              *)
TilesFinish == \A h \in Handlers : pc[h] # "idle" ~> pc[h] = "idle" \/ server = "down"
=============================================================================
