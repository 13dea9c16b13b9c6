# pg_tileserv in TLA+

pg_tileserv is a small Go HTTP server that answers requests for map tiles from
a PostGIS database. This directory holds TLA+ models of it, TLC runs that check
them on small instances, and TLAPS proofs of what matters most for every
instance. Paths of the form `layer.go:54` are paths in the repository.

## 1. The system

| component | state it keeps | operations | interacts with |
|---|---|---|---|
| layer registry (`layer.go`) | `globalLayers`, `globalLayersMutex` | `loadLayers`, `getLayer`, `getJSONLayers` | every handler (shared memory), the catalogue of the database |
| handlers (`main.go`) | a goroutine per request | list, detail, preview, tile, health | registry, layers, pool, templates |
| HTTP/HTTPS servers (`main.go`, `handleRequests`) | listeners, deadlines, the interrupt | serve, shut down | handlers, pool |
| database pool (`db.go`) | `globalDb` (pgxpool), `globalVersions` | `dbConnect`, `dBTileRequest`, `loadVersions` | registry, layers, shutdown |
| table layers (`layer_table.go`) | read from the catalogue, kept in the registry | parameters, `requestSQL`, bounds, detail | registry, grid, CQL, templates |
| function layers (`layer_proc.go`) | read from the catalogue, kept in the registry | arguments, `requestSQL`, detail | registry |
| tile grid and bounds (`tile.go`, `bounds.go`, `util.go`) | `globalServerBounds` | `getServerBounds`, `makeTile`, `Expand`, `sanitize` | table and function layers |
| SQL template cache (`util.go`) | `globalTemplates`, its mutex | `getSQLTemplate` | table layers |
| metrics (`util.go`) | Prometheus counters | `tileMetrics` | tile handler |
| routing and URLs (`main.go`, `util.go`) | none | `tileRouter`, `serverURLHost`, `formatBaseURL` | handlers |
| CQL filters (`cql/cql.go`) | none between calls | `TranspileToSQL` | table layers, parser |
| CQL parser (`cql/cql_parser.go`, `cql_lexer.go`) | the tree and the errors of one call | a function per rule | CQL filters |
| configuration (`main.go`) | viper settings | `init`, `main` | everything |

How a request runs: the router picks a handler by path. *List*, *detail* and
*preview* requests first reload the whole registry from the catalogue
(`loadLayers`), then answer from it. A *tile* request looks up each layer named
in its path in the registry, checks the tile address, renders one SQL statement
per layer and runs it under `DbTimeout`. Handlers run in goroutines and share the
registry, the template cache and the pool.

What makes it hard:

- the registry is refilled in place by any of several requests, and is read
  without the mutex that its writers take; the template cache is read the same way;
- catalogue queries have no timeout, tile queries one per layer, the response
  one for the whole request, the shutdown one for both servers;
- errors and panics in the middle of a load, with connections and locks held, or
  in the middle of a tile of several layers;
- a filter is parsed by a generated parser that recovers from errors, and turned
  into SQL by callbacks, each from the texts its children left behind;
- names, defaults, identifiers and parameters pass through quoting, folding,
  splitting at commas and unordered maps on the way to a statement and back to a link;
- coordinates: squares, off-by-ones, division by zero, clipping.

What makes each component correct is stated as properties (section 4).
`PROJECT.json` lists every hazard at its line with the properties that would catch it.

## 2. The modules

| module | models | proofs |
|---|---|---|
| `Layers` | the data: catalogues, layers, `Overlay` (what one load makes of one read of the tables and one of the functions) | |
| `LayerDirectory` | what the registry promises: a directory replaced whole and copied whole | |
| `LayerRegistry` | `layer.go` and the handlers around it, at the grain of the map's writes | `LayerRegistryProofs`, `OneHandlerProofs` |
| `ServerLifecycle` | `handleRequests`, timeouts, the pool, the shutdown | `ServerLifecycleProofs` |
| `TileGrid` | `tile.go`, `bounds.go`, `getServerBounds`, the bounds in table metadata | `TileGridProofs` |
| `Texts` | texts as sequences of pieces, split, joined and filtered | |
| `TableQuery` | a table layer: catalogue row, parameters of a query, statement, detail | |
| `FunctionQuery` | a function layer: catalogue row with its defaults, arguments of a query, call, detail | |
| `Routes` | `serverURLHost`, `formatBaseURL`, the links of lists and details, `tileRouter` | |
| `TileRequest` | composes the three above: tile, list and detail requests from the router to the answer, the template cache, the metrics | `TileRequestProofs`, `StatementProofs`, `LinkProofs`, `ListingProofs` |
| `CqlGrammar` | every rule of the generated parser (`cql_parser.go`) | |
| `AntlrParser` | what those functions do with the ANTLR runtime: prediction, error reports and recovery | |
| `SqlExpression` | the database's grammar of expressions, to read a `WHERE` with | |
| `CqlFilter` | composes the three above: `TranspileToSQL`, every method of its listener, `filterSQL`, the answer | |
| `MC...` | the constants of the runs | |

An operator named `X_Something` in a model is `X` with a plausible mistake. With
it in place of `X`, a property of the same module fails; that shows the property
says something about `X`.

### LayerRegistry

Each goroutine (a request, or `main` during the start) has a program counter.
The places follow `loadLayers`: `tables`, `functions` (the two catalogue reads,
before the mutex), `lock`, `fill` (the new map is empty and fills up),
`insert`/`store` (the two halves of one map write); then `listlock`, `copy`,
`write` for lists, and `find`, `render` for layers.

A Go map write is not atomic. The runtime sets a flag while it places the key; a
reader that meets the flag ends the process ("concurrent map read and map
write", which `recover` cannot catch). The two words of the interface value are
stored after the flag is down, so a reader may find a nil layer or words of two
layers. `MapRace`, `NilLayer` and `TornLayer` are these outcomes; the model
chooses among them nondeterministically, as the data race leaves them open.

Layer contents are abstracted to a `rev`: the number of the catalogue they were
read from. The catalogue changes by `CatalogueChanges` (DDL of other clients).
Errors take every path the code has: a failed table query (swallowed,
`layer_table.go:541`), failed reads, a row that cannot be scanned (fatal) or
decoded (panic), a database error or a timeout on a tile, a client that went away. A process that
exits is started again by the service manager (`Restart`).

`DirectoryNow` maps the registry to the abstract directory: while a load holds
the mutex, the directory is already the result that load will produce. With
this mapping, `LockAndEmpty` is the moment a directory is replaced, and
`ListUnlock` the moment it is copied.

### ServerLifecycle

Requests come in on two ports, wait for one of `MaxConns` connections, run
queries one after the other (`left`), and write a response. `clock` is the age of
the current query's context, `age` that of the request. `Tick` passes a unit of
time only when nothing the process does by itself is pending: its own steps
take milliseconds, the timeouts are seconds, only the database takes time.
`Interrupt`, `HttpDrained`, `HttpsDrained`, `Stop` follow the end of
`handleRequests`. The pool (pgxpool) and `Server.Shutdown` (net/http) are outside
the repository and modelled by what the code relies on: `Acquire` waits and
respects the context, `Close` waits for every connection, `Shutdown` stops
accepting and waits for the requests until its deadline.

### TileGrid

One process start and then requests one after another: the address is parsed,
checked and placed (`makeTile`), the query box computed (`requestSQL`), or a table's
published bounds (`GetBounds`). Coordinates are integers in units small enough for
every division to be exact; float rounding is not modelled, infinity and NaN
from a resolution of zero are.

### TileRequest, TableQuery, FunctionQuery, Routes

A handler has a program counter `pc`: `layer` (the loop of `requestTiles` and the
lookup and checks of `requestTile`), `template`, `lock`, `store`, `unlock`
(`getSQLTemplate`), `ask` (`dBTileRequest`), `count` (`tileMetrics`, which wraps the
handler), `list`, `detail`. `at`, `extant`, `layers` and `sql` are the handler's locals.
The registry is what one load made of the catalogue: that it changes under a handler
is the subject of `LayerRegistry`, not of this module.

Where Go ranges over a map the model takes any order: the properties of a table
(`getQueryPropertiesParameter`), the arguments of a function (`requestSQL`), several
spellings of one parameter (`getQueryIntParameter`). A statement is a record of its
parts. What a database says of it (`Refused`, `Bound`) is external: the feature id must be
selected, an unquoted argument name is folded to lower case, every argument needs a
value or a default.

Texts that the code takes apart (paths, ids, defaults) are sequences of pieces:
words, quotes, `::`, `, `, `/`, `.`. So a default goes the way it goes in the code:
printed with all others as one text, split at `, `, aligned with the last
arguments, split again at its casts, stripped of its quotes. The sorting of a detail
(`sort.Ints` over the places the map remembers) is `Sorted`: what a set of arguments or
properties gives in the order of their places.

`getSQLTemplate` reads the map of templates without the mutex. As in the registry, a
read that meets the flag of a write (`store`) ends the process (`MapRace`).

### CqlFilter, CqlGrammar, AntlrParser, SqlExpression

`CqlGrammar` says of each rule's function in which order it matches tokens and calls
other functions; `AntlrParser` runs that: it predicts alternatives, and on a mismatch drops a
token, makes one up or gives up the rule and skips, as the runtime's default
strategy does. The result is a tree for every input and the place of the first error.
`CqlFilter` walks the tree bottom up as the listener does (`Exit...`), and the
database reads the resulting text by `SqlExpression`, a grammar with SQL's precedences
run by the same parser. Its tree, put in a form without parentheses (`Meaning`), must
be the tree of what the filter says.

The model starts at tokens. What a filter *says* is not parsed at all: the runs make
filters from trees, writing them with as few parentheses as the documented
precedence allows, so that parser, listener and SQL are compared with something
independent of them.

## 3. Bounds and why they are enough

- *Registry*: two requests and `main`: every race here is between one writer and
  one reader, or between two loads. Two or three identifiers: one name that can be both
  a table and a function, one function, one function whose row cannot be decoded.
  One or two changes of the catalogue: before, between and after the reads of one
  load. One error: each error path ends the request, so two errors are two runs
  of it. `MaxDDL` and `MaxFaults` bound them. The safety run uses the symmetry of
  the two handlers; the liveness run does not.
- *Lifecycle*: one connection, so that every second request waits; two or three
  requests. `DbTimeout` and `Grace` of one or two units keep the order of the
  deadlines that the defaults have (10 and 5 seconds). Ages stop growing one past the last deadline.
- *Grid*: three zoom levels (every relation between tiles is between neighbours
  or between a level and the next), addresses to one past the grid, one past
  the largest int and the one that would wrap to 0, four configurations: square, within one percent too wide or
  too high, and just beyond it.
- *Tile requests*: two handlers, two requests, so that one can be anywhere in its
  request while the other goes through its own: the races are between one reader and one
  writer of the cache. A table with a feature id, one whose id is not an integer, one
  without; a function with defaults of every shape, one whose argument needs quotes,
  and one function that is no tile function. Tiles with a layer named twice, with an
  unknown layer, with filters that are good, bad and make the parser panic, with
  parameters in two spellings, zero and not a number; details and lists behind both
  kinds of proxy headers; ids with a comma, a slash and a question mark. One
  geometry column per table, one base path, no configured `UrlBase`, named parameters.
- *Filters*: one filter of every predicate and geometry, every scalar expression in a
  comparison and a `BETWEEN`, boolean combinations two levels deep of three kinds of
  predicate, so that every pair of neighbouring precedences meets in both orders; and
  eight short filters with every token dropped, doubled or replaced. The CRS of the filter
  is that of the table, or not.

## 4. The runs

| run | shows |
|---|---|
| `registry_safety` | `RegistryIsWhole`, `ListingIsWhole`, `ImplementsDirectory`: with two handlers, every kind of request, a change and an error, the registry is always the whole result of one load outside the mutex, and so is every list. `TilesDoNotDisturb`: tile requests, which read the map without the mutex, do each other no harm; the map race and the half-stored layer take a list, a detail or a preview |
| `registry_one_handler` | without concurrency the code does what its documentation says: 404 means absent, refreshed answers are current |
| `registry_liveness` | requests finish and the server comes up, also after errors |
| `registry_spurious_404` | violation: 404 for a layer that exists. The same unlocked read also violates `ServerStaysUp` (the process dies of a map race) and `TypeIsKnown` (a half-stored layer reaches the "never get here" line of `main.go:265`); no run checks these two, put them in place of `NotFoundMeansAbsent` in the cfg to see them |
| `lifecycle_http` | single-layer tile requests always get their timeout error in time, and an orderly shutdown cuts none off, while list requests without timeouts and lost connections do their worst |
| `lifecycle_liveness` | with both servers, and a database that answers catalogue queries but may leave tile queries running for ever, every request is answered and an interrupt ends the process |
| `tile_grid` | the grid is square, centred, partitions the world at every level and nests between levels, and an address too large for an int names no tile; the query box holds the tile and stays in the world |
| `tile_request` | a tile holds every layer of its request once and in order; a call binds what was given and the defaults; a statement fails only for what the request says, names that need quotes excepted (see below); details list what was declared; links lead back through proxies; only requests of existing layers are counted; the race of the template cache is over once the template is stored; every request finishes |
| `function_defaults` | violation: a default with `, ` in it shifts the others of the detail |
| `cql_filter` | the database reads what the filter says, whatever its nesting and CRS; a well-formed filter is never refused; what does not parse never becomes a tile |
| `filter_loses_answer` | violation: the listener dereferences what a broken tree lacks, before the error count is looked at; the client gets no response |
| `filter_escapes_tile` | violation: a top-level `OR` takes the spatial condition to one of its sides |

Each violation run checks one sentence of the documentation or the comments; the
sentence and its place are in `PROJECT.json` under `findings`.

### Disagreements without a run of their own

Each was seen with one of the configurations above changed as said; the constants are
in the `MC` modules.

| what | how to see it |
|---|---|
| An older load replaces a newer one: the catalogue is read before the mutex is taken (`layer.go:66`) | `RegistrySpurious404.cfg` with `Catalogs <- TwoCatalogs`, `Asked <- OnlyLists`, `MaxDDL = 1`, `INVARIANT AnswersAreCurrent` |
| A failed table query is a success without tables (`layer_table.go:541`) | `RegistryOneHandler.cfg` with `Asked <- ListAndPreview`, `MaxFaults = 1` and `AnswersAreCurrent` alone |
| The second timeout of a tile of two layers comes after `writeTimeout` (`main.go:365`) | `LifecycleHttp.cfg` with `Kinds <- MultiTiles` and `TimeoutsReachTheClient` alone |
| One lost connection (a function with an OUT parameter, `layer_proc.go:239`) and the process never stops | `LifecycleLiveness.cfg` with `Kinds <- BadLists` and `InterruptEndsTheProcess` alone |
| A southern side past the pole is moved to the north pole (`bounds.go:52`) | `ExtentIsClipped` without its second conjunct |
| The metrics of a tile of several layers count under all their names when a later one fails, also when a name does not exist (`util.go:232` says invalid layers are not tracked) | `MetricsTrackValidLayers` without `code = 200 =>` |
| An argument whose name has capitals cannot be given, since the call writes names without quotes (`layer_proc.go:120`); `README.md:169` says that function layers "allow the HTTP client to send in optional parameters" | `RefusedForTheRequest` without its disjunct with `Fold` |

Read in the code while modelling, and outside what a run can state:

- `limit=0` drops the limit instead of returning nothing (`layer_table.go:448`).
- `filter` is only found in lower case (`layer_table.go:152`), other parameters in any case.
- When none of the requested properties is known, all are returned and the id column twice (`layer_table.go:203`).
- A default that is exactly `g` reads as NULL and is fatal to the process; a default that is
  exactly `, ` panics in `parseArgDefault` (`RowFatal`, `RowPanics`).
- A default such as `'abc'::character varying` keeps the second word of its type.
- An argument without a name cannot be given (`layer_proc.go:119`).
- An ID with a comma is listed, and its tiles are two layers to `requestTiles`; one with a
  slash is two segments to the router (the exceptions of `LinksLeadBack`).
- A path in `UrlBase` is lost when `BasePath` starts with `/` (`formatBaseURL`); otherwise it is
  part of every link, and the router serves only `BasePath`.

Two limits of what passes. With the defaults (`DbTimeout` 10, grace 5) an HTTPS
request accepted while HTTP drains may be cut off, since both servers share one
deadline: `ShutdownServesWhatItAccepted` fails with `Tls = TRUE` and
`Grace <= DbTimeout`. The code promises nothing here, so it is a hazard and not a
finding. And `TimeoutsReachTheClient` and `ShutdownServesWhatItAccepted` speak of
requests under `DbTimeout`; nothing of the kind holds of list, detail and preview
requests, which have no timeout.

`CHECK_DEADLOCK FALSE` is used in the lifecycle, grid, filter and tile-request runs: the
process really stops there, after an interrupt, a configuration it refuses, a map race, the
one answer of a filter or the last of `MaxRequests`.

## 5. Fairness

- Registry: the Go scheduler runs every runnable goroutine (weak fairness of its
  steps); `sync.Mutex` hands itself to a waiter that starves (strong fairness of
  the two lock steps); the database answers the statements it is sent; the
  service manager restarts the process (`examples/systemd/pg_tileserv.service`,
  `Restart=always`). Nobody has to send a request or make anything fail.
- Lifecycle: the scheduler runs what can run, time goes on, the pool serves its
  waiters in turn (pgxpool queues them), and the database answers queries without
  a timeout, which are about its catalogue. It owes nothing to tile queries: their
  timeout has to be enough.
- Tile requests: the scheduler runs each handler (weak fairness of its steps); a mutex that
  is free again and again reaches everyone who waits (strong fairness of `LockTemplates`,
  Go's mutex does not starve its waiters); the database answers a statement or its timeout does.
- Filters: only safety is checked.

## 6. What is proved

For every value of the constants that satisfies the modules' assumptions:

- `RegistryAssumption`, `LifecycleAssumption`, `GridAssumption`, `HandlersAssumption`,
  `RequestsAssumption`, `TablesAssumption`, `FunctionsAssumption`, `WordsAssumption`: types and
  disjointness of the constants, at least one connection, a grace period of at least one unit, a
  tile request with at least one name, the columns of a table, of different names, and the
  parameters of a function in a sequence, the parameters of a query as texts, no sign among the
  words the catalogue's query takes the quotes off. One of them says something about the database: no input
  parameter of a tile function after the third is called `x`, `y` or `z`, since the first three
  are and PostgreSQL refuses a function that has two input parameters of one name.
  `FoldAssumption`: these three names need no quotes.
- What links are made of. `CatalogueAssumption`: the catalogue is finite, and the id of a layer is
  neither empty nor `index`, since a `.` stands in it (`layer_table.go:499` makes it of
  schema and name, `layer_proc.go` too). `EscapesAssumption` says what `url.PathEscape` does (`layer.go:108`):
  two pieces are never escaped alike, an escape is none of the signs and words the server
  writes into a link itself, and what looks like an escape or like `{z}` is escaped, as `%` and
  `{` are. `DigitsAssumption`: the address the client fills in is made of numbers.
  `UrlBaseAssumption`, `BasePathAssumption`: the two settings are texts without two slashes in a
  row, and the base path needs no escapes.
- `HalvesAreExact` and `LevelsAreExact`: the units of the coordinates are fine enough for the
  square to have a centre and for every level to divide it. `LevelsFitAnInt`: the columns of
  every level are ints. `PowersArePositive` and
  `PowersDouble` are arithmetic, true of every number: what the provers cannot find out about
  exponents.

A theorem that needs more says so in its `ASSUME`.

### The registry, any number of handlers

- `TypeCorrect`: the type invariant of the registry. Besides the types it ties the
  program counter to the slot, the list and the names still to serve, without
  which the steps that read them have no type.
- `RegistryAlwaysWhole`, `ListingAlwaysWhole`: from `WholeAlways`. The inductive
  invariant `WholeInv` says that at most one goroutine is inside the mutex, that
  what the goroutine inside has put in the map so far plus what it has left is the
  overlay of its load, that every load consists of reads of the history, in order, and what
  a copying list has copied agrees with the map. Without the part about what is
  left, a half-filled map could not be followed to the whole one.
- `RegistryImplementsDirectory`: every step maps to a step of `LayerDirectory` or
  to a stutter, using `WholeInv`.

### The registry, when reading it without the mutex does no harm

What the documentation says of the registry fails when a read of the map meets a load of
somebody else (`registry_spurious_404`). Three theorems say when it does not. Each needs
`PhaseInv`: `main`, a goroutine of its own, loads before anybody is served and never after.

- `TilesNeverDisturb`: any number of handlers, any failures and changes of the catalogue. While
  only tile requests are under way no step ends the process, and a step that looks a layer up
  finds what the registry holds: by `TileInv` no tile request is ever on its way through a
  load, by `PhaseInv` `main` is not either, and by `WholeInv` nobody is then in the middle
  of a map write. The same with a list, a detail or a preview among them is false.
- `LoneNotFoundMeansAbsent`, `LoneAnswersAreCurrent` (`Alone`, `NothingFails`): the
  invariant `CurrentInv` follows an answer back to its load. `Fresh` says that a load reads nothing
  older than the request it is for, and that once a goroutine is past its load the registry *is*
  that load; `Published`, that a tile request, which loads nothing, finds what some load read;
  `Told`, that an answer was made of either. `Alone` is the hypothesis that there is one handler
  at most: requests come one at a time, in any number. `NothingFails` is `MaxFaults = 0`; it is
  needed because a failed table query is a success without tables (`layer_table.go:541`).

### The life of the server

- `LifecycleTypeCorrect`: types, and that connections in use and lost never exceed
  the pool.
- `TimeoutsAlwaysReachTheClient`, for requests of one layer (`SingleLayer`):
  `TimeInv` says a request is exactly as old as the context of its query, so it is
  no older than `DbTimeout` when it starts to write. This is what fails for two layers.
- `ShutdownAlwaysServes`, for single-layer requests without HTTPS: `ShutdownInv`
  says a live request is at least as old as the shutdown; a live tile request is
  younger than `writeTimeout`, so when the drain is over there is none.

### The grid, every configuration, depth, address, buffer and resolution

All of it rests on `GridInv`: the type invariant; the square is that of the configuration
(`SquareInv`); a tile at hand is a tile of the grid and its box the one the grid gives it
(`TileInv`); a published extent is the measured one, sanitized (`ExtentInv`); and the box
of the query holds the tile, which is what keeps the box typed when it is expanded and clipped.

- `TypeCorrect`, `SquareAlwaysCentred`, `QueryAlwaysCoversTile`, `ExtentAlwaysClipped`: the
  rest is arithmetic (`SquaredCentred`, `TileInside`, `ExpandInside`).
- `ChildrenAlwaysMakeUpTheirParent`: by `PowersDouble` and `LevelsAreExact` the four children
  meet in the centre of their parent without a gap.
- `EveryPlaceAlwaysHasOneTile` (`EveryTileHasAnAddress`, `BoundsHaveAnArea`): over all addresses
  a client can write, those that are refused as too large for an int included, a place lies in
  the tile whose column and row are its distance from the corner divided by the size of a tile,
  and in no other. The property speaks of the tiles clients can ask for, hence the first
  hypothesis. The second excludes configured bounds without width or height: the code accepts
  them (`getServerBounds`, `util.go:159`, only asks for a square), and then all tiles are one point.

### Tile requests, any catalogue, requests, handlers, and order of a map

- `TypeCorrect`: `TypesInv`. That a counter of the metrics never exceeds `MaxRequests` needs
  `Counting`: what is counted, what is still to come and what is under way (`InFlight`) are
  never more than `MaxRequests` together.
- `TilesAlwaysWhole`: the inductive invariant `IInv` says of a handler in the loop
  (`Halfway`) that its parts are those of `extant`, and that `extant` is the first
  mentions among the names before `at`, in order (`InOrder`): that is what makes the
  check for duplicates, which looks at `extant` only, enough.
- `MetricsAlwaysValid`: `Countable`, in `IInv`, says that a reply that will be counted
  belongs to a request whose first layer was found, and a tile to one whose layers all were.
- `RaceWindowStaysClosed`: an action property. A handler gets to `lock` only past a cache
  without the template, and the cache never shrinks.
- `CallsAlwaysBind`: `CallsInv` carries through the loop that the statement of a handler at
  `ask` is a call made from its request, and that the parts it has bind what was given.
  `CallBinds` is the heart: names and values of the call are one injective walk over the
  arguments, so the value a name is bound to is the one found at its own place.
- `OnlyRefusedForTheRequest` (`ResolutionIsSet`): `StatementsInv` says that the statement a
  handler is about to send is one made from its request for the layer it is at, the whole way
  through the template cache. Then `CallRefused` and `StatementRefused` go through what a
  database refuses: the columns of a statement are columns of the table and the feature id is
  among them (`PropertiesFit`), the names of a call are names of parameters and none is given
  twice. The property excepts calls that give an argument whose name needs quotes, which the
  code fails whatever the value: the theorem says that the failure stays with these requests, and
  that no other call fails but for an argument that has no default and is left out. `ResolutionIsSet` says that `DefaultResolution` is not 0; a server configured with 0
  divides by it in every statement that does not name a resolution, and nobody asked for that.

- `LinksAlwaysLeadBack` (`ProxiesAreHonest`, `BaseIsServed`, `ShowPreview`), in three parts.
  Texts: `Split` is a walk over the pieces (`SplitBuilds`, `SplitMore`), so it undoes `Join`
  (`SplitJoin`), wherever the separators stand. The way of a link: what is sent is the link
  with its places filled and its escapes taken back, up to a `?`, of which it has none
  (`SentTogether`, `FillsIn`, `LinkIsRead`); its segments are those of the base path and then its
  own (`DetailPath`, `TilePath`); and the route that takes it is the first that is open
  (`FirstOpen`, `DetailTaken`, `TileTaken`), which needs that a detail is not taken for the
  list, hence no id `index`. The server: `HostAsAsked` says what `serverURLHost` finds out about the
  client; the invariant `LinksOk` says of each handler that all links of its answer lead back.
  The hypotheses: a proxy that changes what its client asked says so, in a `Forwarded` header with
  both host and proto or in the `X-Forwarded` header of each (nobody can undo what is not said);
  with `UrlBase` set, the base path starts with `/`, since otherwise the path in `UrlBase`
  goes into the links and the router knows nothing of it; without the preview there are
  no lists and details. `MCTileRequest` assumes all three of its own constants
  (`LinksAreMeantToLead`), so TLC evaluates them on the instance the runs check. An id with a
  `/` or `,` is excepted in the property itself.

- `DetailsListAsDeclared` (`DefaultsAreSimple`), in four parts. The text of all defaults
  (`getFunctionLayers`): the catalogue's query takes the quotes off one place, where a word in
  quotes with a cast stands, and `MatchSides` and `UnquotedJoin` show that such a place lies
  inside one default: no default has a separator in it, and the signs are no words. So splitting
  gives back the defaults, each as it was printed or without its quotes (`SplitsAgain`). One
  default (`parseArgDefault`): either way the value comes out (`SimpleSurvives`). The parameters: since those with a
  default come last, counting from the end gives each its own (`EachItsValue`); that no parameter is
  left over, as it would be with outputs, follows from the row not having panicked. The order
  (`getFunctionDetailJSON`, `getTableDetailJSON`): a map keyed by name forgets the order, the
  places it keeps bring it back (`SortedGrow`), for which names must differ. The inductive
  invariant `ListedOk` says of a handler that a detail it answered lists what was declared; it
  needs `Loaded` and `ReadWell`, that the registry is there and every row in it was read
  without a panic, from the proofs of calls and statements.

  `DefaultsAreSimple` has two clauses PostgreSQL sees to itself, that parameters of a tile
  function have different names and that those with defaults come last, and one it does not: a
  default is printed as its value, or as its value in quotes with a cast to a type of one word,
  and has no quote and no `, ` in it. The run `function_defaults` shows that the last is needed:
  its `CommaFunctions` break the property. `MCTileRequest` has TLC evaluate the hypothesis for
  both sets of functions (`DefaultsMayBeSimple`).

The operators these texts are handled with, `Only`, `Split` and `Join`, are recursive functions.
What they return is proved by induction over the length: `EveryNumber` states
induction for *sets* of numbers, which needs no operator as a parameter, and follows from
`NatLessThanWellFounded` and `WFMin` of the library.

### Only model-checked

- Every liveness property, and the fairness of the specifications: ENABLED is outside the prover.
- Everything about filters: the parser of `AntlrParser` is made of RECURSIVE operators, for
  which the prover has no SMT backend.

So of the safety invariants the runs check, three have no theorem: `FilterKeepsItsMeaning`,
`WellFormedIsAccepted` and `OnlyFiltersAreAccepted`, all three about filters.

## 7. What could come next

- Filters over a parser written with recursive functions, so that at least
  `OnlyFiltersAreAccepted` could be proved.
- `ShutdownAlwaysServes` for two servers when the grace period is longer than `DbTimeout` and
  no list request holds up the drain.
- A composition of `LayerRegistry` and `ServerLifecycle`: loads that wait for the pool
  while they refill the registry.
- Tables of several geometry columns, which the catalogue query returns as several rows of one ID.

## 8. Not modelled, and why

- The lexer of filters (`cql/cql_lexer.go`): tables that make tokens of characters. One
  consequence is not seen by the model: `x -1` is a name and the number -1, not a
  difference. The parser's ambiguity reports, which `cql.go:100` counts as errors,
  are left out: they depend on how far the runtime looks ahead.
- The listener interfaces and their empty base (`cql/cqlparser_*listener.go`) have no logic.
- `init` and the first half of `main`: settings are read once, in a fixed order, and viper
  decides which source wins. The settings are constants of the modules.
- `loadVersions` takes a version text apart; only that it may fail is modelled.
- CORS, compression, `Cache-Control`; a host that is no URL, which is fatal to the process
  (`util.go:38`): a single step without anything around it.
- The browser pages under `assets`, packaging, examples and the documentation site have no logic of
  the program's own.
- Base paths with two slashes in a row: a link keeps them (`formatBaseURL` only trims the
  end, `util.go:44`), the router cleans them away. `SingleSlashes` excludes them.
- Overloads of a tile function, which the catalogue query returns as several rows of one ID: the
  last row wins (`layer.go:80`).
- The message that shows where a filter is wrong (`syntaxErrorMsg`, `cql.go:58`) counts runes
  and cuts bytes, so it may point beside the place in a filter that is not ASCII. Its slices stay in bounds.
- Logging and the wording of errors everywhere; float rounding in `TileGrid`.
- A client that disconnects does not stop its handler (the contexts come from
  `context.Background()`), so in `ServerLifecycle` it is a request like any other; in
  `TileRequest` the write of its answer fails.

## 9. Running

    tlc -config RegistrySafety.cfg MCLayerRegistry.tla
    tlapm LayerRegistryProofs.tla

and likewise for the other configurations: `Registry*` with `MCLayerRegistry`,
`Lifecycle*` with `MCServerLifecycle`, `TileGrid` with `MCTileGrid`, `TileRequest` and
`FunctionDefaults` with `MCTileRequest`, `CqlFilter` and `Filter*` with `MCCqlFilter`.
