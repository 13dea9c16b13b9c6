------------------------------ MODULE TileGrid ------------------------------
(***************************************************************************)
(* The tile grid of pg_tileserv: the square of the world the server cuts   *)
(* into tiles (util.go, getServerBounds), the tiles of each zoom level     *)
(* (tile.go), the box a tile's features are queried from and the extent a  *)
(* table's metadata publishes (bounds.go, layer_table.go).                 *)
(*                                                                         *)
(* The program computes in float64.  Here a coordinate is an integer in    *)
(* units small enough for every division below to be exact, so what is     *)
(* shown is the arithmetic intended, without its rounding; the values a    *)
(* division by zero gives, infinity and NaN, are kept.                     *)
(*                                                                         *)
(* An operator X_Something is X with a plausible mistake: replaced by it,  *)
(* a property of this module fails.                                        *)
(***************************************************************************)
EXTENDS Integers, FiniteSets, FiniteSetsExt

CONSTANTS
    Configs,        \* CoordinateSystem blocks of the configuration file
    MaxZoom,        \* the deepest zoom level, 32 in the code
    MaxInt,         \* the largest Go int
    Addresses,      \* what clients write for z, x and y: \d+
    Resolutions,    \* the resolutions and
    Buffers,        \* the buffers clients ask for, in steps of the resolution
    Extents,        \* extents of a table's data in EPSG:4326
    NoBox           \* no box: not computed yet, SQL NULL, or all NaN

Box(srid, xmin, ymin, xmax, ymax) ==
    [SRID |-> srid, Xmin |-> xmin, Ymin |-> ymin, Xmax |-> xmax, Ymax |-> ymax]
Boxes == [SRID : Nat, Xmin : Int, Ymin : Int, Xmax : Int, Ymax : Int]

ASSUME GridAssumption ==
    /\ Configs \subseteq Boxes
    /\ MaxZoom \in Nat
    /\ MaxInt \in Nat
    /\ Addresses \subseteq Nat
    /\ Resolutions \subseteq Nat
    /\ Buffers \subseteq Nat
    /\ Extents \subseteq {b \in Boxes : b.SRID = 4326}
    /\ NoBox \notin Boxes

(* Powers of two up to the deepest level are positive and double from       *)
(* level to level: the provers know nothing of exponents.                   *)
ASSUME PowersArePositive == \A z \in 0..MaxZoom : 2^z \in Nat \ {0}
ASSUME PowersDouble == \A z \in 0..MaxZoom : z < MaxZoom => 2^(z + 1) = 2 * 2^z

(* An int holds an address past the end of every level.                    *)
ASSUME LevelsFitAnInt == \A z \in 0..MaxZoom : MaxInt >= 2^z

VARIABLES
    config,             \* the CoordinateSystem block read at the start
    globalServerBounds, \* the square, computed at the start
    tile,               \* the tile of the request in hand
    queryBounds,        \* the box its features are queried from
    measured,           \* the extent a detail request read from the database
    extent,             \* the bounds it published
    outcome             \* how far the request got

vars == <<config, globalServerBounds, tile, queryBounds, measured, extent,
          outcome>>

NoTile == [Zoom |-> 0, X |-> 0, Y |-> 0, Bounds |-> NoBox]

Init ==
    /\ config \in Configs
    /\ globalServerBounds = NoBox
    /\ tile = NoTile
    /\ queryBounds = NoBox
    /\ measured = NoBox
    /\ extent = NoBox
    /\ outcome = "starting"

-----------------------------------------------------------------------------
(* The square of the world *)

Width(b) == b.Xmax - b.Xmin
Height(b) == b.Ymax - b.Ymin

(* Coordinates are fine enough for the square to have a centre. *)
ASSUME HalvesAreExact == \A c \in Configs : (Width(c) - Height(c)) % 2 = 0

Lesser(a, b) == IF a <= b THEN a ELSE b
Greater(a, b) == IF a <= b THEN b ELSE a

(* and for every level to divide it. *)
ASSUME LevelsAreExact ==
    \A c \in Configs, z \in 0..MaxZoom : Lesser(Width(c), Height(c)) % 2^z = 0

Distance(a, b) == Greater(a, b) - Lesser(a, b)

(* More than one percent from a square *)
NotSquare(b) == 100 * Distance(Width(b), Height(b)) > Lesser(Width(b), Height(b))

(* the square keeps the lower left corner of the configuration *)
Squared_Corner(b) ==
    LET size == Lesser(Width(b), Height(b))
    IN  Box(b.SRID, b.Xmin, b.Ymin, b.Xmin + size, b.Ymin + size)

(* The square of the shorter side about the same centre *)
Squared(b) ==
    LET size == Lesser(Width(b), Height(b))
        xmin == b.Xmin + (Width(b) - size) \div 2
        ymin == b.Ymin + (Height(b) - size) \div 2
    IN  Box(b.SRID, xmin, ymin, xmin + size, ymin + size)

(* The first load of the layers asks for the square before anything else:   *)
(* a configuration that is not square ends the process before it serves,   *)
(* and every later call finds the square computed.                          *)
getServerBounds ==
    /\ outcome = "starting"
    /\ ~NotSquare(config)
    /\ globalServerBounds' = Squared(config)
    /\ outcome' = "idle"
    /\ UNCHANGED <<config, tile, queryBounds, measured, extent>>

RefuseConfig ==
    /\ outcome = "starting"
    /\ NotSquare(config)
    /\ outcome' = "exited"
    /\ UNCHANGED <<config, globalServerBounds, tile, queryBounds, measured, extent>>

(* The server serves, and no request is half way. *)
Idle == outcome \notin {"starting", "exited", "made"}

-----------------------------------------------------------------------------
(* Tiles *)

(* the last row and column are left out *)
IsValid_OffByOne(t) ==
    /\ t.Zoom \in 0..MaxZoom
    /\ t.X \in 0..(2^t.Zoom - 2)
    /\ t.Y \in 0..(2^t.Zoom - 2)

(* addresses wrap instead of stopping at the largest int *)
Atoi_Wraps(n) == IF n > MaxInt THEN n - 2 * (MaxInt + 1) ELSE n

(* Atoi returns the largest int when the digits mean more; its error is     *)
(* dropped by makeTile.                                                     *)
Atoi(n) == Lesser(n, MaxInt)

IsValid(t) ==
    /\ t.Zoom \in 0..MaxZoom
    /\ t.X \in 0..(2^t.Zoom - 1)
    /\ t.Y \in 0..(2^t.Zoom - 1)

(* rows count from the bottom, as in TMS *)
CalculateBounds_FromBelow(world, t) ==
    LET tileWidth == Width(world) \div 2^t.Zoom
    IN  Box(world.SRID,
            world.Xmin + tileWidth * t.X, world.Ymin + tileWidth * t.Y,
            world.Xmin + tileWidth * (t.X + 1), world.Ymin + tileWidth * (t.Y + 1))

(* Columns count from the left, rows from the top. *)
CalculateBounds(world, t) ==
    LET tileWidth == Width(world) \div 2^t.Zoom
    IN  Box(world.SRID,
            world.Xmin + tileWidth * t.X, world.Ymax - tileWidth * (t.Y + 1),
            world.Xmin + tileWidth * (t.X + 1), world.Ymax - tileWidth * t.Y)

(* makeTile *)
RejectAddress(t) ==
    /\ ~IsValid(t)
    /\ outcome' = "badrequest"
    /\ tile' = t

PlaceTile(t) ==
    /\ IsValid(t)
    /\ outcome' = "made"
    /\ tile' = [t EXCEPT !.Bounds = CalculateBounds(globalServerBounds, t)]

makeTile(z, x, y) ==
    LET t == [Zoom |-> Atoi(z), X |-> Atoi(x), Y |-> Atoi(y), Bounds |-> NoBox]
    IN  /\ Idle
        /\ RejectAddress(t) \/ PlaceTile(t)
        /\ queryBounds' = NoBox
        /\ measured' = NoBox
        /\ extent' = NoBox
        /\ UNCHANGED <<config, globalServerBounds>>

-----------------------------------------------------------------------------
(* The box a tile's features are queried from *)

(* the limits of the square are not respected *)
Expand_Unlimited(b, size, world) ==
    Box(b.SRID, b.Xmin - size, b.Ymin - size, b.Xmax + size, b.Ymax + size)

(* Expand: by size on every side, held within the square. *)
Expand(b, size, world) ==
    Box(b.SRID, Greater(b.Xmin - size, world.Xmin), Greater(b.Ymin - size, world.Ymin),
                Lesser(b.Xmax + size, world.Xmax), Lesser(b.Ymax + size, world.Ymax))

(* requestSQL: the margin is width * buffer / resolution.  A resolution of  *)
(* zero is a margin without end, which Expand cuts back to the whole        *)
(* square; with a buffer of zero as well it is not a number, and neither is *)
(* any side of the box.                                                     *)
QueryBox(b, buffer, resolution, world) ==
    CASE resolution > 0 -> Expand(b, (Width(b) * buffer) \div resolution, world)
      [] resolution = 0 /\ buffer > 0 -> [world EXCEPT !.SRID = b.SRID]
      [] OTHER -> NoBox

requestSQL(buffer, resolution) ==
    /\ outcome = "made"
    /\ queryBounds' = QueryBox(tile.Bounds, buffer, resolution, globalServerBounds)
    /\ outcome' = IF queryBounds' = NoBox THEN "error" ELSE "queried"
    /\ UNCHANGED <<config, globalServerBounds, tile, measured, extent>>

-----------------------------------------------------------------------------
(* The extent in a table's metadata *)

(* sanitize, as it is: a southern side past the pole moves to the other one *)
sanitize(b) ==
    IF b.SRID # 4326 THEN b
    ELSE Box(b.SRID, IF b.Xmin < -180 THEN -180 ELSE b.Xmin,
                     IF b.Ymin < -90 THEN 90 ELSE b.Ymin,
                     IF b.Xmax > 180 THEN 180 ELSE b.Xmax,
                     IF b.Ymax > 90 THEN 90 ELSE b.Ymax)

(* GetBoundsExact: the whole globe stands for a table without geometries.   *)
Globe == Box(4326, -180, -90, 180, 90)
GetBoundsExact(exact) == IF exact = NoBox THEN Globe ELSE exact

(* Mutant: only the exact extent is clipped.                               *)
GetBounds_EstimateAsItIs(estimated, exact) ==
    /\ Idle
    /\ measured' = IF estimated = NoBox THEN GetBoundsExact(exact) ELSE estimated
    /\ extent' = IF estimated = NoBox THEN sanitize(measured') ELSE measured'
    /\ outcome' = "described"
    /\ tile' = NoTile
    /\ queryBounds' = NoBox
    /\ UNCHANGED <<config, globalServerBounds>>

(* GetBounds: the planner's estimate, or the exact extent without one.      *)
GetBounds(estimated, exact) ==
    /\ Idle
    /\ measured' = IF estimated = NoBox THEN GetBoundsExact(exact) ELSE estimated
    /\ extent' = sanitize(measured')
    /\ outcome' = "described"
    /\ tile' = NoTile
    /\ queryBounds' = NoBox
    /\ UNCHANGED <<config, globalServerBounds>>

-----------------------------------------------------------------------------
Next ==
    \/ getServerBounds
    \/ RefuseConfig
    \/ \E z, x, y \in Addresses : makeTile(z, x, y)
    \/ \E b \in Buffers, r \in Resolutions : requestSQL(b, r)
    \/ \E est, ex \in Extents \cup {NoBox} : GetBounds(est, ex)

Spec == Init /\ [][Next]_vars

-----------------------------------------------------------------------------
(* Properties *)

(* Every variable holds a value of its Go type. *)
TypeOK ==
    /\ config \in Configs
    /\ globalServerBounds \in Boxes \cup {NoBox}
    /\ tile \in [Zoom : 0..MaxInt, X : 0..MaxInt, Y : 0..MaxInt, Bounds : Boxes \cup {NoBox}]
    /\ queryBounds \in Boxes \cup {NoBox}
    /\ measured \in Boxes \cup {NoBox}
    /\ extent \in Boxes \cup {NoBox}
    /\ outcome \in {"starting", "exited", "idle", "badrequest", "error",
                    "made", "queried", "described"}

Inside(a, b) ==
    /\ b.Xmin <= a.Xmin /\ a.Xmax <= b.Xmax
    /\ b.Ymin <= a.Ymin /\ a.Ymax <= b.Ymax

(* The square the grid divides is a square, lies within the configured     *)
(* bounds and has their centre: squaring never moves the map               *)
(* (getServerBounds).                                                       *)
SquareIsCentred ==
    globalServerBounds # NoBox =>
        /\ Width(globalServerBounds) = Height(globalServerBounds)
        /\ Inside(globalServerBounds, config)
        /\ globalServerBounds.Xmin - config.Xmin = config.Xmax - globalServerBounds.Xmax
        /\ globalServerBounds.Ymin - config.Ymin = config.Ymax - globalServerBounds.Ymax

(* A tile of the grid, and where the code puts it *)
At(z, x, y) ==
    CalculateBounds(globalServerBounds, [Zoom |-> z, X |-> x, Y |-> y, Bounds |-> NoBox])

(* Does a tile's box, without its right and lower sides, hold the point?   *)
Holds(b, px, py) == b.Xmin <= px /\ px < b.Xmax /\ b.Ymin < py /\ py <= b.Ymax

(* The upper left corner of a tile of the deepest level asked for is in    *)
(* exactly one tile of every level, among all the addresses a client can   *)
(* write: the tiles of a level neither overlap nor leave a gap (IsValid    *)
(* and CalculateBounds agree on the size of the grid), and no number too   *)
(* large for an int names one of them again (makeTile drops Atoi's error). *)
EveryPlaceHasOneTile ==
    tile.Bounds # NoBox =>
        \A z \in Addresses \cap 0..MaxZoom :
            Cardinality({a \in Addresses \X Addresses :
                LET x == Atoi(a[1])
                    y == Atoi(a[2])
                IN  /\ IsValid([Zoom |-> z, X |-> x, Y |-> y])
                    /\ Holds(At(z, x, y), tile.Bounds.Xmin, tile.Bounds.Ymax)}) = 1

(* The boxes of the four tiles below a tile make up its box, in the order  *)
(* the XYZ scheme names them: a map that zooms in finds the same place     *)
(* (CalculateBounds).                                                       *)
ChildrenMakeUpTheirParent ==
    (tile.Bounds # NoBox /\ tile.Zoom < MaxZoom) =>
        LET child(i, j) == At(tile.Zoom + 1, 2 * tile.X + i, 2 * tile.Y + j)
            b == tile.Bounds
        IN  /\ child(0, 0).Xmin = b.Xmin /\ child(0, 0).Ymax = b.Ymax
            /\ child(1, 1).Xmax = b.Xmax /\ child(1, 1).Ymin = b.Ymin
            /\ child(0, 0).Xmax = child(1, 0).Xmin
            /\ child(0, 0).Ymin = child(0, 1).Ymax

(* A tile is queried from no less than its own box and no more than the    *)
(* square, whatever buffer and resolution the client asks for (Expand).    *)
QueryCoversTile ==
    queryBounds # NoBox =>
        /\ Inside(tile.Bounds, queryBounds)
        /\ Inside(queryBounds, globalServerBounds)

(* The bounds a detail request publishes are the extent of the data,       *)
(* "clipped to (+/-180, +/-90)" (layer_table.go:279), estimated or exact    *)
(* (GetBounds, sanitize); for data south of the pole the code publishes a  *)
(* box that starts at the north pole instead.                              *)
ExtentIsClipped ==
    extent # NoBox /\ measured.Ymin >= -90 =>
        extent = Box(4326, Greater(measured.Xmin, -180), measured.Ymin,
                           Lesser(measured.Xmax, 180), Lesser(measured.Ymax, 90))
=============================================================================
