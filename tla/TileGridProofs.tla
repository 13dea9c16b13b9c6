--------------------------- MODULE TileGridProofs ---------------------------
(***************************************************************************)
(* Proofs about TileGrid, for any configuration, number of zoom levels,    *)
(* address, buffer and resolution: the square is centred, and the box a    *)
(* tile is queried from holds the tile and lies in the square.             *)
(***************************************************************************)
EXTENDS TileGrid, FiniteSetTheorems, TLAPS

-----------------------------------------------------------------------------
(* The square of a configuration that is accepted.                         *)

(* It is a box, and a square. *)
LEMMA SquaredBox ==
    ASSUME NEW c \in Configs, ~NotSquare(c)
    PROVE  /\ Squared(c) \in Boxes
           /\ Width(Squared(c)) = Height(Squared(c))
           /\ Width(Squared(c)) \in Nat
<1>1. c \in Boxes
  BY GridAssumption
<1>2. Width(c) \in Int /\ Height(c) \in Int
  BY <1>1 DEF Boxes, Width, Height
<1>3. Lesser(Width(c), Height(c)) \in Nat
  BY <1>2 DEF NotSquare, Lesser, Greater, Distance
<1> DEFINE size == Lesser(Width(c), Height(c))
           xmin == c.Xmin + (Width(c) - size) \div 2
           ymin == c.Ymin + (Height(c) - size) \div 2
<1>4. /\ size \in Nat /\ xmin \in Int /\ ymin \in Int
      /\ Squared(c) = Box(c.SRID, xmin, ymin, xmin + size, ymin + size)
  BY <1>1, <1>2, <1>3 DEF Boxes, Squared
<1> HIDE DEF size, xmin, ymin
<1> QED BY <1>1, <1>4 DEF Box, Boxes, Width, Height

(* Half of an even difference, twice, is the difference. *)
LEMMA Halves ==
    ASSUME NEW a \in Int, NEW b \in Int, (a - b) % 2 = 0, b <= a
    PROVE  (a - b) \div 2 \in Nat /\ a = b + 2 * ((a - b) \div 2)
<1> DEFINE d == a - b
<1>1. d \in Nat /\ d % 2 = 0 /\ a = b + d
  OBVIOUS
<1> HIDE DEF d
<1>2. d \div 2 \in Nat /\ d = 2 * (d \div 2)
  BY <1>1
<1> QED BY <1>1, <1>2 DEF d

(* It leaves the same margin on opposite sides of the configured bounds. *)
LEMMA SquaredCentred ==
    ASSUME NEW c \in Configs, ~NotSquare(c)
    PROVE  /\ Inside(Squared(c), c)
           /\ Squared(c).Xmin - c.Xmin = c.Xmax - Squared(c).Xmax
           /\ Squared(c).Ymin - c.Ymin = c.Ymax - Squared(c).Ymax
<1>1. c \in Boxes /\ (Width(c) - Height(c)) % 2 = 0
  BY GridAssumption, HalvesAreExact
<1>2. Width(c) \in Int /\ Height(c) \in Int
  BY <1>1 DEF Boxes, Width, Height
<1> DEFINE size == Lesser(Width(c), Height(c))
           dx == (Width(c) - size) \div 2
           dy == (Height(c) - size) \div 2
<1>3. /\ size \in Int /\ dx \in Nat /\ dy \in Nat
      /\ Width(c) = size + 2 * dx
      /\ Height(c) = size + 2 * dy
  <2> DEFINE w == Width(c)
             h == Height(c)
  <2> HIDE DEF w, h
  <2>1. w \in Int /\ h \in Int /\ (w - h) % 2 = 0
    BY <1>1, <1>2 DEF w, h
  <2>2. CASE w <= h
    <3>1. (w - w) \div 2 = 0
      BY <2>1
    <3>2. (h - w) \div 2 \in Nat /\ h = w + 2 * ((h - w) \div 2)
      <4>1. (h - w) % 2 = 0
        <5> DEFINE d == h - w
        <5>1. d \in Nat /\ (-d) % 2 = 0
          BY <2>1, <2>2
        <5> HIDE DEF d
        <5>2. d % 2 = 0
          BY <5>1
        <5> QED BY <5>2 DEF d
      <4> QED BY <2>1, <2>2, <4>1, Halves
    <3>3. size = w /\ dx = (w - w) \div 2 /\ dy = (h - w) \div 2
      BY <2>1, <2>2 DEF Lesser, w, h
    <3>4. w = w + 2 * 0 /\ 0 \in Nat
      BY <2>1
    <3> HIDE DEF size, dx, dy
    <3> QED BY <2>1, <3>1, <3>2, <3>3, <3>4 DEF w, h
  <2>3. CASE ~(w <= h)
    <3>1. (h - h) \div 2 = 0
      BY <2>1
    <3>2. (w - h) \div 2 \in Nat /\ w = h + 2 * ((w - h) \div 2)
      BY <2>1, <2>3, Halves
    <3>3. size = h /\ dx = (w - h) \div 2 /\ dy = (h - h) \div 2
      BY <2>1, <2>3 DEF Lesser, w, h
    <3>4. h = h + 2 * 0 /\ 0 \in Nat
      BY <2>1
    <3> HIDE DEF size, dx, dy
    <3> QED BY <2>1, <3>1, <3>2, <3>3, <3>4 DEF w, h
  <2> QED BY <2>2, <2>3
<1>4. Squared(c) = Box(c.SRID, c.Xmin + dx, c.Ymin + dy, c.Xmin + dx + size, c.Ymin + dy + size)
  BY DEF Squared
<1> HIDE DEF size, dx, dy
<1>5. c.Xmin \in Int /\ c.Xmax \in Int /\ c.Ymin \in Int /\ c.Ymax \in Int
  BY <1>1 DEF Boxes
<1>6. /\ c.Xmax = c.Xmin + size + 2 * dx
      /\ c.Ymax = c.Ymin + size + 2 * dy
  BY <1>3, <1>5 DEF Width, Height
<1>7. /\ Squared(c).Xmin = c.Xmin + dx /\ Squared(c).Xmax = c.Xmin + dx + size
      /\ Squared(c).Ymin = c.Ymin + dy /\ Squared(c).Ymax = c.Ymin + dy + size
  BY <1>4 DEF Box
<1> QED BY <1>3, <1>5, <1>6, <1>7 DEF Inside

-----------------------------------------------------------------------------
(* Boxes of tiles and of queries.                                          *)

(* A tile of the grid lies in the square. *)
LEMMA TileInside ==
    ASSUME NEW w \in Boxes, Width(w) = Height(w), Width(w) \in Nat,
           NEW t, t.Zoom \in Nat, t.X \in Nat, t.Y \in Nat, IsValid(t)
    PROVE  /\ CalculateBounds(w, t) \in Boxes
           /\ Inside(CalculateBounds(w, t), w)
           /\ Width(CalculateBounds(w, t)) \in Nat
           /\ CalculateBounds(w, t).SRID = w.SRID
<1> DEFINE n == 2^t.Zoom
           tw == Width(w) \div n
<1>1. n \in Nat \ {0} /\ t.X + 1 <= n /\ t.Y + 1 <= n
  BY GridAssumption, PowersArePositive DEF IsValid
<1>2. tw \in Nat /\ tw * n <= Width(w)
  BY <1>1
<1>3. CalculateBounds(w, t) =
        Box(w.SRID, w.Xmin + tw * t.X, w.Ymax - tw * (t.Y + 1),
                    w.Xmin + tw * (t.X + 1), w.Ymax - tw * t.Y)
  BY DEF CalculateBounds
<1> HIDE DEF n, tw
<1>4. /\ tw * t.X \in Nat /\ tw * t.Y \in Nat
      /\ tw * (t.X + 1) = tw * t.X + tw
      /\ tw * (t.Y + 1) = tw * t.Y + tw
  BY <1>2
<1>5. tw * (t.X + 1) <= tw * n /\ tw * (t.Y + 1) <= tw * n
  BY <1>1, <1>2
<1>6. tw * t.X + tw <= Width(w) /\ tw * t.Y + tw <= Width(w)
  <2>1. tw * n \in Nat
    BY <1>1, <1>2
  <2> QED BY <1>2, <1>4, <1>5, <2>1
<1>7. CalculateBounds(w, t) =
        Box(w.SRID, w.Xmin + tw * t.X, w.Ymax - (tw * t.Y + tw),
                    w.Xmin + (tw * t.X + tw), w.Ymax - tw * t.Y)
  BY <1>3, <1>4
<1> DEFINE left == tw * t.X
           top == tw * t.Y
<1>8. /\ left \in Nat /\ top \in Nat
      /\ left + tw <= Width(w) /\ top + tw <= Width(w)
      /\ CalculateBounds(w, t) =
           Box(w.SRID, w.Xmin + left, w.Ymax - (top + tw), w.Xmin + (left + tw), w.Ymax - top)
  BY <1>4, <1>6, <1>7
<1> HIDE DEF left, top
<1>9. /\ w.SRID \in Nat /\ w.Xmin \in Int /\ w.Xmax \in Int
      /\ w.Ymin \in Int /\ w.Ymax \in Int
      /\ Width(w) = w.Xmax - w.Xmin /\ Width(w) = w.Ymax - w.Ymin
  BY DEF Boxes, Width, Height
<1> QED BY <1>2, <1>8, <1>9 DEF Box, Boxes, Inside, Width

(* Expanding a box inside the square holds the box and stays in it. *)
LEMMA ExpandInside ==
    ASSUME NEW w \in Boxes, NEW b \in Boxes, Inside(b, w), NEW size \in Nat
    PROVE  /\ Expand(b, size, w) \in Boxes
           /\ Inside(b, Expand(b, size, w))
           /\ Inside(Expand(b, size, w), w)
BY DEF Expand, Box, Boxes, Inside, Lesser, Greater

(* Expanding never makes anything but a box. *)
LEMMA ExpandBox ==
    ASSUME NEW w \in Boxes, NEW b \in Boxes, NEW size \in Int
    PROVE  Expand(b, size, w) \in Boxes
BY DEF Expand, Box, Boxes, Lesser, Greater

-----------------------------------------------------------------------------
(* Divisions without a rest, and slots of equal width.                     *)

(* A product that is divided again. *)
LEMMA DivideProduct ==
    ASSUME NEW n \in Nat \ {0}, NEW k \in Nat
    PROVE  (n * k) \div n = k
OBVIOUS

(* What divides without a rest multiplies back. *)
LEMMA Divided ==
    ASSUME NEW n \in Nat \ {0}, NEW s \in Nat, s % n = 0
    PROVE  s \div n \in Nat /\ s = n * (s \div n)
OBVIOUS

(* Multiplication keeps the order. *)
LEMMA TimesMonotone ==
    ASSUME NEW d \in Nat, NEW a \in Nat, NEW b \in Nat, a <= b
    PROVE  d * a <= d * b
OBVIOUS

(* Of n slots of width d, exactly one holds a place before their end. *)
LEMMA OneSlot ==
    ASSUME NEW d \in Nat \ {0}, NEW n \in Nat, NEW u \in Nat, u < d * n
    PROVE  /\ u \div d \in 0..(n - 1)
           /\ \A a \in Nat : d * a <= u /\ u < d * (a + 1) <=> a = u \div d
<1> DEFINE q == u \div d
<1>1. q \in Nat /\ d * q <= u /\ u < d * (q + 1)
  <2>1. q \in Nat
    OBVIOUS
  <2>2. d * q <= u
    OBVIOUS
  <2>3. u < d * q + d
    OBVIOUS
  <2> HIDE DEF q
  <2>4. d * (q + 1) = d * q + d
    BY <2>1
  <2> QED BY <2>1, <2>2, <2>3, <2>4
<1> HIDE DEF q
<1>2. ASSUME NEW a \in Nat, NEW b \in Nat, d * a <= u, u < d * (b + 1)
      PROVE  a <= b
  <2> SUFFICES ASSUME b + 1 <= a PROVE FALSE
    OBVIOUS
  <2>1. d * (b + 1) <= d * a
    BY TimesMonotone
  <2>2. d * (b + 1) \in Nat /\ d * a \in Nat
    OBVIOUS
  <2> QED BY <1>2, <2>1, <2>2
<1>3. q < n
  <2> SUFFICES ASSUME n <= q PROVE FALSE
    BY <1>1
  <2>1. d * n <= d * q
    BY <1>1, TimesMonotone
  <2>2. d * n \in Nat /\ d * q \in Nat
    BY <1>1
  <2> QED BY <1>1, <2>1, <2>2
<1>4. q \in 0..(n - 1)
  BY <1>1, <1>3
<1>5. ASSUME NEW a \in Nat, d * a <= u, u < d * (a + 1) PROVE a = q
  <2>1. a <= q /\ q <= a
    BY <1>1, <1>2, <1>5
  <2> QED BY <1>1, <2>1
<1> QED BY <1>1, <1>4, <1>5 DEF q

(* The tiles of a level divide the square without a rest, and those of the *)
(* next one are half as wide.                                              *)
TileWidth(w, z) == Width(w) \div 2^z

(* The width of the square is that of its tiles times their number. *)
LEMMA TileWidths ==
    ASSUME NEW c \in Configs, ~NotSquare(c), NEW z \in 0..MaxZoom
    PROVE  /\ TileWidth(Squared(c), z) \in Nat
           /\ Width(Squared(c)) = 2^z * TileWidth(Squared(c), z)
<1>1. Width(Squared(c)) = Lesser(Width(c), Height(c))
  <2>1. c \in Boxes /\ Width(c) \in Int /\ Height(c) \in Int
    BY GridAssumption DEF Boxes, Width, Height
  <2> DEFINE size == Lesser(Width(c), Height(c))
             xmin == c.Xmin + (Width(c) - size) \div 2
  <2>2. size \in Int /\ xmin \in Int
    BY <2>1 DEF Lesser, Boxes
  <2>3. Squared(c).Xmin = xmin /\ Squared(c).Xmax = xmin + size
    BY DEF Squared, Box
  <2> HIDE DEF size, xmin
  <2>4. Width(Squared(c)) = size
    BY <2>2, <2>3 DEF Width
  <2> QED BY <2>4 DEF size
<1>2. Width(Squared(c)) \in Nat
  BY SquaredBox
<1>3. 2^z \in Nat \ {0} /\ Width(Squared(c)) % 2^z = 0
  BY <1>1, PowersArePositive, LevelsAreExact
<1> DEFINE n == 2^z
           s == Width(Squared(c))
<1>4. n \in Nat \ {0} /\ s \in Nat /\ s % n = 0
  BY <1>2, <1>3
<1> HIDE DEF n, s
<1>5. s \div n \in Nat /\ s = n * (s \div n)
  BY <1>4, Divided
<1> QED BY <1>5 DEF n, s, TileWidth

(* Zooming in halves the tiles. *)
LEMMA TileWidthHalves ==
    ASSUME NEW c \in Configs, ~NotSquare(c), NEW z \in 0..MaxZoom, z < MaxZoom
    PROVE  TileWidth(Squared(c), z) = 2 * TileWidth(Squared(c), z + 1)
<1> DEFINE n == 2^z
           s == Width(Squared(c))
           k == TileWidth(Squared(c), z + 1)
<1>1. z + 1 \in 0..MaxZoom
  BY GridAssumption
<1>2. k \in Nat /\ s = 2^(z + 1) * k
  BY <1>1, TileWidths
<1>3. n \in Nat \ {0} /\ 2^(z + 1) = 2 * n
  BY PowersArePositive, PowersDouble
<1>4. s = 2 * n * k
  BY <1>2, <1>3
<1> HIDE DEF n, s, k
<1>5. s = n * (2 * k) /\ 2 * k \in Nat
  BY <1>2, <1>3, <1>4
<1>6. s \div n = 2 * k
  BY <1>3, <1>5, DivideProduct
<1> QED BY <1>6 DEF n, s, k, TileWidth

-----------------------------------------------------------------------------
(* The extent of a table.                                                  *)

(* sanitize leaves a box that reaches no further south than the pole       *)
(* clipped to the globe.                                                   *)
LEMMA Sanitized ==
    ASSUME NEW b \in Boxes, b.SRID = 4326
    PROVE  /\ sanitize(b) \in Boxes
           /\ b.Ymin >= -90 =>
                 sanitize(b) = Box(4326, Greater(b.Xmin, -180), b.Ymin,
                                         Lesser(b.Xmax, 180), Lesser(b.Ymax, 90))
BY DEF sanitize, Box, Boxes, Greater, Lesser

-----------------------------------------------------------------------------
(* The invariant.                                                          *)

(* The square is that of the configuration, computed before any request.   *)
SquareInv ==
    /\ globalServerBounds # NoBox =>
           ~NotSquare(config) /\ globalServerBounds = Squared(config)
    /\ outcome \notin {"starting", "exited"} => globalServerBounds # NoBox
    /\ outcome \in {"starting", "exited"} => queryBounds = NoBox /\ tile.Bounds = NoBox

(* The tile at hand lies in the grid, and its box is the one the grid      *)
(* gives it.                                                               *)
TileInv ==
    /\ outcome = "made" => tile.Bounds # NoBox
    /\ tile.Bounds # NoBox =>
           IsValid(tile) /\ tile.Bounds = CalculateBounds(globalServerBounds, tile)

(* The extent published is the one measured, sanitized. *)
ExtentInv ==
    extent # NoBox =>
        /\ measured \in Boxes /\ measured.SRID = 4326
        /\ extent = sanitize(measured)

GridInv == TypeOK /\ SquareInv /\ TileInv /\ ExtentInv /\ QueryCoversTile

(* GridInv holds before the square is computed. *)
LEMMA GridInit == Init => GridInv
BY GridAssumption
   DEF Init, GridInv, TypeOK, SquareInv, TileInv, ExtentInv, QueryCoversTile, NoTile

(* What a tile with a box says of the grid. *)
LEMMA TileOfGrid ==
    ASSUME GridInv, tile.Bounds # NoBox
    PROVE  /\ config \in Configs /\ ~NotSquare(config) /\ globalServerBounds = Squared(config)
           /\ globalServerBounds \in Boxes
           /\ Width(globalServerBounds) = Height(globalServerBounds)
           /\ Width(globalServerBounds) \in Nat
           /\ tile.Zoom \in 0..MaxZoom /\ tile.X \in Nat /\ tile.Y \in Nat /\ IsValid(tile)
           /\ tile.Bounds = CalculateBounds(globalServerBounds, tile)
           /\ tile.Bounds \in Boxes
           /\ Inside(tile.Bounds, globalServerBounds)
           /\ Width(tile.Bounds) \in Nat
<1>1. /\ config \in Configs /\ ~NotSquare(config) /\ globalServerBounds = Squared(config)
  BY DEF GridInv, TypeOK, SquareInv
<1>2. /\ globalServerBounds \in Boxes
      /\ Width(globalServerBounds) = Height(globalServerBounds)
      /\ Width(globalServerBounds) \in Nat
  BY <1>1, SquaredBox
<1>3. /\ tile.Zoom \in 0..MaxZoom /\ tile.X \in Nat /\ tile.Y \in Nat /\ IsValid(tile)
      /\ tile.Bounds = CalculateBounds(globalServerBounds, tile)
  BY DEF GridInv, TypeOK, TileInv, IsValid
<1>4. tile.Zoom \in Nat
  BY <1>3, GridAssumption
<1> QED BY <1>1, <1>2, <1>3, <1>4, TileInside

(* makeTile gives an address its box, or refuses it. *)
LEMMA GridMake ==
    ASSUME GridInv, NEW z \in Addresses, NEW x \in Addresses, NEW y \in Addresses,
           makeTile(z, x, y)
    PROVE  GridInv'
<1> DEFINE t == [Zoom |-> Atoi(z), X |-> Atoi(x), Y |-> Atoi(y), Bounds |-> NoBox]
<1>1. t.Zoom \in 0..MaxInt /\ t.X \in 0..MaxInt /\ t.Y \in 0..MaxInt
  BY GridAssumption DEF Atoi, Lesser
<1>2. /\ outcome \notin {"starting", "exited"} /\ queryBounds' = NoBox
      /\ measured' = NoBox /\ extent' = NoBox
      /\ UNCHANGED <<config, globalServerBounds>>
  BY DEF makeTile, Idle
<1>3. /\ globalServerBounds # NoBox /\ globalServerBounds = Squared(config)
      /\ config \in Configs /\ ~NotSquare(config)
  BY <1>2 DEF GridInv, TypeOK, SquareInv
<1>4. SquareInv' /\ ExtentInv' /\ QueryCoversTile'
  <2>1. outcome' \in {"badrequest", "made"}
    BY DEF makeTile, RejectAddress, PlaceTile
  <2> QED BY <1>2, <1>3, <2>1 DEF SquareInv, ExtentInv, QueryCoversTile
<1>5. CASE RejectAddress(t)
  <2>1. tile' = t /\ outcome' = "badrequest" /\ tile'.Bounds = NoBox
    BY <1>5 DEF RejectAddress
  <2>2. TypeOK'
    BY <1>1, <1>2, <2>1 DEF GridInv, TypeOK
  <2> QED BY <1>4, <2>1, <2>2 DEF GridInv, TileInv
<1>6. CASE PlaceTile(t)
  <2> DEFINE b == CalculateBounds(globalServerBounds, t)
  <2>1. /\ outcome' = "made" /\ IsValid(t)
        /\ tile' = [Zoom |-> t.Zoom, X |-> t.X, Y |-> t.Y, Bounds |-> b]
    BY <1>6 DEF PlaceTile
  <2>2. b \in Boxes
    <3>1. /\ globalServerBounds \in Boxes
          /\ Width(globalServerBounds) = Height(globalServerBounds)
          /\ Width(globalServerBounds) \in Nat
      BY <1>3, SquaredBox
    <3>2. t.Zoom \in Nat /\ t.X \in Nat /\ t.Y \in Nat
      BY <1>1, GridAssumption
    <3> HIDE DEF t
    <3> QED BY <2>1, <3>1, <3>2, TileInside
  <2> HIDE DEF b, t
  <2>3. /\ tile'.Zoom = t.Zoom /\ tile'.X = t.X /\ tile'.Y = t.Y /\ tile'.Bounds = b
        /\ tile' \in [Zoom : 0..MaxInt, X : 0..MaxInt, Y : 0..MaxInt, Bounds : Boxes \cup {NoBox}]
    BY <1>1, <2>1, <2>2
  <2>4. TypeOK'
    BY <1>2, <2>1, <2>3 DEF GridInv, TypeOK
  <2>5. IsValid(tile') /\ b = CalculateBounds(globalServerBounds', tile')
    BY <1>2, <2>1, <2>3 DEF IsValid, CalculateBounds, b
  <2>6. TileInv'
    BY <2>3, <2>5, <2>2, GridAssumption DEF TileInv
  <2> QED BY <1>4, <2>4, <2>6 DEF GridInv
<1> QED BY <1>5, <1>6 DEF makeTile

(* requestSQL queries a tile from a box that holds it. *)
LEMMA GridQuery ==
    ASSUME GridInv, NEW b \in Buffers, NEW r \in Resolutions, requestSQL(b, r)
    PROVE  GridInv'
<1> DEFINE q == QueryBox(tile.Bounds, b, r, globalServerBounds)
<1>1. /\ outcome = "made" /\ outcome' \in {"error", "queried"} /\ queryBounds' = q
      /\ UNCHANGED <<config, globalServerBounds, tile, measured, extent>>
  BY DEF requestSQL
<1>2. tile.Bounds # NoBox
  BY <1>1 DEF GridInv, TileInv
<1>3. /\ globalServerBounds \in Boxes /\ tile.Bounds \in Boxes
      /\ Inside(tile.Bounds, globalServerBounds) /\ Width(tile.Bounds) \in Nat
  BY <1>2, TileOfGrid
<1>4. b \in Nat /\ r \in Nat
  BY GridAssumption
<1>5. /\ q \in Boxes \cup {NoBox}
      /\ q # NoBox => Inside(tile.Bounds, q) /\ Inside(q, globalServerBounds)
  <2>1. CASE r > 0
    <3>1. Width(tile.Bounds) * b \in Nat
      BY <1>3, <1>4
    <3>2. (Width(tile.Bounds) * b) \div r \in Nat
      <4> DEFINE p == Width(tile.Bounds) * b
      <4> HIDE DEF p
      <4>1. p \in Nat => p \div r \in Nat
        BY <1>4, <2>1
      <4> QED BY <3>1, <4>1 DEF p
    <3>3. q = Expand(tile.Bounds, (Width(tile.Bounds) * b) \div r, globalServerBounds)
      BY <1>4, <2>1 DEF QueryBox
    <3> QED BY <1>3, <3>2, <3>3, ExpandInside
  <2>2. CASE r = 0 /\ b > 0
    <3>1. q = [globalServerBounds EXCEPT !.SRID = tile.Bounds.SRID]
      BY <1>4, <2>2 DEF QueryBox
    <3> QED BY <1>3, <3>1 DEF Inside, Boxes
  <2>3. CASE r = 0 /\ b = 0
    BY <2>3 DEF QueryBox
  <2> QED BY <1>4, <2>1, <2>2, <2>3
<1> HIDE DEF q
<1>6. TypeOK'
  BY <1>1, <1>5 DEF GridInv, TypeOK
<1>7. SquareInv' /\ TileInv' /\ ExtentInv' /\ QueryCoversTile'
  BY <1>1, <1>2, <1>5
     DEF GridInv, SquareInv, TileInv, IsValid, ExtentInv, QueryCoversTile
<1> QED BY <1>6, <1>7 DEF GridInv

(* GetBounds publishes what it measured, sanitized. *)
LEMMA GridDescribe ==
    ASSUME GridInv, NEW est \in Extents \cup {NoBox}, NEW ex \in Extents \cup {NoBox},
           GetBounds(est, ex)
    PROVE  GridInv'
<1>1. /\ outcome \notin {"starting", "exited"} /\ outcome' = "described"
      /\ tile' = NoTile /\ queryBounds' = NoBox /\ extent' = sanitize(measured')
      /\ UNCHANGED <<config, globalServerBounds>>
  BY DEF GetBounds, Idle
<1>2. measured' \in Boxes /\ measured'.SRID = 4326
  BY GridAssumption DEF GetBounds, GetBoundsExact, Globe, Box, Boxes
<1>3. extent' \in Boxes
  BY <1>1, <1>2, Sanitized
<1>4. TypeOK'
  BY <1>1, <1>2, <1>3, GridAssumption DEF GridInv, TypeOK, NoTile
<1>5. SquareInv' /\ TileInv' /\ ExtentInv' /\ QueryCoversTile'
  BY <1>1, <1>2 DEF GridInv, SquareInv, TileInv, ExtentInv, QueryCoversTile, NoTile
<1> QED BY <1>4, <1>5 DEF GridInv

(* Every step keeps GridInv. *)
LEMMA GridNext == GridInv /\ [Next]_vars => GridInv'
<1> SUFFICES ASSUME GridInv, [Next]_vars PROVE GridInv'
  OBVIOUS
<1>1. CASE getServerBounds
  <2>1. /\ outcome = "starting" /\ outcome' = "idle"
        /\ config \in Configs /\ ~NotSquare(config)
        /\ globalServerBounds' = Squared(config)
        /\ UNCHANGED <<config, tile, queryBounds, measured, extent>>
    BY <1>1 DEF getServerBounds, GridInv, TypeOK
  <2>2. Squared(config) \in Boxes /\ Squared(config) # NoBox
    BY <2>1, SquaredBox, GridAssumption
  <2>3. TypeOK'
    BY <2>1, <2>2 DEF GridInv, TypeOK
  <2>4. SquareInv' /\ TileInv' /\ ExtentInv' /\ QueryCoversTile'
    BY <2>1, <2>2 DEF GridInv, SquareInv, TileInv, ExtentInv, QueryCoversTile
  <2> QED BY <2>3, <2>4 DEF GridInv
<1>2. CASE RefuseConfig
  <2>1. /\ outcome = "starting" /\ outcome' = "exited"
        /\ UNCHANGED <<config, globalServerBounds, tile, queryBounds, measured, extent>>
    BY <1>2 DEF RefuseConfig
  <2> QED BY <2>1 DEF GridInv, TypeOK, SquareInv, TileInv, IsValid, ExtentInv, QueryCoversTile
<1>3. ASSUME NEW z \in Addresses, NEW x \in Addresses, NEW y \in Addresses, makeTile(z, x, y)
      PROVE  GridInv'
  BY <1>3, GridMake
<1>4. ASSUME NEW b \in Buffers, NEW r \in Resolutions, requestSQL(b, r)
      PROVE  GridInv'
  BY <1>4, GridQuery
<1>5. ASSUME NEW est \in Extents \cup {NoBox}, NEW ex \in Extents \cup {NoBox},
             GetBounds(est, ex)
      PROVE  GridInv'
  BY <1>5, GridDescribe
<1>6. CASE UNCHANGED vars
  BY <1>6 DEF vars, GridInv, TypeOK, SquareInv, TileInv, IsValid, ExtentInv, QueryCoversTile
<1> QED BY <1>1, <1>2, <1>3, <1>4, <1>5, <1>6 DEF Next

(* GridInv holds in every state. *)
LEMMA GridAlways == Spec => []GridInv
BY GridInit, GridNext, PTL DEF Spec

-----------------------------------------------------------------------------
(* The theorems.                                                           *)

(* Every variable holds a value of its Go type: the boxes the program      *)
(* computes are boxes, whatever addresses, buffers and extents it is given *)
(* (bounds.go, tile.go).                                                   *)
THEOREM TypeCorrect == Spec => []TypeOK
<1>1. GridInv => TypeOK
  BY DEF GridInv
<1> QED BY <1>1, GridAlways, PTL

(* The square that is tiled lies within the configured bounds, about the   *)
(* same centre, for every configuration the server accepts                 *)
(* (getServerBounds).                                                      *)
THEOREM SquareAlwaysCentred == Spec => []SquareIsCentred
<1>1. GridInv => SquareIsCentred
  BY SquaredBox, SquaredCentred DEF GridInv, TypeOK, SquareInv, SquareIsCentred
<1> QED BY <1>1, GridAlways, PTL

(* The box a tile is queried from holds the tile and lies in the square,   *)
(* at every zoom level, for every buffer and resolution (Expand).          *)
THEOREM QueryAlwaysCoversTile == Spec => []QueryCoversTile
<1>1. GridInv => QueryCoversTile
  BY DEF GridInv
<1> QED BY <1>1, GridAlways, PTL

(* The extent a detail request publishes is that of the data, clipped to   *)
(* the globe, for every extent that does not reach south of the pole       *)
(* (GetBounds, sanitize).                                                  *)
THEOREM ExtentAlwaysClipped == Spec => []ExtentIsClipped
<1>1. GridInv => ExtentIsClipped
  BY Sanitized DEF GridInv, ExtentInv, ExtentIsClipped
<1> QED BY <1>1, GridAlways, PTL

(* At every zoom level the boxes of the four tiles below a tile make up    *)
(* its box, in the order of the XYZ scheme, as long as the levels divide   *)
(* the square without a rest (CalculateBounds).                            *)
THEOREM ChildrenAlwaysMakeUpTheirParent == Spec => []ChildrenMakeUpTheirParent
<1>1. ASSUME GridInv, tile.Bounds # NoBox, tile.Zoom < MaxZoom
      PROVE  LET child(i, j) == At(tile.Zoom + 1, 2 * tile.X + i, 2 * tile.Y + j)
                 b == tile.Bounds
             IN  /\ child(0, 0).Xmin = b.Xmin /\ child(0, 0).Ymax = b.Ymax
                 /\ child(1, 1).Xmax = b.Xmax /\ child(1, 1).Ymin = b.Ymin
                 /\ child(0, 0).Xmax = child(1, 0).Xmin
                 /\ child(0, 0).Ymin = child(0, 1).Ymax
  <2> DEFINE w == globalServerBounds
             k == TileWidth(w, tile.Zoom + 1)
             x == tile.X
             y == tile.Y
             child(i, j) == At(tile.Zoom + 1, 2 * x + i, 2 * y + j)
  <2>1. /\ w \in Boxes /\ x \in Nat /\ y \in Nat /\ tile.Zoom \in 0..MaxZoom
        /\ config \in Configs /\ ~NotSquare(config) /\ w = Squared(config)
        /\ tile.Bounds = CalculateBounds(w, tile)
    BY <1>1, TileOfGrid
  <2>2. tile.Zoom + 1 \in 0..MaxZoom
    BY <1>1, <2>1, GridAssumption
  <2>3. k \in Nat /\ TileWidth(w, tile.Zoom) = 2 * k
    BY <1>1, <2>1, <2>2, TileWidths, TileWidthHalves
  <2>4. tile.Bounds = Box(w.SRID, w.Xmin + (2 * k) * x, w.Ymax - (2 * k) * (y + 1),
                                  w.Xmin + (2 * k) * (x + 1), w.Ymax - (2 * k) * y)
    BY <2>1, <2>3 DEF CalculateBounds, TileWidth
  <2>5. \A i, j \in {0, 1} :
           child(i, j) = Box(w.SRID, w.Xmin + k * (2 * x + i), w.Ymax - k * (2 * y + j + 1),
                                     w.Xmin + k * (2 * x + i + 1), w.Ymax - k * (2 * y + j))
    BY DEF At, CalculateBounds, TileWidth
  <2>6. w.Xmin \in Int /\ w.Ymax \in Int
    BY <2>1 DEF Boxes
  <2> HIDE DEF w, k, x, y, child
  <2>7. \A n \in Nat : (2 * k) * n = k * (2 * n)
    BY <2>3
  <2>8. /\ k * (2 * x) = (2 * k) * x /\ k * (2 * y) = (2 * k) * y
        /\ k * (2 * x + 2) = (2 * k) * (x + 1)
        /\ k * (2 * y + 2) = (2 * k) * (y + 1)
    <3>1. 2 * (x + 1) = 2 * x + 2 /\ 2 * (y + 1) = 2 * y + 2
      BY <2>1
    <3> QED BY <2>1, <2>7, <3>1
  <2>9. /\ 2 * x + 0 = 2 * x /\ 2 * x + 1 + 1 = 2 * x + 2 /\ 2 * x + 0 + 1 = 2 * x + 1
        /\ 2 * y + 0 = 2 * y /\ 2 * y + 1 + 1 = 2 * y + 2 /\ 2 * y + 0 + 1 = 2 * y + 1
    BY <2>1
  <2>10. /\ child(0, 0).Xmin = tile.Bounds.Xmin /\ child(0, 0).Ymax = tile.Bounds.Ymax
         /\ child(1, 1).Xmax = tile.Bounds.Xmax /\ child(1, 1).Ymin = tile.Bounds.Ymin
    BY <2>4, <2>5, <2>8, <2>9 DEF Box
  <2>11. child(0, 0).Xmax = child(1, 0).Xmin /\ child(0, 0).Ymin = child(0, 1).Ymax
    BY <2>5, <2>9 DEF Box
  <2> QED BY <2>10, <2>11 DEF child, x, y
<1>2. GridInv => ChildrenMakeUpTheirParent
  BY <1>1 DEF ChildrenMakeUpTheirParent
<1> QED BY <1>2, GridAlways, PTL

(* Clients can name every tile of every level.                             *)
EveryTileHasAnAddress == \A z \in 0..MaxZoom : 0..(2^z - 1) \subseteq Addresses

(* The server is given bounds that have an area.  The code does not ask    *)
(* for one: bounds of no width are as wide as high, and are accepted.      *)
BoundsHaveAnArea == \A c \in Configs : ~NotSquare(c) => Width(Squared(c)) > 0

(* The tile of level z that holds the upper left corner of the tile at     *)
(* hand: its column and row are those of the corner, counted in tiles of   *)
(* that level.                                                             *)
LEMMA PlaceHasOneTile ==
    ASSUME EveryTileHasAnAddress, BoundsHaveAnArea, GridInv, tile.Bounds # NoBox,
           NEW z \in 0..MaxZoom
    PROVE  \E col, row :
               {a \in Addresses \X Addresses :
                   LET x == Atoi(a[1])
                       y == Atoi(a[2])
                   IN  /\ IsValid([Zoom |-> z, X |-> x, Y |-> y])
                       /\ Holds(At(z, x, y), tile.Bounds.Xmin, tile.Bounds.Ymax)}
               = {<<col, row>>}
<1> DEFINE w == globalServerBounds
           n == 2^z
           d == TileWidth(w, z)
           m == 2^tile.Zoom
           e == TileWidth(w, tile.Zoom)
           u == e * tile.X
           v == e * tile.Y
<1>1. /\ w \in Boxes /\ config \in Configs /\ ~NotSquare(config) /\ w = Squared(config)
      /\ tile.Zoom \in 0..MaxZoom /\ tile.X \in Nat /\ tile.Y \in Nat /\ IsValid(tile)
      /\ tile.Bounds = CalculateBounds(w, tile)
  BY TileOfGrid
<1>2. /\ Width(w) \in Nat \ {0} /\ n \in Nat \ {0} /\ m \in Nat \ {0}
      /\ d \in Nat /\ Width(w) = n * d /\ e \in Nat /\ Width(w) = m * e
  <2>1. Width(w) \in Nat /\ Width(w) > 0
    BY <1>1, SquaredBox DEF BoundsHaveAnArea
  <2>2. n \in Nat \ {0} /\ m \in Nat \ {0}
    BY <1>1, PowersArePositive
  <2>3. d \in Nat /\ Width(w) = n * d
    BY <1>1, TileWidths
  <2>4. e \in Nat /\ Width(w) = m * e
    BY <1>1, TileWidths
  <2> QED BY <2>1, <2>2, <2>3, <2>4
<1>3. tile.X \in 0..(m - 1) /\ tile.Y \in 0..(m - 1)
  BY <1>1 DEF IsValid
<1>4. tile.Bounds.Xmin = w.Xmin + u /\ tile.Bounds.Ymax = w.Ymax - v
  BY <1>1 DEF CalculateBounds, Box, TileWidth
<1>5. ASSUME NEW x \in Nat, NEW y \in Nat
      PROVE  At(z, x, y) = Box(w.SRID, w.Xmin + d * x, w.Ymax - d * (y + 1),
                                       w.Xmin + d * (x + 1), w.Ymax - d * y)
  BY DEF At, CalculateBounds, TileWidth
<1>6. w.Xmin \in Int /\ w.Ymax \in Int
  BY <1>1 DEF Boxes
<1>7. \A x \in 0..(n - 1) : x \in Addresses /\ x \in Nat
  BY <1>2 DEF EveryTileHasAnAddress
<1>8. Addresses \subseteq Nat
  BY GridAssumption
<1>9. ASSUME NEW x \in Nat, NEW y \in Nat
      PROVE  IsValid([Zoom |-> z, X |-> x, Y |-> y]) <=> x \in 0..(n - 1) /\ y \in 0..(n - 1)
  BY DEF IsValid
<1>a. ASSUME NEW b \in Nat, NEW c \in 0..(n - 1) PROVE Atoi(b) = c <=> b = c
  <2>1. MaxInt \in Nat /\ n <= MaxInt /\ n \in Nat /\ c < n
    BY <1>2, GridAssumption, LevelsFitAnInt
  <2> HIDE DEF n
  <2>2. CASE b <= MaxInt
    BY <2>2 DEF Atoi, Lesser
  <2>3. CASE ~(b <= MaxInt)
    <3>1. Atoi(b) = MaxInt
      BY <2>3 DEF Atoi, Lesser
    <3> QED BY <2>1, <2>3, <3>1
  <2> QED BY <2>2, <2>3
<1>b. \A b \in Nat : Atoi(b) \in Nat
  BY GridAssumption DEF Atoi, Lesser
<1> HIDE DEF n, d, m, e
<1>10. d \in Nat \ {0} /\ n * d = d * n
  <2>1. d # 0
    BY <1>2
  <2> QED BY <1>2, <2>1
<1>11. u \in Nat /\ v \in Nat /\ u < d * n /\ v < d * n
  <2>1. ASSUME NEW i \in 0..(m - 1) PROVE e * i \in Nat /\ e * i < Width(w)
    <3>1. e # 0
      BY <1>2
    <3>2. i + 1 \in Nat /\ i + 1 <= m /\ i \in Nat
      BY <1>2
    <3>3. e * (i + 1) <= e * m
      BY <1>2, <3>2, TimesMonotone
    <3>4. e * (i + 1) = e * i + e /\ e * i \in Nat /\ e * m = m * e
      BY <1>2, <3>2
    <3> QED BY <1>2, <3>1, <3>3, <3>4
  <2> QED BY <1>2, <1>3, <1>10, <2>1
<1> HIDE DEF u, v
<1> DEFINE col == u \div d
           row == v \div d
<1>12. /\ col \in 0..(n - 1) /\ row \in 0..(n - 1)
       /\ \A x \in Nat : d * x <= u /\ u < d * (x + 1) <=> x = col
       /\ \A y \in Nat : d * y <= v /\ v < d * (y + 1) <=> y = row
  BY <1>2, <1>10, <1>11, OneSlot
<1> HIDE DEF col, row
<1>13. ASSUME NEW x \in Nat, NEW y \in Nat
       PROVE  Holds(At(z, x, y), tile.Bounds.Xmin, tile.Bounds.Ymax) <=> x = col /\ y = row
  <2>1. /\ At(z, x, y).Xmin = w.Xmin + d * x /\ At(z, x, y).Xmax = w.Xmin + d * (x + 1)
        /\ At(z, x, y).Ymin = w.Ymax - d * (y + 1) /\ At(z, x, y).Ymax = w.Ymax - d * y
    BY <1>5 DEF Box
  <2> DEFINE x0 == d * x
             x1 == d * (x + 1)
             y0 == d * y
             y1 == d * (y + 1)
             xmin == w.Xmin
             ymax == w.Ymax
  <2>2. x0 \in Nat /\ x1 \in Nat /\ y0 \in Nat /\ y1 \in Nat /\ xmin \in Int /\ ymax \in Int
    BY <1>6, <1>10
  <2>3. Holds(At(z, x, y), tile.Bounds.Xmin, tile.Bounds.Ymax)
          <=> /\ xmin + x0 <= xmin + u /\ xmin + u < xmin + x1
              /\ ymax - y1 < ymax - v /\ ymax - v <= ymax - y0
    BY <1>4, <2>1 DEF Holds
  <2>4. /\ x0 <= u /\ u < x1 <=> x = col
        /\ y0 <= v /\ v < y1 <=> y = row
    BY <1>12
  <2> HIDE DEF x0, x1, y0, y1, xmin, ymax
  <2>5. /\ xmin + x0 <= xmin + u <=> x0 <= u
        /\ xmin + u < xmin + x1 <=> u < x1
        /\ ymax - y1 < ymax - v <=> v < y1
        /\ ymax - v <= ymax - y0 <=> y0 <= v
    BY <2>2, <1>11
  <2> QED BY <2>3, <2>4, <2>5
<1>14. col \in Addresses /\ row \in Addresses /\ col \in Nat /\ row \in Nat
  BY <1>7, <1>12
<1>15. ASSUME NEW a \in Addresses \X Addresses
       PROVE  LET x == Atoi(a[1])
                  y == Atoi(a[2])
              IN  /\ IsValid([Zoom |-> z, X |-> x, Y |-> y])
                  /\ Holds(At(z, x, y), tile.Bounds.Xmin, tile.Bounds.Ymax)
                  <=> a = <<col, row>>
  <2>1. a[1] \in Nat /\ a[2] \in Nat /\ a = <<a[1], a[2]>>
    <3>1. PICK x, y \in Addresses : a = <<x, y>>
      OBVIOUS
    <3> QED BY <3>1, <1>8
  <2>2. a = <<col, row>> <=> a[1] = col /\ a[2] = row
    BY <2>1
  <2> DEFINE x == Atoi(a[1])
             y == Atoi(a[2])
  <2>3. x \in Nat /\ y \in Nat /\ (x = col <=> a[1] = col) /\ (y = row <=> a[2] = row)
    BY <1>12, <1>a, <1>b, <2>1
  <2> HIDE DEF x, y
  <2>4. /\ IsValid([Zoom |-> z, X |-> x, Y |-> y])
        /\ Holds(At(z, x, y), tile.Bounds.Xmin, tile.Bounds.Ymax)
        <=> x = col /\ y = row
    BY <1>9, <1>12, <1>13, <2>3
  <2> QED BY <2>2, <2>3, <2>4 DEF x, y
<1>16. <<col, row>> \in Addresses \X Addresses
  BY <1>14
<1> QED BY <1>15, <1>16

(* Every place of the square has exactly one tile at every zoom level: the *)
(* levels neither overlap nor leave a gap, and of all the numbers a client *)
(* may write, too large for an int or not, makeTile accepts one pair       *)
(* (Atoi, IsValid, CalculateBounds).                                       *)
THEOREM EveryPlaceAlwaysHasOneTile ==
    ASSUME EveryTileHasAnAddress, BoundsHaveAnArea
    PROVE  Spec => []EveryPlaceHasOneTile
<1>1. ASSUME GridInv, tile.Bounds # NoBox, NEW z \in Addresses \cap (0..MaxZoom)
      PROVE  Cardinality({a \in Addresses \X Addresses :
                 LET x == Atoi(a[1])
                     y == Atoi(a[2])
                 IN  /\ IsValid([Zoom |-> z, X |-> x, Y |-> y])
                     /\ Holds(At(z, x, y), tile.Bounds.Xmin, tile.Bounds.Ymax)}) = 1
  <2> DEFINE holders == {a \in Addresses \X Addresses :
                 LET x == Atoi(a[1])
                     y == Atoi(a[2])
                 IN  /\ IsValid([Zoom |-> z, X |-> x, Y |-> y])
                     /\ Holds(At(z, x, y), tile.Bounds.Xmin, tile.Bounds.Ymax)}
  <2>1. \E col, row : holders = {<<col, row>>}
    BY <1>1, EveryTileHasAnAddress, BoundsHaveAnArea, PlaceHasOneTile
  <2> HIDE DEF holders
  <2>2. Cardinality(holders) = 1
    BY <2>1, FS_Singleton
  <2> QED BY <2>2 DEF holders
<1>2. GridInv => EveryPlaceHasOneTile
  BY <1>1 DEF EveryPlaceHasOneTile
<1> QED BY <1>2, GridAlways, PTL
=============================================================================
