----------------------------- MODULE MCTileGrid -----------------------------
(* TileGrid on three levels of a grid of 1600 units, every address up to    *)
(* one past the last tile, the first beyond the largest int, and the one    *)
(* that would be 0 if addresses wrapped.                                    *)
EXTENDS TileGrid

(* A square; one percent too wide, one percent too high, off the origin;   *)
(* and a little more than one percent too high.                            *)
MCConfigs == {
    Box(3857, -800, -800, 800, 800),
    Box(3857, -808, 0, 808, 1600),
    Box(3031, 100, -400, 1700, 1216),
    Box(3857, 0, 0, 1600, 1618)}
MCAddresses == 0..5 \cup {MaxInt + 1, 2 * (MaxInt + 1)}
MCExtents == {Box(4326, -10, -20, 30, 40), Box(4326, -190, -20, 30, 95), Box(4326, -10, -95, 190, 40)}
=============================================================================
