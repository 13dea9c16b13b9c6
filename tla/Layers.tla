------------------------------- MODULE Layers -------------------------------
(***************************************************************************)
(* What a layer directory is, for the modules that keep one (layer.go) and *)
(* the one that says what keeping it promises.                             *)
(*                                                                         *)
(* The database publishes catalogues: the tables and the functions that    *)
(* can be served, each under its identifier "schema.name".  A table and a  *)
(* function may carry the same identifier.  Catalogues are numbered from 1 *)
(* in the order in which the database goes through them; the number stands *)
(* for everything a catalogue says of a layer (columns, SRID, arguments).  *)
(***************************************************************************)
EXTENDS Naturals, Sequences

CONSTANT Ids        \* identifiers of layers

Catalog == [tables : SUBSET Ids, functions : SUBSET Ids]

(* A Layer read from the database, tagged with the catalogue it was read   *)
(* from; "none" is the absence of a key.                                   *)
LayerKinds == {"table", "function"}
ReadLayer == [kind : LayerKinds, rev : Nat]
NoLayer == [kind |-> "none", rev |-> 0]

TableLayer(v) == [kind |-> "table", rev |-> v]
FunctionLayer(v) == [kind |-> "function", rev |-> v]

(* A directory maps every identifier to its layer or to NoLayer.           *)
Directory == [Ids -> ReadLayer \cup {NoLayer}]
EmptyDirectory == [i \in Ids |-> NoLayer]

(* Tables are inserted first and functions after them, so that a function  *)
(* takes an identifier away from a table.                                  *)
Overlay(tables, tv, functions, fv) ==
    [i \in Ids |-> IF i \in functions THEN FunctionLayer(fv)
                   ELSE IF i \in tables THEN TableLayer(tv)
                   ELSE NoLayer]

(* The directory a load builds that reads the tables of catalogue tv and   *)
(* the functions of catalogue fv; tv = 0 when it has no table list.        *)
ReadAt(h, tv, fv) ==
    Overlay(IF tv = 0 THEN {} ELSE h[tv].tables, tv, h[fv].functions, fv)

(* d is a directory that one load may have built from the catalogues of h. *)
Whole(d, h) ==
    \/ d = EmptyDirectory
    \/ \E fv \in 1..Len(h) : \E tv \in 0..fv : d = ReadAt(h, tv, fv)
=============================================================================
