--------------------------- MODULE LayerDirectory ---------------------------
(***************************************************************************)
(* What the layer registry of layer.go promises its users: the directory   *)
(* is replaced as a whole, by what one load read from the database, and a  *)
(* listing is a copy of the directory at one instant.                      *)
(*                                                                         *)
(* It promises nothing about the order of two loads: the directory may go  *)
(* back to an older catalogue.                                             *)
(***************************************************************************)
EXTENDS Layers

CONSTANTS
    Requests,       \* handlers that may hold a listing
    Catalogs,       \* the catalogues the database goes through
    NoListing,      \* a handler without a listing
    MaxDDL          \* bound: changes of the catalogue

VARIABLES
    history,        \* catalogues so far, the last one is the database's
    directory,      \* the directory everyone sees
    seen            \* the listing each handler has taken, if any

dirVars == <<history, directory, seen>>

DirInit ==
    /\ history \in {<<c>> : c \in Catalogs}
    /\ directory = EmptyDirectory
    /\ seen = [r \in Requests |-> NoListing]

(* Somebody creates, alters or drops tables and functions.                 *)
DirChange ==
    /\ Len(history) <= MaxDDL
    /\ \E c \in Catalogs : history' = Append(history, c)
    /\ UNCHANGED <<directory, seen>>

(* A load replaces the directory.                                          *)
DirReplace ==
    /\ \E fv \in 1..Len(history) : \E tv \in 0..fv :
           directory' = ReadAt(history, tv, fv)
    /\ UNCHANGED <<history, seen>>

(* A handler takes its listing.                                            *)
DirList(r) ==
    /\ seen' = [seen EXCEPT ![r] = directory]
    /\ UNCHANGED <<history, directory>>

(* A handler starts over.                                                  *)
DirForget(r) ==
    /\ seen' = [seen EXCEPT ![r] = NoListing]
    /\ UNCHANGED <<history, directory>>

(* The process dies: its memory, and the requests in it, are gone.         *)
DirLost ==
    /\ directory' = EmptyDirectory
    /\ seen' = [r \in Requests |-> NoListing]
    /\ UNCHANGED history

DirNext ==
    \/ DirChange
    \/ DirReplace
    \/ \E r \in Requests : DirList(r) \/ DirForget(r)
    \/ DirLost

DirSpec == DirInit /\ [][DirNext]_dirVars
=============================================================================
