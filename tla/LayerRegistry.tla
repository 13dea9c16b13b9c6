--------------------------- MODULE LayerRegistry ----------------------------
(***************************************************************************)
(* The in-memory layer registry of pg_tileserv (layer.go) and the handlers *)
(* that share it (main.go).                                                *)
(*                                                                         *)
(* globalLayers is a Go map.  main fills it before serving; every list,    *)
(* detail and preview request reads the catalogue of the database again    *)
(* and refills it under globalLayersMutex, while getLayer reads it without *)
(* the mutex.  The handlers run in goroutines, so their steps interleave.  *)
(*                                                                         *)
(* A write to the map is not one step.  The runtime raises a flag while it *)
(* places the key ("insert"), lowers it, and the two words of the Layer    *)
(* interface, its type and its data, are stored after that ("store").  A   *)
(* read that meets the flag kills the process; a read between the flag and *)
(* the stores may see any mix of the old and the new words.                *)
(*                                                                         *)
(* A lookup is one step: getLayer loads the map's address and reads the    *)
(* map, and no write to a map follows its replacement, so what it finds    *)
(* was in globalLayers at one moment of the call.                          *)
(***************************************************************************)
EXTENDS Layers, FiniteSets

CONSTANTS
    Requests,       \* goroutines serving requests
    Main,           \* the goroutine of main()
    NoProc,         \* nobody holds the mutex
    Asked,          \* the requests clients send
    Catalogs,       \* the catalogues the database goes through
    Unreadable,     \* functions whose catalogue row getFunctionLayers cannot decode
    NoListing,      \* a handler without a listing
    MaxDDL,         \* bound: changes of the catalogue
    MaxFaults       \* bound: database, network or file errors

Procs == Requests \cup {Main}

(* A client request: the route, the layer names of its path, and whether   *)
(* the tile address lies in the grid.                                      *)
RequestKinds == {"list", "detail", "preview", "tile"}
Request == [kind : RequestKinds, names : Seq(Ids), valid : BOOLEAN]
Startup == [kind |-> "start", names |-> <<>>, valid |-> TRUE]

ASSUME RegistryAssumption ==
    /\ Main \notin Requests
    /\ NoProc \notin Procs
    /\ Asked \subseteq Request
    /\ Catalogs \subseteq Catalog
    /\ Unreadable \subseteq Ids
    /\ NoListing \notin Directory
    /\ MaxDDL \in Nat
    /\ MaxFaults \in Nat

(* What a slot of the map may hold besides a layer that was read: nothing  *)
(* yet (both words zero), or words of two writes.  The rev of a torn layer *)
(* is that of the layer overwritten, 0 when its data word is zero.         *)
NilLayer == [kind |-> "nil", rev |-> 0]
TornLayer(old) == [kind |-> "torn", rev |-> old.rev]
SlotLayer == [kind : LayerKinds \cup {"none", "nil", "torn"}, rev : Nat]

NoSlot == [id |-> "none", layer |-> NoLayer]
NoLoad == [tables |-> {}, tv |-> 0, functions |-> {}, fv |-> 0]
NoAnswer == [status |-> "none", layers |-> <<>>]
Answer(s) == [status |-> s, layers |-> <<>>]
Statuses == {"none", "ok", "badrequest", "notfound", "error", "unknown", "aborted"}

VARIABLES
    status,         \* the process: "starting", "serving", "exited"
    history,        \* the catalogues so far, the last one is the database's
    globalLayers,   \* the map: Id to layer or NoLayer
    globalLayersMutex, \* the goroutine that holds the mutex, or NoProc
    pc,             \* where each goroutine is
    req,            \* the request it serves
    todo,           \* the layer names it has still to serve
    load,           \* the tables and functions it has read
    slot,           \* the map entry it is writing
    listing,        \* the JSON layer list it has built
    answer,         \* its answer so far: status and layers served
    faults,         \* errors so far
    arrived         \* history variable: catalogue at the request's arrival

vars == <<status, history, globalLayers, globalLayersMutex, pc, req, todo,
          load, slot, listing, answer, faults, arrived>>

Now == Len(history)
Catalogue == history[Now]

Init ==
    /\ status = "starting"
    /\ history \in {<<c>> : c \in Catalogs}
    /\ globalLayers = EmptyDirectory
    /\ globalLayersMutex = NoProc
    /\ pc = [p \in Procs |-> IF p = Main THEN "tables" ELSE "idle"]
    /\ req = [p \in Procs |-> Startup]
    /\ todo = [p \in Procs |-> <<>>]
    /\ load = [p \in Procs |-> NoLoad]
    /\ slot = [p \in Procs |-> NoSlot]
    /\ listing = [p \in Procs |-> NoListing]
    /\ answer = [p \in Procs |-> NoAnswer]
    /\ faults = 0
    /\ arrived = [p \in Procs |-> 1]
-----------------------------------------------------------------------------
(* How a goroutine ends.                                                   *)

Goto(p, place) == pc' = [pc EXCEPT ![p] = place]

Fault == faults < MaxFaults /\ faults' = faults + 1
NoFault == UNCHANGED faults

(* The handler of p returns; ServeHTTP, or the recovery from a panic, has  *)
(* answered the client.                                                    *)
Finish(p, a) ==
    /\ Goto(p, "idle")
    /\ answer' = [answer EXCEPT ![p] = a]
    /\ load' = [load EXCEPT ![p] = NoLoad]
    /\ UNCHANGED <<status, globalLayers, globalLayersMutex, req, todo, slot,
                   listing, arrived>>

(* The process dies, with all it has in memory: log.Fatal, a panic of the  *)
(* main goroutine, a fatal error of the runtime.                           *)
Exit ==
    /\ status' = "exited"
    /\ globalLayers' = EmptyDirectory
    /\ globalLayersMutex' = NoProc
    /\ pc' = [p \in Procs |-> "idle"]
    /\ req' = [p \in Procs |-> Startup]
    /\ todo' = [p \in Procs |-> <<>>]
    /\ load' = [p \in Procs |-> NoLoad]
    /\ slot' = [p \in Procs |-> NoSlot]
    /\ listing' = [p \in Procs |-> NoListing]
    /\ answer' = [p \in Procs |-> NoAnswer]
    /\ arrived' = [p \in Procs |-> 1]

(* Mutant: main returns from a failed load instead of exiting.             *)
GiveUp_MainGoesOn(p, s) == Finish(p, Answer(s))

(* loadLayers fails: main gives up, a handler answers.                     *)
GiveUp(p, s) ==
    \/ p = Main /\ Exit
    \/ p # Main /\ Finish(p, Answer(s))

-----------------------------------------------------------------------------
(* The world outside the process.                                          *)

CatalogueChanges ==
    /\ Now <= MaxDDL
    /\ \E c \in Catalogs : history' = Append(history, c)
    /\ UNCHANGED <<status, globalLayers, globalLayersMutex, pc, req, todo,
                   load, slot, listing, answer, faults, arrived>>

(* No goroutine is left, and systemd starts the process again.             *)
Restart ==
    /\ status = "exited"
    /\ pc[Main] = "idle"
    /\ status' = "starting"
    /\ Goto(Main, "tables")
    /\ UNCHANGED <<history, globalLayers, globalLayersMutex, req, todo, load,
                   slot, listing, answer, faults, arrived>>

(* Mutant: a detail is served from the registry as it is.                  *)
Arrive_DetailFromMemory(r) ==
    /\ status = "serving"
    /\ pc[r] = "idle"
    /\ \E q \in Asked :
          /\ req' = [req EXCEPT ![r] = q]
          /\ todo' = [todo EXCEPT ![r] = q.names]
          /\ Goto(r, IF q.kind \in {"tile", "detail"} THEN "find" ELSE "tables")
    /\ answer' = [answer EXCEPT ![r] = NoAnswer]
    /\ listing' = [listing EXCEPT ![r] = NoListing]
    /\ arrived' = [arrived EXCEPT ![r] = Now]
    /\ UNCHANGED <<status, history, globalLayers, globalLayersMutex, load,
                   slot, faults>>

(* A goroutine takes the next request of a client.                         *)
Arrive(r) ==
    /\ status = "serving"
    /\ pc[r] = "idle"
    /\ \E q \in Asked :
          /\ req' = [req EXCEPT ![r] = q]
          /\ todo' = [todo EXCEPT ![r] = q.names]
          /\ Goto(r, IF q.kind = "tile" THEN "find" ELSE "tables")
    /\ answer' = [answer EXCEPT ![r] = NoAnswer]
    /\ listing' = [listing EXCEPT ![r] = NoListing]
    /\ arrived' = [arrived EXCEPT ![r] = Now]
    /\ UNCHANGED <<status, history, globalLayers, globalLayersMutex, load,
                   slot, faults>>

-----------------------------------------------------------------------------
(* loadLayers, by main at startup and by the handlers.                     *)

(* getTableLayers reads the tables ...                                     *)
LoadTables(p) ==
    /\ pc[p] = "tables"
    /\ load' = [load EXCEPT ![p] = [tables |-> Catalogue.tables, tv |-> Now,
                                   functions |-> {}, fv |-> 0]]
    /\ Goto(p, "functions")
    /\ UNCHANGED <<status, history, globalLayers, globalLayersMutex, req, todo,
                   slot, listing, answer, faults, arrived>>

(* ... its query fails and it returns the connection's error, which is     *)
(* nil: an empty table list and no error ...                               *)
TablesQueryFails(p) ==
    /\ pc[p] = "tables"
    /\ Fault
    /\ load' = [load EXCEPT ![p] = NoLoad]
    /\ Goto(p, "functions")
    /\ UNCHANGED <<status, history, globalLayers, globalLayersMutex, req, todo,
                   slot, listing, answer, arrived>>

(* ... or a row fails.                                                     *)
TablesReadFails(p) ==
    /\ pc[p] = "tables"
    /\ Fault
    /\ GiveUp(p, "error")
    /\ UNCHANGED history

(* getFunctionLayers reads the functions, in a statement of its own ...    *)
LoadFunctions(p) ==
    /\ pc[p] = "functions"
    /\ Catalogue.functions \cap Unreadable = {}
    /\ load' = [load EXCEPT ![p] = [tables |-> load[p].tables, tv |-> load[p].tv,
                                   functions |-> Catalogue.functions, fv |-> Now]]
    /\ Goto(p, "lock")
    /\ UNCHANGED <<status, history, globalLayers, globalLayersMutex, req, todo,
                   slot, listing, answer, faults, arrived>>

(* ... its query or the iteration over its rows fails ...                  *)
FunctionsReadFails(p) ==
    /\ pc[p] = "functions"
    /\ Fault
    /\ GiveUp(p, "error")
    /\ UNCHANGED history

(* ... a row cannot be scanned, which ends the process ...                 *)
FunctionRowFatal(p) ==
    /\ pc[p] = "functions"
    /\ Fault
    /\ Exit
    /\ UNCHANGED history

(* ... or the arguments of a row cannot be decoded and the goroutine       *)
(* panics: argtypes is shorter than argnames, a default is a lone quote.   *)
FunctionRowPanics(p) ==
    /\ pc[p] = "functions"
    /\ Catalogue.functions \cap Unreadable # {}
    /\ GiveUp(p, "aborted")
    /\ NoFault
    /\ UNCHANGED history
(* The rows still to insert: all tables before any function.  The map was  *)
(* emptied when the mutex was taken.                                       *)
TablesLeft(p) == {i \in load[p].tables : globalLayers[i] = NoLayer}
FunctionsLeft(p) ==
    {i \in load[p].functions : globalLayers[i] # FunctionLayer(load[p].fv)}

(* Mutant: the map is not emptied.                                         *)
LockAndEmpty_Kept(p) ==
    /\ pc[p] = "lock"
    /\ globalLayersMutex = NoProc
    /\ globalLayersMutex' = p
    /\ Goto(p, "fill")
    /\ UNCHANGED <<status, history, globalLayers, req, todo, load, slot,
                   listing, answer, faults, arrived>>

LockAndEmpty(p) ==
    /\ pc[p] = "lock"
    /\ globalLayersMutex = NoProc
    /\ globalLayersMutex' = p
    /\ globalLayers' = EmptyDirectory
    /\ Goto(p, "fill")
    /\ UNCHANGED <<status, history, req, todo, load, slot, listing, answer,
                   faults, arrived>>

(* A map assignment starts: the runtime raises the map's writing flag.     *)
InsertTable(p) ==
    /\ pc[p] = "fill"
    /\ \E i \in TablesLeft(p) :
          slot' = [slot EXCEPT ![p] = [id |-> i, layer |-> TableLayer(load[p].tv)]]
    /\ Goto(p, "insert")
    /\ UNCHANGED <<status, history, globalLayers, globalLayersMutex, req, todo,
                   load, listing, answer, faults, arrived>>

InsertFunction(p) ==
    /\ pc[p] = "fill"
    /\ TablesLeft(p) = {}
    /\ \E i \in FunctionsLeft(p) :
          slot' = [slot EXCEPT ![p] = [id |-> i, layer |-> FunctionLayer(load[p].fv)]]
    /\ Goto(p, "insert")
    /\ UNCHANGED <<status, history, globalLayers, globalLayersMutex, req, todo,
                   load, listing, answer, faults, arrived>>

(* The key is in place, the flag is lowered; a new slot holds zero words.  *)
InsertKey(p) ==
    /\ pc[p] = "insert"
    /\ globalLayers' = [globalLayers EXCEPT ![slot[p].id] =
                           IF @ = NoLayer THEN NilLayer ELSE @]
    /\ Goto(p, "store")
    /\ UNCHANGED <<status, history, globalLayersMutex, req, todo, load, slot,
                   listing, answer, faults, arrived>>

(* The words of the layer are in the slot.                                 *)
StoreLayer(p) ==
    /\ pc[p] = "store"
    /\ globalLayers' = [globalLayers EXCEPT ![slot[p].id] = slot[p].layer]
    /\ slot' = [slot EXCEPT ![p] = NoSlot]
    /\ Goto(p, "fill")
    /\ UNCHANGED <<status, history, globalLayersMutex, req, todo, load,
                   listing, answer, faults, arrived>>

(* Mutant: the mutex is released between the tables and the functions.     *)
Unlock_Early(p) ==
    /\ pc[p] = "fill"
    /\ TablesLeft(p) = {}
    /\ globalLayersMutex' = NoProc
    /\ load' = [load EXCEPT ![p] = NoLoad]
    /\ Goto(p, CASE req[p].kind = "start" -> "versions"
                 [] req[p].kind = "list"  -> "listlock"
                 [] OTHER                 -> "find")
    /\ UNCHANGED <<status, history, globalLayers, req, todo, slot, listing,
                   answer, faults, arrived>>

(* All rows are in: main goes on to loadVersions, a list request to        *)
(* getJSONLayers, the others to getLayer.                                  *)
Unlock(p) ==
    /\ pc[p] = "fill"
    /\ TablesLeft(p) = {}
    /\ FunctionsLeft(p) = {}
    /\ globalLayersMutex' = NoProc
    /\ load' = [load EXCEPT ![p] = NoLoad]
    /\ Goto(p, CASE req[p].kind = "start" -> "versions"
                 [] req[p].kind = "list"  -> "listlock"
                 [] OTHER                 -> "find")
    /\ UNCHANGED <<status, history, globalLayers, req, todo, slot, listing,
                   answer, faults, arrived>>

(* main reads the PostGIS version and serves.                              *)
LoadVersions ==
    /\ pc[Main] = "versions"
    /\ status' = "serving"
    /\ Goto(Main, "idle")
    /\ UNCHANGED <<history, globalLayers, globalLayersMutex, req, todo, load,
                   slot, listing, answer, faults, arrived>>

LoadVersionsFails ==
    /\ pc[Main] = "versions"
    /\ Fault
    /\ Exit
    /\ UNCHANGED history

-----------------------------------------------------------------------------
(* getJSONLayers and the rest of the list handlers.                        *)

(* Mutant: the copy is made without the mutex.                             *)
ListLock_Unlocked(r) ==
    /\ pc[r] = "listlock"
    /\ listing' = [listing EXCEPT ![r] = EmptyDirectory]
    /\ Goto(r, "copy")
    /\ UNCHANGED <<status, history, globalLayers, globalLayersMutex, req, todo,
                   load, slot, answer, faults, arrived>>

ListLock(r) ==
    /\ pc[r] = "listlock"
    /\ globalLayersMutex = NoProc
    /\ globalLayersMutex' = r
    /\ listing' = [listing EXCEPT ![r] = EmptyDirectory]
    /\ Goto(r, "copy")
    /\ UNCHANGED <<status, history, globalLayers, req, todo, load, slot,
                   answer, faults, arrived>>

Uncopied(r) == {i \in Ids : globalLayers[i] # NoLayer /\ listing[r][i] = NoLayer}

CopyEntry(r) ==
    /\ pc[r] = "copy"
    /\ \E i \in Uncopied(r) :
          listing' = [listing EXCEPT ![r][i] = globalLayers[i]]
    /\ UNCHANGED <<status, history, globalLayers, globalLayersMutex, pc, req,
                   todo, load, slot, answer, faults, arrived>>

(* Mutant: the mutex is not released.                                      *)
ListUnlock_Forgotten(r) ==
    /\ pc[r] = "copy"
    /\ Uncopied(r) = {}
    /\ Goto(r, "write")
    /\ UNCHANGED <<status, history, globalLayers, globalLayersMutex, req, todo,
                   load, slot, listing, answer, faults, arrived>>

ListUnlock(r) ==
    /\ pc[r] = "copy"
    /\ Uncopied(r) = {}
    /\ globalLayersMutex' = NoProc
    /\ Goto(r, "write")
    /\ UNCHANGED <<status, history, globalLayers, req, todo, load, slot,
                   listing, answer, faults, arrived>>

WriteList(r) ==
    /\ pc[r] = "write"
    /\ Finish(r, Answer("ok"))
    /\ NoFault
    /\ UNCHANGED history

(* The page of the HTML list cannot be read or parsed.                     *)
WriteListFails(r) ==
    /\ pc[r] = "write"
    /\ Fault
    /\ Finish(r, Answer("error"))
    /\ UNCHANGED history
-----------------------------------------------------------------------------
(* getLayer and what the tile, detail and preview handlers do with it.     *)

(* What a read of key i may return: the slot, and while a write to it is   *)
(* between the flag and the end of its stores, also the new layer or a mix *)
(* of the two.                                                             *)
PossibleReads(i) ==
    {globalLayers[i]} \cup
    UNION {{slot[p].layer, TornLayer(globalLayers[i])} :
              p \in {p \in Procs : pc[p] = "store" /\ slot[p].id = i}}

Served(r) == {answer[r].layers[k].id : k \in 1..Len(answer[r].layers)}
Current(r) == answer[r].layers[Len(answer[r].layers)].layer

(* requestTiles serves a layer named twice once.                           *)
SkipDuplicate(r) ==
    /\ pc[r] = "find" /\ todo[r] # <<>>
    /\ Head(todo[r]) \in Served(r)
    /\ todo' = [todo EXCEPT ![r] = Tail(@)]
    /\ UNCHANGED <<status, history, globalLayers, globalLayersMutex, pc, req,
                   load, slot, listing, answer, faults, arrived>>

FindLayer(r) ==
    /\ pc[r] = "find" /\ todo[r] # <<>>
    /\ Head(todo[r]) \notin Served(r)
    /\ \E l \in PossibleReads(Head(todo[r])) \ {NoLayer} :
          answer' = [answer EXCEPT ![r] =
              [status |-> "none",
               layers |-> Append(answer[r].layers, [id |-> Head(todo[r]), layer |-> l])]]
    /\ Goto(r, "render")
    /\ UNCHANGED <<status, history, globalLayers, globalLayersMutex, req, todo,
                   load, slot, listing, faults, arrived>>

(* Mutant: a request that misses its layer reads the catalogue again.      *)
FindNothing_Reloads(r) ==
    /\ pc[r] = "find" /\ todo[r] # <<>>
    /\ Head(todo[r]) \notin Served(r)
    /\ globalLayers[Head(todo[r])] = NoLayer
    /\ Goto(r, "tables")
    /\ UNCHANGED <<status, history, globalLayers, globalLayersMutex, req, todo,
                   load, slot, listing, answer, faults, arrived>>

(* The key is absent: 404, whatever the answer already holds.              *)
FindNothing(r) ==
    /\ pc[r] = "find" /\ todo[r] # <<>>
    /\ Head(todo[r]) \notin Served(r)
    /\ globalLayers[Head(todo[r])] = NoLayer
    /\ Finish(r, Answer("notfound"))
    /\ NoFault
    /\ UNCHANGED history

(* The read meets the flag of a write to the same map: "concurrent map     *)
(* read and map write", which no handler can recover from.                 *)
MapRace(r) ==
    /\ pc[r] = "find" /\ todo[r] # <<>>
    /\ Head(todo[r]) \notin Served(r)
    /\ \E p \in Procs : pc[p] = "insert"
    /\ Exit
    /\ NoFault
    /\ UNCHANGED history

(* The database still has what the SQL of layer l, named i, refers to.     *)
Exists(i, l) ==
    \/ l.kind = "table" /\ i \in Catalogue.tables
    \/ l.kind = "function" /\ i \in Catalogue.functions

(* A tile comes from the database, and so do the bounds in the detail of a *)
(* table; the rest of a detail and a preview come from memory.             *)
NeedsDatabase(r) ==
    \/ req[r].kind = "tile"
    \/ req[r].kind = "detail" /\ Current(r).kind = "table"

InvalidTile(r) == req[r].kind = "tile" /\ ~req[r].valid

(* The layer is rendered and the next name is due.  A torn layer with a    *)
(* data word may render something too.                                     *)
Render(r) ==
    /\ pc[r] = "render"
    /\ ~InvalidTile(r)
    /\ \/ Current(r).kind \in LayerKinds
       \/ Current(r).kind = "torn" /\ Current(r).rev > 0
    /\ Current(r).kind \in LayerKinds /\ NeedsDatabase(r)
          => Exists(Head(todo[r]), Current(r))
    /\ todo' = [todo EXCEPT ![r] = Tail(@)]
    /\ Goto(r, "find")
    /\ UNCHANGED <<status, history, globalLayers, globalLayersMutex, req, load,
                   slot, listing, answer, faults, arrived>>

(* makeTile runs after getLayer: an address outside the grid is a 400.     *)
RejectTile(r) ==
    /\ pc[r] = "render"
    /\ InvalidTile(r)
    /\ Finish(r, Answer("badrequest"))
    /\ NoFault
    /\ UNCHANGED history

(* The table or function has been dropped since the registry was filled.   *)
RenderDropped(r) ==
    /\ pc[r] = "render"
    /\ ~InvalidTile(r)
    /\ Current(r).kind \in LayerKinds
    /\ NeedsDatabase(r)
    /\ ~Exists(Head(todo[r]), Current(r))
    /\ Finish(r, Answer("error"))
    /\ NoFault
    /\ UNCHANGED history

(* Mutant: a tileAppError without a code is not turned into a 500.         *)
RenderFails_NoCode(r) ==
    /\ pc[r] = "render"
    /\ ~InvalidTile(r)
    /\ Current(r).kind \in LayerKinds
    /\ req[r].kind # "detail" \/ NeedsDatabase(r)
    /\ Fault
    /\ Finish(r, Answer("code 0"))
    /\ UNCHANGED history

(* The statement fails or times out, the page cannot be read or parsed.    *)
RenderFails(r) ==
    /\ pc[r] = "render"
    /\ ~InvalidTile(r)
    /\ Current(r).kind \in LayerKinds
    /\ req[r].kind # "detail" \/ NeedsDatabase(r)
    /\ Fault
    /\ Finish(r, Answer("error"))
    /\ UNCHANGED history

(* A layer without a type word panics when it is used, and one whose data  *)
(* word is zero or belongs to another type may; net/http recovers and      *)
(* drops the connection.                                                   *)
UseHalfStored(r) ==
    /\ pc[r] = "render"
    /\ ~InvalidTile(r)
    /\ \/ Current(r).kind = "torn"
       \/ Current(r).kind = "nil" /\ req[r].kind # "preview"
    /\ Finish(r, Answer("aborted"))
    /\ NoFault
    /\ UNCHANGED history

(* requestPreview: neither a LayerTable nor a LayerFunction.               *)
UnknownType(r) ==
    /\ pc[r] = "render"
    /\ req[r].kind = "preview"
    /\ Current(r).kind = "nil"
    /\ Finish(r, Answer("unknown"))
    /\ NoFault
    /\ UNCHANGED history

(* Every name is served.                                                   *)
Reply(r) ==
    /\ pc[r] = "find" /\ todo[r] = <<>>
    /\ Finish(r, [status |-> "ok", layers |-> answer[r].layers])
    /\ NoFault
    /\ UNCHANGED history

-----------------------------------------------------------------------------
LoadStep(p) ==
    \/ LoadTables(p) \/ TablesQueryFails(p) \/ TablesReadFails(p)
    \/ LoadFunctions(p) \/ FunctionsReadFails(p) \/ FunctionRowFatal(p)
    \/ FunctionRowPanics(p)
    \/ LockAndEmpty(p) \/ InsertTable(p) \/ InsertFunction(p)
    \/ InsertKey(p) \/ StoreLayer(p) \/ Unlock(p)

StartStep == LoadVersions \/ LoadVersionsFails

ListStep(r) ==
    ListLock(r) \/ CopyEntry(r) \/ ListUnlock(r) \/ WriteList(r) \/ WriteListFails(r)

LayerStep(r) ==
    \/ SkipDuplicate(r) \/ FindLayer(r) \/ FindNothing(r) \/ MapRace(r)
    \/ Render(r) \/ RejectTile(r) \/ RenderDropped(r) \/ RenderFails(r)
    \/ UseHalfStored(r) \/ UnknownType(r) \/ Reply(r)

Next ==
    \/ CatalogueChanges
    \/ Restart
    \/ StartStep
    \/ \E p \in Procs : LoadStep(p)
    \/ \E r \in Requests : Arrive(r) \/ ListStep(r) \/ LayerStep(r)

Spec == Init /\ [][Next]_vars

(* The Go scheduler runs every runnable goroutine, the mutex hands itself  *)
(* to a waiter that starves, the database answers the statements it is     *)
(* sent, and systemd restarts the process.  Nobody has to send a request,  *)
(* change the catalogue or make anything fail.                             *)
FairSpec ==
    /\ Spec
    /\ WF_vars(Restart)
    /\ WF_vars(StartStep)
    /\ \A p \in Procs : WF_vars(LoadStep(p)) /\ SF_vars(LockAndEmpty(p))
    /\ \A r \in Requests : /\ WF_vars(ListStep(r)) /\ SF_vars(ListLock(r))
                           /\ WF_vars(LayerStep(r))
-----------------------------------------------------------------------------
(* Properties.                                                             *)

Places == {"idle", "tables", "functions", "lock", "fill", "insert", "store",
           "versions", "listlock", "copy", "write", "find", "render"}

(* The type invariant.                                                     *)
TypeOK ==
    /\ status \in {"starting", "serving", "exited"}
    /\ history \in Seq(Catalogs) /\ history # <<>>
    /\ globalLayers \in [Ids -> SlotLayer]
    /\ globalLayersMutex \in Procs \cup {NoProc}
    /\ pc \in [Procs -> Places]
    /\ req \in [Procs -> Asked \cup {Startup}]
    /\ todo \in [Procs -> Seq(Ids)]
    /\ load \in [Procs -> [tables : SUBSET Ids, tv : Nat,
                           functions : SUBSET Ids, fv : Nat]]
    /\ slot \in [Procs -> [id : Ids, layer : ReadLayer] \cup {NoSlot}]
    /\ listing \in [Procs -> [Ids -> SlotLayer] \cup {NoListing}]
    /\ \A p \in Procs :
          /\ pc[p] \in {"insert", "store"} => slot[p] \in [id : Ids, layer : ReadLayer]
          /\ pc[p] = "copy" => listing[p] \in [Ids -> SlotLayer]
          /\ pc[p] = "render" => todo[p] # <<>>
    /\ answer \in [Procs -> [status : Statuses,
                             layers : Seq([id : Ids, layer : SlotLayer])]]
    /\ faults \in 0..MaxFaults
    /\ arrived \in [Procs -> Nat]

(* A goroutine is between globalLayersMutex.Lock() and Unlock() of         *)
(* loadLayers.                                                             *)
Filling == \E p \in Procs : pc[p] \in {"fill", "insert", "store"}

(* Whenever no load is filling the map, the registry is the whole result   *)
(* of one load: overlapping loads do not mix, and a load that fails at any *)
(* of its statements leaves the registry of the load before it.            *)
RegistryIsWhole == ~Filling => Whole(globalLayers, history)

(* The list that a client gets (index.json, the front page) is the whole   *)
(* result of one load, however many handlers refill the map meanwhile.     *)
ListingIsWhole ==
    \A r \in Requests :
        pc[r] # "copy" /\ listing[r] # NoListing => Whole(listing[r], history)

(* The registry as its users see it: the result of the load that holds the *)
(* mutex, from the moment it took it.                                      *)
DirectoryNow ==
    LET filling == {p \in Procs : pc[p] \in {"fill", "insert", "store"}}
    IN  IF filling = {} THEN globalLayers
        ELSE LET l == load[CHOOSE p \in filling : TRUE]
             IN  Overlay(l.tables, l.tv, l.functions, l.fv)

Dir == INSTANCE LayerDirectory WITH
    directory <- DirectoryNow,
    seen <- [r \in Requests |-> IF pc[r] = "copy" THEN NoListing ELSE listing[r]]

(* The registry implements the directory of LayerDirectory: it changes as  *)
(* a whole, and each listing equals it at the moment of the unlocking.     *)
ImplementsDirectory == Dir!DirSpec

(* Every request that is taken up is finished, by an answer or with the    *)
(* process: no path through a handler keeps the mutex or waits for ever.   *)
RequestsFinish == \A r \in Requests : pc[r] # "idle" ~> pc[r] = "idle"

(* The server comes up, and comes up again after each exit.                *)
ServerComesUp == status # "serving" ~> status = "serving"

(* The catalogues a request's own load may have read.                      *)
SinceArrival(r) == arrived[r]..Now

(* A 404 says that the layer does not exist: for a request that reloads    *)
(* the registry, that it was missing from the catalogue since the request  *)
(* arrived, for a tile that it has been missing from some catalogue.       *)
NotFoundMeansAbsent ==
    \A r \in Requests :
        answer[r].status = "notfound" =>
            \E tv, fv \in IF req[r].kind = "tile" THEN 1..Now ELSE SinceArrival(r) :
                /\ Head(todo[r]) \notin history[tv].tables
                /\ Head(todo[r]) \notin history[fv].functions

(* A request that reloads the registry answers with what the database held *)
(* when the request arrived or later.                                      *)
AnswersAreCurrent ==
    \A r \in Requests :
        answer[r].status = "ok" =>
            /\ req[r].kind = "list" =>
                  \E fv \in SinceArrival(r) : \E tv \in arrived[r]..fv :
                      listing[r] = ReadAt(history, tv, fv)
            /\ req[r].kind \in {"detail", "preview"} =>
                  \A k \in 1..Len(answer[r].layers) :
                      answer[r].layers[k].layer.rev \in SinceArrival(r)

(* The layers at the end of r's answer that this step has added.           *)
Taken(r) == {answer'[r].layers[k].layer :
                k \in (Len(answer[r].layers) + 1)..Len(answer'[r].layers)}

(* The only requests under way are for tiles.                              *)
OnlyTilesRun ==
    /\ status = "serving"
    /\ \A r \in Requests : pc[r] # "idle" => req[r].kind = "tile"

(* However many tile requests run at once, and whatever fails, they do not *)
(* disturb each other: while no list, detail or preview is under way,      *)
(* nothing writes to the registry, so a lookup without the mutex           *)
(* (getLayer) neither ends the process nor takes a half-stored layer, and  *)
(* what it looks into is the whole result of one load.                     *)
TilesDoNotDisturb ==
    [][OnlyTilesRun =>
          /\ status' = "serving"
          /\ UNCHANGED globalLayers /\ Whole(globalLayers, history)
          /\ \A r \in Requests : Taken(r) \subseteq ReadLayer]_vars

(* The process runs until it is interrupted.  It does not: an unlocked     *)
(* lookup beside a reload may end it (README).                             *)
ServerStaysUp == status # "exited"

(* requestPreview never finds a layer that is neither table nor function.  *)
(* It does, beside a reload (README).                                      *)
TypeIsKnown == \A r \in Requests : answer[r].status # "unknown"
=============================================================================
