-------------------------- MODULE OneHandlerProofs --------------------------
(***************************************************************************)
(* When reading the map without the mutex does no harm, for any            *)
(* identifiers, catalogues and changes of the catalogue: among any number  *)
(* of handlers while only tile requests are under way, and with a lone     *)
(* handler, whose answers are current and whose 404s mean that the layer   *)
(* is absent.  With two handlers, one of which reloads, none of this holds *)
(* (see the runs).                                                         *)
(***************************************************************************)
EXTENDS LayerRegistryProofs

(* Requests are served one at a time. *)
Alone == \A q, r \in Requests : q = r
NothingFails == MaxFaults = 0

-----------------------------------------------------------------------------
(* The invariants.                                                         *)

(* main loads before anybody is served, and never after; this holds of any *)
(* number of handlers.                                                     *)
PhaseInv ==
    /\ req[Main] = Startup
    /\ pc[Main] \in {"idle", "tables", "functions", "lock", "versions"} \cup Writing
    /\ status = "starting" <=> pc[Main] # "idle"
    /\ status # "serving" => \A r \in Requests : pc[r] = "idle"

(* A tile request is looked up and rendered, and does nothing else.        *)
TileInv ==
    \A r \in Requests : pc[r] \notin {"idle", "find", "render"} => req[r].kind # "tile"

(* d is what one load reads of the tables and of the functions in history  *)
(* h, both of catalogue v or a later one.                                  *)
ReadSince(d, h, v) ==
    \E fv \in v..Len(h) : \E tv \in v..fv : d = ReadAt(h, tv, fv)

(* Past its load, and on the way to its answer. *)
Loaded == {"versions", "listlock", "copy", "write", "find", "render"}

(* A load reads what the database holds when it reads it, hence nothing    *)
(* older than the request, and once a goroutine is past its load the       *)
(* registry is that load; a tile request has none.                         *)
Fresh(p) ==
    /\ arrived[p] \in 1..Now
    /\ pc[p] \in {"tables", "functions", "lock"} \cup Writing => req[p].kind # "tile"
    /\ pc[p] \in {"functions", "lock"} \cup Writing => load[p].tv >= arrived[p]
    /\ pc[p] \in Loaded /\ req[p].kind # "tile" =>
          ReadSince(globalLayers, history, arrived[p])

(* From the end of main's load on the registry is what some load read. *)
Published == status = "serving" /\ ~Filling => ReadSince(globalLayers, history, 1)

(* What r has told its client, or is about to. *)
Told(r) ==
    /\ pc[r] \in {"listlock", "copy", "write"} => req[r].kind = "list"
    /\ pc[r] \in {"find", "render"} => req[r].kind # "list"
    /\ pc[r] # "idle" => answer[r].status = "none"
    /\ pc[r] = "write" => ReadSince(listing[r], history, arrived[r])
    /\ req[r].kind \in {"detail", "preview"} =>
          \A k \in 1..Len(answer[r].layers) :
              answer[r].layers[k].layer.rev \in SinceArrival(r)
    /\ answer[r].status = "ok" /\ req[r].kind = "list" =>
          ReadSince(listing[r], history, arrived[r])
    /\ answer[r].status = "notfound" =>
          \E tv, fv \in IF req[r].kind = "tile" THEN 1..Now ELSE SinceArrival(r) :
              /\ Head(todo[r]) \notin history[tv].tables
              /\ Head(todo[r]) \notin history[fv].functions

CurrentInv ==
    /\ \A p \in Procs : Fresh(p)
    /\ Published
    /\ \A r \in Requests : Told(r)

-----------------------------------------------------------------------------
(* What each kind of step may change, the death of the process apart.      *)

(* A step of loadLayers goes on with the load, is past it, or gives up.    *)
LEMMA LoadFrame ==
    ASSUME TypeOK, NEW p \in Procs, LoadStep(p), ~Exit
    PROVE  /\ UNCHANGED <<status, history, req, todo, listing, arrived>>
           /\ \A q \in Procs \ {p} :
                 pc'[q] = pc[q] /\ load'[q] = load[q] /\ answer'[q] = answer[q]
           /\ pc[p] \in {"tables", "functions", "lock"} \cup Writing
           /\ \/ /\ UNCHANGED answer
                 /\ pc'[p] \in {"functions", "lock"} \cup Writing
              \/ /\ UNCHANGED answer
                 /\ Unlock(p)
                 /\ \/ pc'[p] = "versions" /\ req[p].kind = "start"
                    \/ pc'[p] = "listlock" /\ req[p].kind = "list"
                    \/ pc'[p] = "find" /\ req[p].kind \notin {"start", "list"}
              \/ /\ p # Main /\ pc'[p] = "idle"
                 /\ answer'[p] \in {Answer("error"), Answer("aborted")}
<1> USE DEF Goto, Writing
<1>1. CASE LoadTables(p) \/ TablesQueryFails(p) \/ LoadFunctions(p)
  BY <1>1 DEF LoadTables, TablesQueryFails, LoadFunctions, TypeOK
<1>2. ASSUME NEW s \in {"error", "aborted"}, GiveUp(p, s), UNCHANGED history,
             pc[p] \in {"tables", "functions"}
      PROVE  /\ UNCHANGED <<status, history, req, todo, listing, arrived>>
             /\ \A q \in Procs \ {p} :
                   pc'[q] = pc[q] /\ load'[q] = load[q] /\ answer'[q] = answer[q]
             /\ p # Main /\ pc'[p] = "idle"
             /\ answer'[p] \in {Answer("error"), Answer("aborted")}
  BY <1>2 DEF GiveUp, Finish, TypeOK
<1>3. CASE TablesReadFails(p)
  BY <1>2, <1>3 DEF TablesReadFails
<1>4. CASE FunctionsReadFails(p)
  BY <1>2, <1>4 DEF FunctionsReadFails
<1>5. CASE FunctionRowPanics(p)
  BY <1>2, <1>5 DEF FunctionRowPanics
<1>6. CASE LockAndEmpty(p) \/ InsertTable(p) \/ InsertFunction(p)
  BY <1>6 DEF LockAndEmpty, InsertTable, InsertFunction, TypeOK
<1>7. CASE InsertKey(p) \/ StoreLayer(p)
  BY <1>7 DEF InsertKey, StoreLayer, TypeOK
<1>8. CASE Unlock(p)
  <2>1. /\ UNCHANGED <<status, history, req, todo, listing, answer, arrived>>
        /\ pc[p] = "fill"
        /\ \A q \in Procs \ {p} : pc'[q] = pc[q] /\ load'[q] = load[q]
    BY <1>8 DEF Unlock, TypeOK
  <2>2. CASE req[p].kind = "start"
    BY <1>8, <2>1, <2>2 DEF Unlock, TypeOK
  <2>3. CASE req[p].kind = "list"
    BY <1>8, <2>1, <2>3 DEF Unlock, TypeOK
  <2>4. CASE req[p].kind \notin {"start", "list"}
    BY <1>8, <2>1, <2>4 DEF Unlock, TypeOK
  <2> QED BY <2>2, <2>3, <2>4
<1> QED
  BY <1>1, <1>3, <1>4, <1>5, <1>6, <1>7, <1>8 DEF LoadStep, FunctionRowFatal

(* A step of the list handlers copies, or ends with an answer.             *)
LEMMA ListFrame ==
    ASSUME TypeOK, NEW r \in Requests, ListStep(r)
    PROVE  /\ UNCHANGED <<status, history, globalLayers, req, todo, slot, arrived>>
           /\ \A q \in Procs \ {r} :
                 /\ pc'[q] = pc[q] /\ load'[q] = load[q]
                 /\ answer'[q] = answer[q] /\ listing'[q] = listing[q]
           /\ pc[r] \in {"listlock", "copy", "write"}
           /\ \/ ListLock(r) /\ UNCHANGED answer /\ pc'[r] = "copy"
              \/ CopyEntry(r) /\ UNCHANGED answer /\ pc'[r] = "copy"
              \/ ListUnlock(r) /\ UNCHANGED answer /\ pc'[r] = "write"
              \/ /\ pc[r] = "write" /\ pc'[r] = "idle" /\ UNCHANGED listing
                 /\ answer'[r] \in {Answer("ok"), Answer("error")}
<1> r \in Procs
  BY DEF Procs
<1> USE DEF Goto
<1>1. CASE ListLock(r)
  BY <1>1 DEF ListLock, TypeOK
<1>2. CASE CopyEntry(r)
  <2>1. PICK i \in Uncopied(r) : listing' = [listing EXCEPT ![r][i] = globalLayers[i]]
    BY <1>2 DEF CopyEntry
  <2> QED BY <1>2, <2>1 DEF CopyEntry, TypeOK
<1>3. CASE ListUnlock(r)
  BY <1>3 DEF ListUnlock, TypeOK
<1>4. CASE WriteList(r) \/ WriteListFails(r)
  BY <1>4 DEF WriteList, WriteListFails, Finish, TypeOK
<1> QED BY <1>1, <1>2, <1>3, <1>4 DEF ListStep

(* A step of the handlers that serve layers takes a layer or ends.         *)
LEMMA LayerFrame ==
    ASSUME TypeOK, NEW r \in Requests, LayerStep(r), ~Exit
    PROVE  /\ UNCHANGED <<status, history, globalLayers, globalLayersMutex, req, slot,
                          listing, arrived>>
           /\ \A q \in Procs \ {r} :
                 /\ pc'[q] = pc[q] /\ load'[q] = load[q]
                 /\ answer'[q] = answer[q] /\ todo'[q] = todo[q]
           /\ pc[r] \in {"find", "render"}
           /\ \/ UNCHANGED answer /\ pc'[r] = "find"
              \/ FindLayer(r) /\ pc'[r] = "render"
              \/ /\ pc'[r] = "idle"
                 /\ answer'[r] \in {Answer("badrequest"), Answer("error"), Answer("aborted")}
              \/ /\ FindNothing(r) /\ pc'[r] = "idle" /\ UNCHANGED todo
                 /\ answer'[r] = Answer("notfound")
              \/ /\ UnknownType(r) /\ pc'[r] = "idle"
                 /\ answer'[r] = Answer("unknown")
              \/ /\ Reply(r) /\ pc'[r] = "idle"
                 /\ answer'[r] = [status |-> "ok", layers |-> answer[r].layers]
<1> r \in Procs
  BY DEF Procs
<1> USE DEF Goto
<1>1. CASE SkipDuplicate(r) \/ Render(r)
  BY <1>1 DEF SkipDuplicate, Render, TypeOK
<1>2. CASE FindLayer(r)
  <2>1. PICK l \in PossibleReads(Head(todo[r])) \ {NoLayer} :
           answer' = [answer EXCEPT ![r] =
              [status |-> "none",
               layers |-> Append(answer[r].layers, [id |-> Head(todo[r]), layer |-> l])]]
    BY <1>2 DEF FindLayer
  <2> QED BY <1>2, <2>1 DEF FindLayer, TypeOK
<1>3. CASE FindNothing(r)
  BY <1>3 DEF FindNothing, Finish, TypeOK
<1>4. CASE RejectTile(r) \/ RenderDropped(r)
  BY <1>4 DEF RejectTile, RenderDropped, Finish, TypeOK
<1>5. CASE RenderFails(r) \/ UseHalfStored(r)
  BY <1>5 DEF RenderFails, UseHalfStored, Finish, TypeOK
<1>6. CASE UnknownType(r)
  BY <1>6 DEF UnknownType, Finish, TypeOK
<1>7. CASE Reply(r)
  BY <1>7 DEF Reply, Finish, TypeOK
<1> QED
  BY <1>1, <1>2, <1>3, <1>4, <1>5, <1>6, <1>7 DEF LayerStep, MapRace

(* The history only changes with the catalogue, and grows.                 *)
LEMMA ArriveFrame ==
    ASSUME TypeOK, NEW r \in Requests, Arrive(r)
    PROVE  /\ UNCHANGED <<status, history, globalLayers, globalLayersMutex, load, slot>>
           /\ \A q \in Procs \ {r} :
                 /\ pc'[q] = pc[q] /\ answer'[q] = answer[q] /\ listing'[q] = listing[q]
                 /\ req'[q] = req[q] /\ arrived'[q] = arrived[q] /\ todo'[q] = todo[q]
           /\ status = "serving" /\ pc[r] = "idle"
           /\ req'[r] \in Asked
           /\ pc'[r] = IF req'[r].kind = "tile" THEN "find" ELSE "tables"
           /\ answer'[r] = NoAnswer /\ arrived'[r] = Now
<1> r \in Procs
  BY DEF Procs
<1>1. PICK q \in Asked :
         /\ req' = [req EXCEPT ![r] = q]
         /\ todo' = [todo EXCEPT ![r] = q.names]
         /\ pc' = [pc EXCEPT ![r] = IF q.kind = "tile" THEN "find" ELSE "tables"]
  BY DEF Arrive, Goto
<1> QED BY <1>1 DEF Arrive, TypeOK

-----------------------------------------------------------------------------
(* main and the handlers take turns.                                       *)

(* A step of a handler that is at work, or taken up while the server serves. *)
LEMMA PhaseOfRequest ==
    ASSUME PhaseInv, NEW r \in Requests,
           pc[r] # "idle" \/ status = "serving",
           status' = status, req'[Main] = req[Main],
           \A q \in Procs \ {r} : pc'[q] = pc[q]
    PROVE  PhaseInv'
<1>1. status = "serving" /\ r # Main /\ Main \in Procs
  BY RegistryAssumption DEF PhaseInv, Procs
<1> QED BY <1>1 DEF PhaseInv, Procs

(* The process dies: nobody is left. *)
LEMMA PhaseOfExit == Exit => PhaseInv'
BY DEF Exit, PhaseInv, Procs

(* main starts in its load and everybody else waits. *)
LEMMA PhaseInit == Init => PhaseInv
BY RegistryAssumption DEF Init, PhaseInv, Procs

(* Every step keeps PhaseInv, whatever the number of handlers. *)
LEMMA PhaseNext == TypeOK /\ PhaseInv /\ [Next]_vars => PhaseInv'
<1> SUFFICES ASSUME TypeOK, PhaseInv, [Next]_vars PROVE PhaseInv'
  OBVIOUS
<1>m. Main \in Procs /\ Main \notin Requests
  BY RegistryAssumption DEF Procs
<1>1. CASE CatalogueChanges
  BY <1>1 DEF CatalogueChanges, PhaseInv
<1>2. CASE Restart
  BY <1>2, <1>m DEF Restart, Goto, PhaseInv, TypeOK, Procs
<1>3. CASE LoadVersions
  BY <1>3, <1>m DEF LoadVersions, Goto, PhaseInv, TypeOK, Procs
<1>4. CASE LoadVersionsFails
  BY <1>4, PhaseOfExit DEF LoadVersionsFails
<1>5. ASSUME NEW p \in Procs, LoadStep(p) PROVE PhaseInv'
  <2>1. CASE Exit
    BY <2>1, PhaseOfExit
  <2>2. ASSUME ~Exit, p = Main PROVE PhaseInv'
    <3>1. /\ UNCHANGED <<status, req>>
          /\ \A q \in Procs \ {Main} : pc'[q] = pc[q]
          /\ pc[Main] # "idle"
      BY <1>5, <2>2, LoadFrame DEF Writing
    <3>2. req[Main].kind = "start"
      BY DEF PhaseInv, Startup
    <3>3. pc'[Main] \in {"functions", "lock", "versions"} \cup Writing
      BY <1>5, <2>2, <3>2, LoadFrame
    <3> QED BY <3>1, <3>3, <1>m DEF PhaseInv, Procs, Writing
  <2>3. ASSUME ~Exit, p # Main PROVE PhaseInv'
    <3>1. p \in Requests
      BY <2>3 DEF Procs
    <3>2. /\ UNCHANGED <<status, req>> /\ pc[p] # "idle"
          /\ \A q \in Procs \ {p} : pc'[q] = pc[q]
      BY <1>5, <2>3, LoadFrame DEF Writing
    <3> QED BY <3>1, <3>2, PhaseOfRequest
  <2> QED BY <2>1, <2>2, <2>3
<1>6. ASSUME NEW r \in Requests, Arrive(r) PROVE PhaseInv'
  <2>1. /\ status' = status /\ status = "serving" /\ req'[Main] = req[Main]
        /\ \A q \in Procs \ {r} : pc'[q] = pc[q]
    BY <1>6, <1>m, ArriveFrame
  <2> QED BY <2>1, PhaseOfRequest
<1>7. ASSUME NEW r \in Requests, ListStep(r) PROVE PhaseInv'
  <2>1. /\ UNCHANGED <<status, req>> /\ pc[r] # "idle"
        /\ \A q \in Procs \ {r} : pc'[q] = pc[q]
    BY <1>7, ListFrame
  <2> QED BY <2>1, PhaseOfRequest
<1>8. ASSUME NEW r \in Requests, LayerStep(r) PROVE PhaseInv'
  <2>1. CASE Exit
    BY <2>1, PhaseOfExit
  <2>2. ASSUME ~Exit PROVE PhaseInv'
    <3>1. /\ UNCHANGED <<status, req>> /\ pc[r] # "idle"
          /\ \A q \in Procs \ {r} : pc'[q] = pc[q]
      BY <1>8, <2>2, LayerFrame
    <3> QED BY <3>1, PhaseOfRequest
  <2> QED BY <2>1, <2>2
<1>9. CASE UNCHANGED vars
  BY <1>9 DEF vars, PhaseInv
<1> QED
  BY <1>1, <1>2, <1>3, <1>4, <1>5, <1>6, <1>7, <1>8, <1>9 DEF Next, StartStep

(* While one goroutine is at work, a lone handler or main, no other is. *)
LEMMA OthersIdle ==
    ASSUME Alone, PhaseInv, NEW p \in Procs, pc[p] # "idle", NEW q \in Procs \ {p}
    PROVE  pc[q] = "idle"
BY DEF Alone, PhaseInv, Procs

-----------------------------------------------------------------------------
(* What a handler reads while nobody writes.                               *)

(* Nobody writes: the slot is all there is to read. *)
LEMMA QuietRead ==
    ASSUME \A p \in Procs : pc[p] \notin Writing
    PROVE  /\ ~Filling
           /\ \A i : PossibleReads(i) = {globalLayers[i]}
<1>1. ASSUME NEW i PROVE {p \in Procs : pc[p] = "store" /\ slot[p].id = i} = {}
  BY DEF Writing
<1>2. ~Filling
  BY DEF Filling, Writing
<1> QED BY <1>1, <1>2 DEF PossibleReads

(* A layer of a directory that a load made was read whole. *)
LEMMA WholeIsRead ==
    ASSUME TypeOK, NEW d, Whole(d, history), NEW i \in Ids
    PROVE  d[i] \in ReadLayer \cup {NoLayer}
<1>1. Now \in Nat
  BY CatalogueType
<1>2. CASE d = EmptyDirectory
  BY <1>2 DEF EmptyDirectory
<1>3. ASSUME NEW fv \in 1..Now, NEW tv \in 0..fv, d = ReadAt(history, tv, fv)
      PROVE  d[i] \in ReadLayer \cup {NoLayer}
  <2>1. fv \in Nat /\ tv \in Nat
    BY <1>1
  <2> QED BY <1>3, <2>1
          DEF ReadAt, Overlay, TableLayer, FunctionLayer, ReadLayer, LayerKinds
<1> QED BY <1>2, <1>3 DEF Whole, Now

(* So what FindLayer takes is a layer that was read, and the one the map   *)
(* holds.                                                                  *)
LEMMA QuietFind ==
    ASSUME WholeInv, NEW r \in Requests, FindLayer(r),
           \A p \in Procs : pc[p] \notin Writing
    PROVE  LET i == Head(todo[r])
           IN  /\ i \in Ids /\ globalLayers[i] \in ReadLayer
               /\ answer' = [answer EXCEPT ![r] =
                     [status |-> "none",
                      layers |-> Append(answer[r].layers,
                                        [id |-> i, layer |-> globalLayers[i]])]]
<1> DEFINE i == Head(todo[r])
<1>1. pc[r] = "find" /\ i \in Ids
  BY HeadTailProperties DEF FindLayer, WholeInv, TypeOK, Procs
<1>2. PICK l \in PossibleReads(i) \ {NoLayer} :
         answer' = [answer EXCEPT ![r] =
             [status |-> "none", layers |-> Append(answer[r].layers, [id |-> i, layer |-> l])]]
  BY DEF FindLayer
<1>3. ~Filling /\ l = globalLayers[i] /\ l # NoLayer
  BY <1>2, QuietRead
<1>4. Whole(globalLayers, history)
  BY <1>3 DEF WholeInv, RegistryIsWhole
<1>5. l \in ReadLayer
  BY <1>1, <1>3, <1>4, WholeIsRead DEF WholeInv
<1> QED BY <1>1, <1>2, <1>3, <1>5

(* A lone handler that looks up a layer does so while nobody writes. *)
LEMMA LoneQuiet ==
    ASSUME Alone, PhaseInv, NEW r \in Requests, pc[r] = "find"
    PROVE  \A p \in Procs : pc[p] \notin Writing
<1>1. \A p \in Procs : pc[p] \in {"find", "idle"}
  BY OthersIdle DEF Procs
<1> QED BY <1>1 DEF Writing

-----------------------------------------------------------------------------
(* Tile requests beside each other.                                        *)

(* Nobody is at work to begin with. *)
LEMMA TileInit == Init => TileInv
BY RegistryAssumption DEF Init, TileInv, Procs

(* Every step keeps TileInv, whatever the number of handlers. *)
LEMMA TileNext == TypeOK /\ TileInv /\ [Next]_vars => TileInv'
<1> SUFFICES ASSUME TypeOK, TileInv, [Next]_vars PROVE TileInv'
  OBVIOUS
<1>m. Main \notin Requests /\ Requests \subseteq Procs
  BY RegistryAssumption DEF Procs
<1>e. CASE Exit
  BY <1>e, <1>m DEF Exit, TileInv
<1>1. CASE CatalogueChanges
  BY <1>1 DEF CatalogueChanges, TileInv
<1>2. CASE Restart \/ LoadVersions
  BY <1>2, <1>m DEF Restart, LoadVersions, Goto, TypeOK, TileInv
<1>3. ASSUME NEW p \in Procs, LoadStep(p), ~Exit PROVE TileInv'
  <2>1. /\ UNCHANGED req
        /\ \A q \in Procs \ {p} : pc'[q] = pc[q]
        /\ pc[p] \notin {"idle", "find", "render"}
    BY <1>3, LoadFrame DEF Writing
  <2> QED BY <2>1, <1>m DEF TileInv
<1>4. ASSUME NEW r \in Requests, Arrive(r) PROVE TileInv'
  <2>1. /\ \A q \in Procs \ {r} : pc'[q] = pc[q] /\ req'[q] = req[q]
        /\ pc'[r] = IF req'[r].kind = "tile" THEN "find" ELSE "tables"
    BY <1>4, ArriveFrame
  <2> QED BY <2>1, <1>m DEF TileInv
<1>5. ASSUME NEW r \in Requests, ListStep(r) PROVE TileInv'
  <2>1. /\ UNCHANGED req
        /\ \A q \in Procs \ {r} : pc'[q] = pc[q]
        /\ pc[r] \notin {"idle", "find", "render"}
    BY <1>5, ListFrame
  <2> QED BY <2>1, <1>m DEF TileInv
<1>6. ASSUME NEW r \in Requests, LayerStep(r), ~Exit PROVE TileInv'
  <2>1. /\ UNCHANGED req
        /\ \A q \in Procs \ {r} : pc'[q] = pc[q]
        /\ pc'[r] \in {"idle", "find", "render"}
    BY <1>6, LayerFrame
  <2> QED BY <2>1, <1>m DEF TileInv
<1>7. CASE UNCHANGED vars
  BY <1>7 DEF vars, TileInv
<1> QED
  BY <1>e, <1>1, <1>2, <1>3, <1>4, <1>5, <1>6, <1>7
  DEF Next, StartStep, LoadVersionsFails

(* While only tiles are under way everybody looks up, renders or waits.    *)
LEMMA OnlyTilesPlaces ==
    ASSUME PhaseInv, TileInv, OnlyTilesRun
    PROVE  \A p \in Procs : pc[p] \in {"idle", "find", "render"}
BY DEF PhaseInv, TileInv, OnlyTilesRun, Procs

(* A step of a handler that serves a layer, the race with a writer apart,  *)
(* leaves the process running.                                             *)
LEMMA LayerStepStays ==
    ASSUME NEW r \in Requests, LayerStep(r), ~MapRace(r), status = "serving"
    PROVE  status' = "serving" /\ ~Exit
<1>1. status' = "serving"
  BY DEF LayerStep, SkipDuplicate, FindLayer, FindNothing, Render, RejectTile,
     RenderDropped, RenderFails, UseHalfStored, UnknownType, Reply, Finish
<1> QED BY <1>1 DEF Exit

(* What a handler adds to its answer.                                      *)
LEMMA TakenByLayerStep ==
    ASSUME WholeInv, NEW r \in Requests, LayerStep(r), ~Exit, NEW q \in Requests,
           \A p \in Procs : pc[p] \notin Writing
    PROVE  Taken(q) \subseteq ReadLayer
<1>0. TypeOK /\ q \in Procs /\ r \in Procs
  BY DEF WholeInv, Procs
<1> DEFINE served == answer[q].layers
<1>1. served \in Seq([id : Ids, layer : SlotLayer])
  BY <1>0 DEF TypeOK
<1>2. ASSUME answer'[q].layers \in {served, <<>>} PROVE Taken(q) \subseteq ReadLayer
  <2>1. Len(answer'[q].layers) \in {Len(served), 0} /\ Len(served) \in Nat
    BY <1>1, <1>2
  <2>2. (Len(served) + 1)..Len(answer'[q].layers) = {}
    BY <2>1
  <2> QED BY <2>2 DEF Taken
<1>3. CASE q # r
  <2>1. answer'[q] = answer[q]
    BY <1>0, <1>3, LayerFrame
  <2> QED BY <2>1, <1>2
<1>4. CASE q = r /\ FindLayer(r)
  <2> DEFINE e == [id |-> Head(todo[r]), layer |-> globalLayers[Head(todo[r])]]
  <2>1. e.layer \in ReadLayer /\ answer'[r].layers = Append(served, e)
    BY <1>0, <1>4, QuietFind DEF TypeOK
  <2> HIDE DEF e
  <2>2. /\ Len(Append(served, e)) = Len(served) + 1 /\ Len(served) \in Nat
        /\ Append(served, e)[Len(served) + 1] = e
    BY <1>1
  <2>3. (Len(served) + 1)..Len(answer'[q].layers) = {Len(served) + 1}
    BY <1>4, <2>1, <2>2
  <2> QED BY <1>4, <2>1, <2>2, <2>3 DEF Taken
<1>5. CASE q = r /\ ~FindLayer(r)
  <2>1. \/ answer' = answer
        \/ answer'[r] \in {Answer(s) : s \in Statuses}
        \/ answer'[r] = [status |-> "ok", layers |-> answer[r].layers]
    BY <1>0, <1>5, LayerFrame DEF Statuses
  <2>2. \A s : Answer(s).layers = <<>>
    BY DEF Answer
  <2>3. answer'[r].layers \in {answer[r].layers, <<>>}
    BY <2>1, <2>2
  <2> QED BY <1>5, <2>3, <1>2
<1> QED BY <1>3, <1>4, <1>5

(* A step taken while only tiles are under way.                            *)
LEMMA OnlyTilesStep ==
    ASSUME WholeInv, PhaseInv, TileInv, OnlyTilesRun, [Next]_vars
    PROVE  /\ status' = "serving"
           /\ UNCHANGED globalLayers /\ Whole(globalLayers, history)
           /\ \A r \in Requests : Taken(r) \subseteq ReadLayer
<1>0. /\ TypeOK /\ status = "serving" /\ Main \in Procs /\ Requests \subseteq Procs
      /\ \A p \in Procs : pc[p] \in {"idle", "find", "render"}
  BY OnlyTilesPlaces DEF WholeInv, OnlyTilesRun, Procs
<1>1. (\A p \in Procs : pc[p] \notin Writing) /\ ~Filling
  BY <1>0, QuietRead DEF Writing
<1>2. Whole(globalLayers, history)
  BY <1>1 DEF WholeInv, RegistryIsWhole
<1>3. ASSUME NEW r \in Requests, Len(answer'[r].layers) \in {Len(answer[r].layers), 0}
      PROVE  Taken(r) \subseteq ReadLayer
  <2>1. Len(answer[r].layers) \in Nat
    BY <1>0 DEF TypeOK
  <2>2. (Len(answer[r].layers) + 1)..Len(answer'[r].layers) = {}
    BY <1>3, <2>1
  <2> QED BY <2>2 DEF Taken
<1>4. CASE CatalogueChanges
  BY <1>0, <1>2, <1>3, <1>4 DEF CatalogueChanges
<1>5. ~Restart /\ ~StartStep
  BY <1>0 DEF Restart, StartStep, LoadVersions, LoadVersionsFails
<1>6. ASSUME NEW p \in Procs PROVE ~LoadStep(p)
  BY <1>0, <1>1 DEF LoadStep, LoadTables, TablesQueryFails, TablesReadFails, LoadFunctions,
     FunctionsReadFails, FunctionRowFatal, FunctionRowPanics, LockAndEmpty, InsertTable,
     InsertFunction, InsertKey, StoreLayer, Unlock
<1>7. ASSUME NEW r \in Requests PROVE ~ListStep(r)
  BY <1>0 DEF ListStep, ListLock, CopyEntry, ListUnlock, WriteList, WriteListFails
<1>8. ASSUME NEW r \in Requests, Arrive(r)
      PROVE  /\ UNCHANGED <<status, globalLayers>>
             /\ \A q \in Requests : Taken(q) \subseteq ReadLayer
  <2>1. /\ UNCHANGED <<status, globalLayers>>
        /\ \A q \in Procs \ {r} : answer'[q] = answer[q]
        /\ answer'[r] = NoAnswer
    BY <1>0, <1>8, ArriveFrame
  <2>2. \A q \in Requests : Len(answer'[q].layers) \in {Len(answer[q].layers), 0}
    BY <1>0, <2>1 DEF NoAnswer
  <2> QED BY <2>1, <2>2, <1>3
<1>9. ASSUME NEW r \in Requests, LayerStep(r)
      PROVE  /\ status' = "serving" /\ UNCHANGED globalLayers
             /\ \A q \in Requests : Taken(q) \subseteq ReadLayer
  <2>1. ~MapRace(r)
    BY <1>0 DEF MapRace
  <2>2. status' = "serving" /\ ~Exit
    BY <1>0, <1>9, <2>1, LayerStepStays
  <2>3. UNCHANGED globalLayers
    BY <1>0, <1>9, <2>2, LayerFrame
  <2> QED BY <1>1, <1>9, <2>2, <2>3, TakenByLayerStep
<1>10. CASE UNCHANGED vars
  BY <1>0, <1>2, <1>3, <1>10 DEF vars
<1> QED BY <1>0, <1>2, <1>4, <1>5, <1>6, <1>7, <1>8, <1>9, <1>10 DEF Next

(* Any number of tile requests at once, whatever fails and whatever the    *)
(* catalogue becomes: while they are alone, nobody writes the registry,    *)
(* no lookup ends the process and none takes a half-stored layer           *)
(* (getLayer).  Only a list, a detail or a preview beside them can do      *)
(* that.                                                                   *)
THEOREM TilesNeverDisturb == Spec => TilesDoNotDisturb
<1> DEFINE Inv == WholeInv /\ PhaseInv /\ TileInv
<1>1. Init => Inv
  BY WholeInit, PhaseInit, TileInit
<1>2. Inv /\ [Next]_vars => Inv'
  BY WholeNext, PhaseNext, TileNext DEF WholeInv
<1>3. Inv /\ [Next]_vars =>
         [OnlyTilesRun =>
             /\ status' = "serving"
             /\ UNCHANGED globalLayers /\ Whole(globalLayers, history)
             /\ \A r \in Requests : Taken(r) \subseteq ReadLayer]_vars
  BY OnlyTilesStep
<1> HIDE DEF Inv
<1> QED BY <1>1, <1>2, <1>3, PTL DEF Spec, TilesDoNotDisturb

-----------------------------------------------------------------------------
(* What a load says of the catalogue.                                      *)

(* What was read since a catalogue was read since the first. *)
LEMMA SinceTheFirst ==
    ASSUME NEW h \in Seq(Catalogs), NEW v \in 1..Len(h), NEW d, ReadSince(d, h, v)
    PROVE  ReadSince(d, h, 1)
<1>1. Len(h) \in Nat /\ v \in Nat /\ v >= 1
  OBVIOUS
<1>2. PICK fv \in v..Len(h) : \E tv \in v..fv : d = ReadAt(h, tv, fv)
  BY DEF ReadSince
<1>3. PICK tv \in v..fv : d = ReadAt(h, tv, fv)
  BY <1>2
<1>4. fv \in 1..Len(h) /\ tv \in 1..fv
  BY <1>1
<1> QED BY <1>3, <1>4 DEF ReadSince

(* It stays so when the catalogue changes. *)
LEMMA SinceGrows ==
    ASSUME NEW h \in Seq(Catalogs), NEW c \in Catalogs, NEW v \in 1..Len(h), NEW d,
           ReadSince(d, h, v)
    PROVE  ReadSince(d, Append(h, c), v)
<1> DEFINE g == Append(h, c)
<1>1. /\ Len(g) = Len(h) + 1 /\ Len(h) \in Nat /\ v \in Nat \ {0}
      /\ \A k \in 1..Len(h) : g[k] = h[k]
  OBVIOUS
<1> HIDE DEF g
<1>2. PICK fv \in v..Len(h) : \E tv \in v..fv : d = ReadAt(h, tv, fv)
  BY DEF ReadSince
<1>3. PICK tv \in v..fv : d = ReadAt(h, tv, fv)
  BY <1>2
<1>4. fv \in 1..Len(h) /\ tv \in 1..Len(h) /\ fv \in v..Len(g)
  BY <1>1
<1>5. ReadAt(g, tv, fv) = ReadAt(h, tv, fv)
  BY <1>1, <1>4 DEF ReadAt
<1> QED BY <1>3, <1>4, <1>5 DEF ReadSince, g

(* A name without a layer is missing from what was read. *)
LEMMA AbsentWhenRead ==
    ASSUME NEW h \in Seq(Catalogs), NEW v \in 1..Len(h), NEW d, ReadSince(d, h, v),
           NEW i \in Ids, d[i] = NoLayer
    PROVE  \E tv, fv \in v..Len(h) :
               i \notin h[tv].tables /\ i \notin h[fv].functions
<1>1. PICK fv \in v..Len(h) : \E tv \in v..fv : d = ReadAt(h, tv, fv)
  BY DEF ReadSince
<1>2. PICK tv \in v..fv : d = ReadAt(h, tv, fv)
  BY <1>1
<1>3. tv \in v..Len(h) /\ tv # 0
  BY <1>1, <1>2
<1>4. i \notin h[tv].tables /\ i \notin h[fv].functions
  BY <1>2, <1>3 DEF ReadAt, Overlay, NoLayer, TableLayer, FunctionLayer
<1> QED BY <1>3, <1>4

(* A layer bears the number of a catalogue it was read from. *)
LEMMA RevWhenRead ==
    ASSUME NEW h \in Seq(Catalogs), NEW v \in 1..Len(h), NEW d, ReadSince(d, h, v),
           NEW i \in Ids, d[i] \in ReadLayer
    PROVE  d[i].rev \in v..Len(h)
<1>1. PICK fv \in v..Len(h) : \E tv \in v..fv : d = ReadAt(h, tv, fv)
  BY DEF ReadSince
<1>2. PICK tv \in v..fv : d = ReadAt(h, tv, fv)
  BY <1>1
<1>3. tv \in v..Len(h) /\ tv # 0
  BY <1>1, <1>2
<1>4. d[i] = TableLayer(tv) \/ d[i] = FunctionLayer(fv)
  BY <1>2, <1>3 DEF ReadAt, Overlay, NoLayer, TableLayer, FunctionLayer, ReadLayer, LayerKinds
<1> QED BY <1>3, <1>4 DEF TableLayer, FunctionLayer

-----------------------------------------------------------------------------
(* Answers are current.                                                    *)

(* A goroutine that no step concerns. *)
LEMMA FreshKept ==
    ASSUME NEW p \in Procs, Fresh(p), pc'[p] = pc[p], load'[p] = load[p],
           req'[p] = req[p], arrived'[p] = arrived[p],
           UNCHANGED <<history, globalLayers>>
    PROVE  Fresh(p)'
BY DEF Fresh, Now

(* A goroutine that is idle, or has only begun its load. *)
LEMMA FreshIdle ==
    ASSUME NEW p \in Procs, arrived'[p] \in 1..Now',
           pc'[p] \in {"idle", "tables"}, pc'[p] = "tables" => req'[p].kind # "tile"
    PROVE  Fresh(p)'
BY DEF Fresh, Loaded, Writing, Now

(* A goroutine on its way with the registry it found. *)
LEMMA FreshOnTheWay ==
    ASSUME NEW p \in Procs, Fresh(p), pc[p] \in Loaded, pc'[p] \in Loaded,
           req'[p] = req[p], arrived'[p] = arrived[p],
           UNCHANGED <<history, globalLayers>>
    PROVE  Fresh(p)'
BY DEF Fresh, Loaded, Writing, Now

(* A request that no step concerns. *)
LEMMA ToldKept ==
    ASSUME NEW r \in Requests, Told(r), pc'[r] = pc[r], answer'[r] = answer[r],
           listing'[r] = listing[r], todo'[r] = todo[r], req'[r] = req[r],
           arrived'[r] = arrived[r], UNCHANGED history
    PROVE  Told(r)'
BY DEF Told, SinceArrival, Now

(* A request that has no answer yet, or ends with one that says nothing    *)
(* of layers.                                                              *)
LEMMA ToldNothing ==
    ASSUME NEW r \in Requests,
           \/ answer'[r] = NoAnswer
           \/ \E s \in Statuses \ {"ok", "notfound"} : pc'[r] = "idle" /\ answer'[r] = Answer(s),
           pc'[r] \in {"listlock", "copy", "write"} => req'[r].kind = "list",
           pc'[r] \in {"find", "render"} => req'[r].kind # "list",
           pc'[r] # "write"
    PROVE  Told(r)'
<1>1. answer'[r].layers = <<>> /\ answer'[r].status \notin {"ok", "notfound"}
  <2>1. CASE answer'[r] = NoAnswer
    BY <2>1 DEF NoAnswer
  <2>2. ASSUME NEW s \in Statuses \ {"ok", "notfound"}, answer'[r] = Answer(s)
        PROVE  answer'[r].layers = <<>> /\ answer'[r].status \notin {"ok", "notfound"}
    BY <2>2 DEF Answer
  <2> QED BY <2>1, <2>2
<1>2. pc'[r] # "idle" => answer'[r].status = "none"
  BY DEF NoAnswer
<1>3. \A k \in 1..Len(answer'[r].layers) : FALSE
  BY <1>1
<1> QED BY <1>1, <1>2, <1>3 DEF Told

(* The registry is left alone while nobody fills it. *)
LEMMA PublishedKept ==
    ASSUME Published, status' = status, UNCHANGED <<history, globalLayers>>,
           status = "serving" => ~Filling
    PROVE  Published'
BY DEF Published

(* The first catalogue is the oldest any request can have met. *)
LEMMA CurrentInit == Init => CurrentInv
<1> SUFFICES ASSUME Init PROVE CurrentInv
  OBVIOUS
<1>1. Now \in Nat \ {0}
  BY TypeInit, CatalogueType
<1>2. ASSUME NEW p \in Procs PROVE Fresh(p)
  BY <1>1 DEF Init, Fresh, Loaded, Writing, Startup
<1>3. ASSUME NEW r \in Requests PROVE Told(r)
  BY RegistryAssumption DEF Init, Told, NoAnswer, Procs
<1> QED BY <1>2, <1>3 DEF CurrentInv, Published, Init

(* The catalogue changes: what was read since a moment still was. *)
LEMMA CurrentCatalogue ==
    ASSUME TypeOK, CurrentInv, CatalogueChanges
    PROVE  CurrentInv'
<1>1. PICK c \in Catalogs : history' = Append(history, c)
  BY DEF CatalogueChanges
<1>2. UNCHANGED <<status, globalLayers, pc, req, todo, load, listing, answer, arrived>>
  BY DEF CatalogueChanges
<1>3. /\ history \in Seq(Catalogs) /\ Now \in Nat \ {0} /\ Now' = Now + 1
      /\ \A k \in 1..Now : history'[k] = history[k]
  BY <1>1, CatalogueType DEF TypeOK, Now
<1>4. ASSUME NEW d, NEW v \in 1..Now, ReadSince(d, history, v)
      PROVE  ReadSince(d, history', v)
  BY <1>1, <1>3, <1>4, SinceGrows DEF Now
<1>5. ASSUME NEW p \in Procs PROVE Fresh(p)'
  <2>1. Fresh(p)
    BY DEF CurrentInv
  <2> QED BY <1>2, <1>3, <1>4, <2>1 DEF Fresh
<1>6. Published'
  <2>1. 1 \in 1..Now
    BY <1>3
  <2> QED BY <1>2, <1>4, <2>1 DEF CurrentInv, Published, Filling
<1>7. ASSUME NEW r \in Requests PROVE Told(r)'
  <2>1. Told(r) /\ arrived[r] \in 1..Now
    BY DEF CurrentInv, Fresh, Procs
  <2>2. \A v \in 1..Now : v..Now \subseteq (v..Now)' /\ v..Now \subseteq 1..Now
    BY <1>3
  <2>3. SinceArrival(r) \subseteq SinceArrival(r)' /\ SinceArrival(r) \subseteq 1..Now
    BY <1>2, <2>1, <2>2 DEF SinceArrival
  <2>4. ASSUME answer[r].status = "notfound"
        PROVE  \E tv, fv \in IF req[r].kind = "tile" THEN (1..Now)' ELSE SinceArrival(r)' :
                  /\ Head(todo[r]) \notin history'[tv].tables
                  /\ Head(todo[r]) \notin history'[fv].functions
    <3>1. PICK tv, fv \in IF req[r].kind = "tile" THEN 1..Now ELSE SinceArrival(r) :
             /\ Head(todo[r]) \notin history[tv].tables
             /\ Head(todo[r]) \notin history[fv].functions
      BY <2>1, <2>4 DEF Told
    <3>2. tv \in 1..Now /\ fv \in 1..Now
      BY <2>3, <3>1
    <3>3. /\ tv \in IF req[r].kind = "tile" THEN (1..Now)' ELSE SinceArrival(r)'
          /\ fv \in IF req[r].kind = "tile" THEN (1..Now)' ELSE SinceArrival(r)'
      BY <2>3, <3>1, <1>3
    <3> QED BY <1>3, <3>1, <3>2, <3>3
  <2> QED BY <1>2, <1>4, <2>1, <2>3, <2>4 DEF Told
<1> QED BY <1>5, <1>6, <1>7 DEF CurrentInv

(* The process dies, and with it all that was told. *)
LEMMA CurrentExit ==
    ASSUME TypeOK, Exit, UNCHANGED history
    PROVE  CurrentInv'
<1>1. Now' \in Nat \ {0}
  BY CatalogueType DEF Now
<1>2. ASSUME NEW p \in Procs PROVE Fresh(p)'
  BY <1>1, FreshIdle DEF Exit
<1>3. ASSUME NEW r \in Requests PROVE Told(r)'
  BY ToldNothing DEF Exit, Procs
<1> QED BY <1>2, <1>3 DEF CurrentInv, Published, Exit

(* A load by main or by the lone handler, that does not end the process.   *)
LEMMA CurrentLoad ==
    ASSUME Alone, NothingFails, WholeInv, PhaseInv, CurrentInv,
           NEW p \in Procs, LoadStep(p), ~Exit
    PROVE  CurrentInv'
<1> USE DEF Writing
<1>0. TypeOK /\ LoadInv /\ FillInv /\ Now \in Nat \ {0} /\ history \in Seq(Catalogs)
  BY CatalogueType DEF WholeInv, TypeOK
<1>1. /\ UNCHANGED <<status, history, req, todo, listing, arrived>>
      /\ \A q \in Procs \ {p} : pc'[q] = pc[q] /\ answer'[q] = answer[q]
      /\ pc[p] \in {"tables", "functions", "lock"} \cup Writing
  BY <1>0, LoadFrame
<1>2. \A q \in Procs \ {p} : pc[q] = "idle"
  BY <1>1, OthersIdle
<1>3. \A q \in Procs : arrived'[q] \in 1..Now' /\ Fresh(q)
  BY <1>1 DEF CurrentInv, Fresh, Now
<1>4. ASSUME NEW q \in Procs \ {p} PROVE Fresh(q)'
  BY <1>1, <1>2, <1>3, FreshIdle
<1>f. ~Fault
  BY <1>0 DEF NothingFails, Fault, TypeOK
<1>5. \/ LoadTables(p) /\ pc'[p] = "functions"
      \/ LoadFunctions(p) /\ pc'[p] = "lock"
      \/ FunctionRowPanics(p) /\ pc'[p] = "idle" /\ p # Main
      \/ pc[p] \in {"lock"} \cup Writing /\ pc'[p] \in Writing /\ UNCHANGED load
      \/ Unlock(p)
  <2>1. ~TablesQueryFails(p) /\ ~TablesReadFails(p) /\ ~FunctionsReadFails(p)
        /\ ~FunctionRowFatal(p)
    BY <1>f DEF TablesQueryFails, TablesReadFails, FunctionsReadFails, FunctionRowFatal
  <2>2. CASE LoadTables(p) \/ LoadFunctions(p)
    BY <2>2, <1>0 DEF LoadTables, LoadFunctions, Goto, TypeOK
  <2>3. CASE FunctionRowPanics(p)
    BY <2>3, <1>0 DEF FunctionRowPanics, GiveUp, Finish, Goto, TypeOK
  <2>4. CASE LockAndEmpty(p) \/ InsertTable(p) \/ InsertFunction(p)
    BY <2>4, <1>0 DEF LockAndEmpty, InsertTable, InsertFunction, Goto, TypeOK
  <2>5. CASE InsertKey(p) \/ StoreLayer(p)
    BY <2>5, <1>0 DEF InsertKey, StoreLayer, Goto, TypeOK
  <2> QED BY <2>1, <2>2, <2>3, <2>4, <2>5 DEF LoadStep
<1>6. Fresh(p)'
  <2>1. CASE LoadTables(p) /\ pc'[p] = "functions"
    <3>1. load'[p].tv = Now
      BY <2>1, <1>0 DEF LoadTables, TypeOK
    <3> QED BY <2>1, <3>1, <1>0, <1>1, <1>3 DEF Fresh, Loaded, Now
  <2>2. CASE LoadFunctions(p) /\ pc'[p] = "lock"
    <3>1. load'[p].tv = load[p].tv /\ pc[p] = "functions"
      BY <2>2, <1>0 DEF LoadFunctions, TypeOK
    <3> QED BY <2>2, <3>1, <1>1, <1>3 DEF Fresh, Loaded, Now
  <2>3. CASE pc'[p] = "idle"
    BY <2>3, <1>3, FreshIdle
  <2>4. CASE pc[p] \in {"lock"} \cup Writing /\ pc'[p] \in Writing /\ UNCHANGED load
    BY <2>4, <1>1, <1>3 DEF Fresh, Loaded, Now
  <2>5. CASE Unlock(p)
    <3>1. /\ pc[p] = "fill" /\ TablesLeft(p) = {} /\ FunctionsLeft(p) = {}
          /\ globalLayers' = globalLayers
      BY <2>5 DEF Unlock
    <3> DEFINE l == load[p]
    <3>2. globalLayers = Overlay(l.tables, l.tv, l.functions, l.fv)
      BY <1>0, <3>1, FilledIsOverlay
    <3>3. l.tv >= arrived[p] /\ arrived[p] \in 1..Now
      BY <3>1, <1>3 DEF Fresh
    <3>4. TablesRead(p) /\ FunctionsRead(p)
      BY <1>0, <3>1 DEF LoadInv
    <3>5. /\ l.tv \in 1..Now /\ l.tables = history[l.tv].tables
          /\ l.fv \in 1..Now /\ l.tv \in 0..l.fv
          /\ l.functions = history[l.fv].functions
      BY <1>0, <3>3, <3>4 DEF TablesRead, FunctionsRead
    <3>6. l.fv \in arrived[p]..Now /\ l.tv \in arrived[p]..l.fv /\ l.tv # 0
      BY <1>0, <3>3, <3>5
    <3>7. globalLayers = ReadAt(history, l.tv, l.fv)
      BY <3>2, <3>5, <3>6 DEF ReadAt
    <3>8. ReadSince(globalLayers, history, arrived[p])
      BY <3>6, <3>7 DEF ReadSince, Now
    <3>9. pc'[p] \in {"versions", "listlock", "find"}
      BY <2>5, <1>0 DEF Unlock, Goto, TypeOK
    <3> QED BY <3>1, <3>8, <3>9, <1>1, <1>3 DEF Fresh, Now
  <2> QED BY <1>5, <2>1, <2>2, <2>3, <2>4, <2>5
<1>7. ASSUME NEW r \in Requests PROVE Told(r)'
  <2>1. Told(r) /\ r \in Procs
    BY DEF CurrentInv, Procs
  <2>2. CASE r # p
    BY <2>1, <2>2, <1>1, ToldKept
  <2>3. CASE r = p
    <3>1. answer[r].status = "none"
      BY <2>1, <2>3, <1>1 DEF Told
    <3>2. ASSUME UNCHANGED answer,
                 \/ pc'[p] \in {"functions", "lock"} \cup Writing
                 \/ pc'[p] = "versions"
                 \/ pc'[p] = "listlock" /\ req[p].kind = "list"
                 \/ pc'[p] = "find" /\ req[p].kind \notin {"start", "list"}
          PROVE  Told(r)'
      BY <2>1, <2>3, <3>1, <3>2, <1>1 DEF Told, SinceArrival, Now
    <3>3. ASSUME pc'[p] = "idle", answer'[p] \in {Answer("error"), Answer("aborted")}
          PROVE  Told(r)'
      BY <2>3, <3>3, ToldNothing DEF Statuses
    <3> QED BY <3>2, <3>3, <1>0, LoadFrame
  <2> QED BY <2>2, <2>3
<1>8. Published'
  <2>1. CASE p = Main
    BY <2>1, <1>1 DEF PhaseInv, Published
  <2>2. CASE pc'[p] \in Writing
    BY <2>2 DEF Published, Filling
  <2>3. CASE Unlock(p) /\ p # Main
    <3>1. pc'[p] \in {"versions", "listlock", "find"} /\ globalLayers' = globalLayers
      BY <2>3, <1>0 DEF Unlock, Goto, TypeOK
    <3>2. p \in Requests /\ pc[p] = "fill"
      BY <2>3 DEF Procs, Unlock
    <3>3. req[p].kind # "tile" => ReadSince(globalLayers, history, arrived[p])
      BY <1>1, <1>6, <3>1 DEF Fresh, Loaded
    <3>4. req[p].kind # "tile"
      BY <3>2, <1>3 DEF Fresh
    <3> QED BY <1>0, <1>1, <1>3, <3>1, <3>3, <3>4, SinceTheFirst DEF Published, Now
  <2>4. CASE /\ LoadTables(p) \/ LoadFunctions(p) \/ FunctionRowPanics(p)
             /\ p # Main
    <3>1. pc[p] \in {"tables", "functions"} /\ UNCHANGED globalLayers
      BY <2>4 DEF LoadTables, LoadFunctions, FunctionRowPanics, GiveUp, Finish
    <3>2. ~Filling
      BY <3>1, <1>2 DEF Filling
    <3> QED BY <3>1, <3>2, <1>1, PublishedKept DEF CurrentInv
  <2> QED BY <1>5, <2>1, <2>2, <2>3, <2>4
<1> QED BY <1>4, <1>6, <1>7, <1>8 DEF CurrentInv

(* The lone list handler copies the registry that its load has left.       *)
LEMMA CurrentList ==
    ASSUME Alone, WholeInv, PhaseInv, CurrentInv, NEW r \in Requests, ListStep(r)
    PROVE  CurrentInv'
<1>0. TypeOK /\ CopyInv /\ r \in Procs
  BY DEF WholeInv, Procs
<1>1. /\ UNCHANGED <<status, history, globalLayers, req, todo, slot, arrived>>
      /\ \A q \in Procs \ {r} :
            /\ pc'[q] = pc[q] /\ load'[q] = load[q]
            /\ answer'[q] = answer[q] /\ listing'[q] = listing[q]
      /\ pc[r] \in {"listlock", "copy", "write"}
  BY <1>0, ListFrame
<1>2. Told(r) /\ \A q \in Procs : Fresh(q)
  BY DEF CurrentInv
<1>3. answer[r].status = "none" /\ req[r].kind = "list"
  BY <1>1, <1>2 DEF Told
<1>4. ReadSince(globalLayers, history, arrived[r])
  BY <1>1, <1>2, <1>3, <1>0 DEF Fresh, Loaded
<1>5. \/ UNCHANGED answer /\ pc'[r] = "copy"
      \/ ListUnlock(r) /\ UNCHANGED answer /\ pc'[r] = "write"
      \/ /\ pc[r] = "write" /\ pc'[r] = "idle" /\ UNCHANGED listing
         /\ answer'[r] \in {Answer("ok"), Answer("error")}
  BY <1>0, ListFrame
<1>6. ASSUME NEW q \in Procs PROVE Fresh(q)'
  <2>1. CASE q # r
    BY <2>1, <1>1, <1>2, FreshKept
  <2>2. CASE q = r /\ pc'[r] = "idle"
    BY <2>2, <1>1, <1>2, FreshIdle DEF Fresh, Now
  <2>3. CASE q = r /\ pc'[r] \in {"copy", "write"}
    BY <2>3, <1>0, <1>1, <1>2, FreshOnTheWay DEF Loaded
  <2> QED BY <1>5, <2>1, <2>2, <2>3
<1>7. ASSUME NEW q \in Requests PROVE Told(q)'
  <2>1. CASE q # r
    <3>1. Told(q) /\ q \in Procs
      BY DEF CurrentInv, Procs
    <3> QED BY <2>1, <3>1, <1>1, ToldKept
  <2>2. CASE q = r /\ UNCHANGED answer /\ pc'[r] = "copy"
    BY <2>2, <1>1, <1>3 DEF Told
  <2>3. CASE q = r /\ ListUnlock(r) /\ UNCHANGED answer /\ pc'[r] = "write"
    <3>1. listing[r] = globalLayers /\ UNCHANGED listing
      <4>1. \A i \in Ids : listing[r][i] = globalLayers[i]
        BY <2>3, <1>0 DEF ListUnlock, Uncopied, CopyInv
      <4>2. listing[r] \in [Ids -> SlotLayer] /\ globalLayers \in [Ids -> SlotLayer]
        BY <2>3, <1>0 DEF ListUnlock, TypeOK
      <4> QED BY <2>3, <4>1, <4>2 DEF ListUnlock
    <3> QED BY <2>3, <3>1, <1>1, <1>3, <1>4 DEF Told
  <2>4. CASE /\ q = r /\ pc[r] = "write" /\ pc'[r] = "idle" /\ UNCHANGED listing
             /\ answer'[r] = Answer("ok")
    BY <2>4, <1>1, <1>2, <1>3 DEF Told, Answer
  <2>5. CASE q = r /\ pc'[r] = "idle" /\ answer'[r] = Answer("error")
    BY <2>5, ToldNothing DEF Statuses
  <2> QED BY <1>5, <2>1, <2>2, <2>3, <2>4, <2>5
<1>8. Published'
  <2>1. status = "serving" => ~Filling'
    <3>1. pc'[r] \in {"copy", "write", "idle"}
      BY <1>5
    <3>2. \A q \in Procs \ {r} : pc'[q] = "idle"
      BY <1>0, <1>1, OthersIdle
    <3> QED BY <3>1, <3>2 DEF Filling
  <2>2. ~Filling
    <3>1. \A q \in Procs \ {r} : pc[q] = "idle"
      BY <1>0, <1>1, OthersIdle
    <3> QED BY <1>1, <3>1 DEF Filling
  <2> QED BY <1>1, <2>2, PublishedKept DEF CurrentInv
<1> QED BY <1>6, <1>7, <1>8 DEF CurrentInv

(* A request arrives: it has told nothing yet.                             *)
LEMMA CurrentArrive ==
    ASSUME Alone, WholeInv, PhaseInv, CurrentInv, NEW r \in Requests, Arrive(r)
    PROVE  CurrentInv'
<1>0. TypeOK /\ r \in Procs /\ Now \in Nat \ {0}
  BY CatalogueType DEF WholeInv, Procs
<1>1. /\ UNCHANGED <<status, history, globalLayers, globalLayersMutex, load, slot>>
      /\ \A q \in Procs \ {r} :
            /\ pc'[q] = pc[q] /\ answer'[q] = answer[q] /\ listing'[q] = listing[q]
            /\ req'[q] = req[q] /\ arrived'[q] = arrived[q] /\ todo'[q] = todo[q]
      /\ status = "serving" /\ pc[r] = "idle" /\ req'[r] \in Asked
      /\ pc'[r] = IF req'[r].kind = "tile" THEN "find" ELSE "tables"
      /\ answer'[r] = NoAnswer /\ arrived'[r] = Now
  BY <1>0, ArriveFrame
<1>2. ASSUME NEW q \in Procs PROVE Fresh(q)'
  <2>1. CASE q # r
    BY <2>1, <1>1, FreshKept DEF CurrentInv
  <2>2. CASE q = r /\ req'[r].kind = "tile"
    BY <2>2, <1>0, <1>1 DEF Fresh, Writing, Now
  <2>3. CASE q = r /\ req'[r].kind # "tile"
    BY <2>3, <1>0, <1>1, FreshIdle DEF Now
  <2> QED BY <2>1, <2>2, <2>3
<1>3. ASSUME NEW q \in Requests PROVE Told(q)'
  <2>1. CASE q # r
    BY <2>1, <1>1, ToldKept DEF CurrentInv, Procs
  <2>2. CASE q = r
    BY <2>2, <1>1, ToldNothing
  <2> QED BY <2>1, <2>2
<1>4. Published'
  <2>1. \A q \in Procs : pc[q] = "idle"
    BY <1>1, RegistryAssumption DEF PhaseInv, Procs, Alone
  <2>2. ~Filling
    BY <2>1 DEF Filling
  <2> QED BY <1>1, <2>2, PublishedKept DEF CurrentInv
<1> QED BY <1>2, <1>3, <1>4 DEF CurrentInv

(* The lone handler finds, or does not find, a layer in the registry that  *)
(* its own load has left, or for a tile some load.                         *)
LEMMA CurrentLayer ==
    ASSUME Alone, WholeInv, PhaseInv, CurrentInv, NEW r \in Requests, LayerStep(r), ~Exit
    PROVE  CurrentInv'
<1>0. TypeOK /\ r \in Procs /\ Now \in Nat \ {0} /\ history \in Seq(Catalogs)
  BY CatalogueType DEF WholeInv, TypeOK, Procs
<1>1. /\ UNCHANGED <<status, history, globalLayers, req, listing, arrived>>
      /\ \A q \in Procs \ {r} :
            /\ pc'[q] = pc[q] /\ load'[q] = load[q]
            /\ answer'[q] = answer[q] /\ todo'[q] = todo[q]
      /\ pc[r] \in {"find", "render"}
  BY <1>0, LayerFrame
<1>2. Told(r) /\ (\A q \in Procs : Fresh(q)) /\ arrived[r] \in 1..Now
  BY <1>0 DEF CurrentInv, Fresh
<1>3. answer[r].status = "none" /\ req[r].kind # "list"
  BY <1>1, <1>2 DEF Told
<1>4. req[r].kind # "tile" => ReadSince(globalLayers, history, arrived[r])
  BY <1>0, <1>1, <1>2 DEF Fresh, Loaded
<1>5. /\ pc'[r] \in {"find", "render", "idle"}
      /\ \A q \in Procs \ {r} : pc[q] = "idle" /\ pc'[q] = "idle"
  BY <1>0, <1>1, OthersIdle, LayerFrame
<1>6. ASSUME NEW q \in Procs PROVE Fresh(q)'
  <2>1. CASE q # r
    BY <2>1, <1>1, <1>2, FreshKept
  <2>2. CASE q = r /\ pc'[r] = "idle"
    BY <2>2, <1>1, <1>2, FreshIdle DEF Now
  <2>3. CASE q = r /\ pc'[r] \in {"find", "render"}
    BY <2>3, <1>0, <1>1, <1>2, FreshOnTheWay DEF Loaded
  <2> QED BY <1>5, <2>1, <2>2, <2>3
<1>7. Published'
  <2>1. ~Filling
    BY <1>1, <1>5 DEF Filling
  <2> QED BY <1>1, <2>1, PublishedKept DEF CurrentInv
<1>8. ASSUME NEW q \in Requests PROVE Told(q)'
  <2>1. CASE q # r
    BY <2>1, <1>1, ToldKept DEF CurrentInv, Procs
  <2>2. CASE q = r /\ UNCHANGED answer /\ pc'[r] = "find"
    BY <2>2, <1>1, <1>2, <1>3 DEF Told, SinceArrival, Now
  <2>3. CASE q = r /\ FindLayer(r) /\ pc'[r] = "render"
    <3> DEFINE served == answer[r].layers
               i == Head(todo[r])
               e == [id |-> i, layer |-> globalLayers[i]]
    <3>1. /\ i \in Ids /\ globalLayers[i] \in ReadLayer
          /\ answer' = [answer EXCEPT ![r] = [status |-> "none", layers |-> Append(served, e)]]
      BY <2>3, LoneQuiet, QuietFind DEF FindLayer
    <3>2. answer'[r].layers = Append(served, e) /\ answer'[r].status = "none"
      BY <3>1, <1>0 DEF TypeOK
    <3>3. served \in Seq([id : Ids, layer : SlotLayer])
      BY <1>0 DEF TypeOK
    <3>4. ASSUME req[r].kind # "tile"
          PROVE  e.layer.rev \in SinceArrival(r)
      BY <3>1, <3>4, <1>0, <1>2, <1>4, RevWhenRead DEF SinceArrival, Now
    <3>5. req[r].kind \in {"detail", "preview"} =>
             \A k \in 1..Len(served) : served[k].layer.rev \in SinceArrival(r)
      BY <1>2 DEF Told
    <3> HIDE DEF served, e
    <3>6. /\ Len(Append(served, e)) = Len(served) + 1 /\ Len(served) \in Nat
          /\ \A k \in 1..Len(served) : Append(served, e)[k] = served[k]
          /\ Append(served, e)[Len(served) + 1] = e
      BY <3>3
    <3>7. ASSUME req[r].kind \in {"detail", "preview"},
                 NEW k \in 1..Len(Append(served, e))
          PROVE  Append(served, e)[k].layer.rev \in SinceArrival(r)
      <4>1. k \in 1..Len(served) \/ k = Len(served) + 1
        BY <3>6
      <4> QED BY <4>1, <3>4, <3>5, <3>6, <3>7
    <3>8. SinceArrival(r)' = SinceArrival(r)
      BY <1>1 DEF SinceArrival, Now
    <3> QED BY <2>3, <3>2, <3>7, <3>8, <1>1, <1>3 DEF Told
  <2>4. ASSUME q = r, pc'[r] = "idle",
               answer'[r] \in {Answer("badrequest"), Answer("error"), Answer("aborted"),
                               Answer("unknown")}
        PROVE  Told(q)'
    BY <2>4, ToldNothing DEF Statuses
  <2>5. CASE /\ q = r /\ FindNothing(r) /\ pc'[r] = "idle" /\ UNCHANGED todo
             /\ answer'[r] = Answer("notfound")
    <3> DEFINE i == Head(todo[r])
    <3>1. pc[r] = "find" /\ todo[r] # <<>> /\ globalLayers[i] = NoLayer
      BY <2>5 DEF FindNothing
    <3>2. i \in Ids
      BY <3>1, <1>0, HeadTailProperties DEF TypeOK
    <3>3. status = "serving" /\ ~Filling
      BY <3>1, LoneQuiet, QuietRead DEF PhaseInv
    <3>4. req[r].kind = "tile" => ReadSince(globalLayers, history, 1)
      BY <3>3 DEF CurrentInv, Published
    <3> DEFINE first == IF req[r].kind = "tile" THEN 1 ELSE arrived[r]
    <3>5. first \in 1..Now /\ ReadSince(globalLayers, history, first)
      BY <3>4, <1>0, <1>2, <1>4
    <3>6. \E tv, fv \in first..Now : i \notin history[tv].tables /\ i \notin history[fv].functions
      BY <3>1, <3>2, <3>5, <1>0, AbsentWhenRead DEF Now
    <3>7. first..Now = IF req[r].kind = "tile" THEN 1..Now ELSE SinceArrival(r)
      BY DEF SinceArrival
    <3>8. \E tv, fv \in IF req[r].kind = "tile" THEN 1..Now ELSE SinceArrival(r) :
             i \notin history[tv].tables /\ i \notin history[fv].functions
      BY <3>6, <3>7
    <3>9. /\ answer'[r].status = "notfound"
          /\ \A k \in 1..Len(answer'[r].layers) : FALSE
      BY <2>5 DEF Answer
    <3>10. Now' = Now /\ SinceArrival(r)' = SinceArrival(r)
      BY <1>1 DEF SinceArrival, Now
    <3> QED BY <2>5, <3>8, <3>9, <3>10, <1>1 DEF Told
  <2>6. CASE /\ q = r /\ pc'[r] = "idle"
             /\ answer'[r] = [status |-> "ok", layers |-> answer[r].layers]
    BY <2>6, <1>1, <1>2, <1>3 DEF Told, SinceArrival, Now
  <2> QED
    BY <1>0, <2>1, <2>2, <2>3, <2>4, <2>5, <2>6, LayerFrame
<1> QED BY <1>6, <1>7, <1>8 DEF CurrentInv

(* No step of a lone handler, and of main before it, breaks CurrentInv.    *)
LEMMA CurrentNext ==
    ASSUME Alone, NothingFails
    PROVE  WholeInv /\ PhaseInv /\ CurrentInv /\ [Next]_vars => CurrentInv'
<1> SUFFICES ASSUME WholeInv, PhaseInv, CurrentInv, [Next]_vars PROVE CurrentInv'
  OBVIOUS
<1>0. /\ TypeOK /\ Main \in Procs /\ Main \notin Requests /\ Now \in Nat \ {0}
      /\ history \in Seq(Catalogs)
  BY CatalogueType, RegistryAssumption DEF WholeInv, TypeOK, Procs
<1>e. ASSUME Exit, UNCHANGED history PROVE CurrentInv'
  BY <1>e, <1>0, CurrentExit
<1>1. CASE CatalogueChanges
  BY <1>1, <1>0, CurrentCatalogue
<1>2. ASSUME pc[Main] \in {"idle", "versions"}, pc'[Main] \in {"idle", "tables"},
             \A q \in Procs \ {Main} : pc'[q] = pc[q],
             UNCHANGED <<history, globalLayers, req, todo, load, listing, answer, arrived>>,
             Published'
      PROVE  CurrentInv'
  <2>1. ASSUME NEW q \in Procs PROVE Fresh(q)'
    <3>1. Fresh(q)
      BY DEF CurrentInv
    <3>2. CASE q # Main
      BY <3>1, <3>2, <1>2, FreshKept
    <3>3. CASE q = Main
      <4>1. arrived'[q] \in 1..Now' /\ req'[q].kind # "tile"
        BY <3>1, <3>3, <1>2 DEF Fresh, Now, PhaseInv, Startup
      <4> QED BY <4>1, <3>3, <1>2, FreshIdle
    <3> QED BY <3>2, <3>3
  <2>2. ASSUME NEW r \in Requests PROVE Told(r)'
    <3>1. Told(r) /\ r \in Procs \ {Main}
      BY <1>0 DEF CurrentInv, Procs
    <3> QED BY <3>1, <1>2, ToldKept
  <2> QED BY <2>1, <2>2, <1>2 DEF CurrentInv
<1>3. CASE Restart
  <2>1. Published'
    BY <1>3 DEF Restart, Published
  <2> QED BY <2>1, <1>0, <1>2, <1>3 DEF Restart, Goto, TypeOK
<1>4. CASE LoadVersions
  <2>1. pc[Main] = "versions" /\ req[Main].kind = "start" /\ UNCHANGED <<history, globalLayers>>
    BY <1>4 DEF LoadVersions, PhaseInv, Startup
  <2>2. arrived[Main] \in 1..Now /\ ReadSince(globalLayers, history, arrived[Main])
    BY <2>1, <1>0 DEF CurrentInv, Fresh, Loaded
  <2>3. ReadSince(globalLayers, history, 1)
    BY <2>2, <1>0, SinceTheFirst DEF Now
  <2>4. Published'
    BY <2>1, <2>3 DEF Published
  <2> QED BY <2>4, <1>0, <1>2, <1>4 DEF LoadVersions, Goto, TypeOK
<1>5. CASE LoadVersionsFails
  BY <1>5, <1>e DEF LoadVersionsFails
<1>6. ASSUME NEW p \in Procs, LoadStep(p) PROVE CurrentInv'
  <2>1. CASE Exit
    <3>1. UNCHANGED history
      BY <1>6 DEF LoadStep, LoadTables, TablesQueryFails, TablesReadFails, LoadFunctions,
         FunctionsReadFails, FunctionRowFatal, FunctionRowPanics, LockAndEmpty, InsertTable,
         InsertFunction, InsertKey, StoreLayer, Unlock
    <3> QED BY <2>1, <3>1, <1>e
  <2> QED BY <1>6, <2>1, CurrentLoad
<1>7. ASSUME NEW r \in Requests, Arrive(r) PROVE CurrentInv'
  BY <1>7, CurrentArrive
<1>8. ASSUME NEW r \in Requests, ListStep(r) PROVE CurrentInv'
  BY <1>8, CurrentList
<1>9. ASSUME NEW r \in Requests, LayerStep(r) PROVE CurrentInv'
  <2>1. CASE Exit
    <3>1. UNCHANGED history
      BY <1>9 DEF LayerStep, SkipDuplicate, FindLayer, FindNothing, MapRace, Render,
         RejectTile, RenderDropped, RenderFails, UseHalfStored, UnknownType, Reply
    <3> QED BY <2>1, <3>1, <1>e
  <2> QED BY <1>9, <2>1, CurrentLayer
<1>10. CASE UNCHANGED vars
  <2>1. \A q \in Procs : Fresh(q)'
    BY <1>10, FreshKept DEF vars, CurrentInv
  <2>2. \A r \in Requests : Told(r)'
    BY <1>10, ToldKept DEF vars, CurrentInv
  <2>3. Published'
    BY <1>10 DEF vars, CurrentInv, Published, Filling
  <2> QED BY <2>1, <2>2, <2>3 DEF CurrentInv
<1> QED
  BY <1>1, <1>3, <1>4, <1>5, <1>6, <1>7, <1>8, <1>9, <1>10 DEF Next, StartStep

(* What the two theorems below rest on. *)
LEMMA CurrentAlways ==
    ASSUME Alone, NothingFails
    PROVE  Spec => [](WholeInv /\ PhaseInv /\ CurrentInv)
<1>1. Init => WholeInv /\ PhaseInv /\ CurrentInv
  BY WholeInit, PhaseInit, CurrentInit
<1>2. WholeInv /\ PhaseInv /\ CurrentInv /\ [Next]_vars
         => (WholeInv /\ PhaseInv /\ CurrentInv)'
  BY Alone, NothingFails, WholeNext, PhaseNext, CurrentNext DEF WholeInv
<1> QED BY <1>1, <1>2, PTL DEF Spec

(* With one handler and a database that does not fail, a 404 says that the *)
(* layer was missing: for a detail or a preview from what its own load     *)
(* read, for a tile from some catalogue the database has held              *)
(* (getLayer, requestTiles).                                               *)
THEOREM LoneNotFoundMeansAbsent ==
    ASSUME Alone, NothingFails PROVE Spec => []NotFoundMeansAbsent
<1>1. CurrentInv => NotFoundMeansAbsent
  BY DEF CurrentInv, Told, NotFoundMeansAbsent
<1> QED BY <1>1, CurrentAlways, PTL

(* With one handler and a database that does not fail, a list, a detail    *)
(* and a preview show what the database held when the request arrived or   *)
(* later: handlers reload the registry before they answer from it          *)
(* (loadLayers in main.go).                                                *)
THEOREM LoneAnswersAreCurrent ==
    ASSUME Alone, NothingFails PROVE Spec => []AnswersAreCurrent
<1>1. CurrentInv => AnswersAreCurrent
  BY DEF CurrentInv, Told, AnswersAreCurrent, ReadSince, SinceArrival, Now
<1> QED BY <1>1, CurrentAlways, PTL
=============================================================================
