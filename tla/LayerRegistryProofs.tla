------------------------ MODULE LayerRegistryProofs -------------------------
(***************************************************************************)
(* Proofs about LayerRegistry, for any number of handlers, identifiers,    *)
(* catalogues and errors: the type invariant, that the registry and every  *)
(* list are the whole result of one load, and that it implements           *)
(* LayerDirectory.                                                         *)
(***************************************************************************)
EXTENDS LayerRegistry, SequenceTheorems, TLAPS

AnswerType == [status : Statuses, layers : Seq([id : Ids, layer : SlotLayer])]

-----------------------------------------------------------------------------
(* Facts about the operators the actions are built from.                   *)

(* Outcomes with no layers are answers.                                    *)
LEMMA AnswersAreAnswers ==
    ASSUME NEW s \in Statuses
    PROVE  Answer(s) \in AnswerType
BY DEF Answer, AnswerType

(* A fault keeps the counter within its bound.                             *)
LEMMA FaultBounded ==
    ASSUME faults \in 0..MaxFaults, Fault \/ NoFault
    PROVE  faults' \in 0..MaxFaults
BY RegistryAssumption DEF Fault, NoFault

(* The catalogue in force is one of Catalogs.                              *)
LEMMA CatalogueType ==
    ASSUME TypeOK
    PROVE  /\ Now \in Nat \ {0}
           /\ Catalogue.tables \subseteq Ids
           /\ Catalogue.functions \subseteq Ids
<1>1. Now \in Nat \ {0} /\ history[Now] \in Catalogs
  BY EmptySeq DEF TypeOK, Now
<1> QED BY <1>1, RegistryAssumption DEF Catalogue, Catalog

(* What a read of the map may return is the value of a slot.               *)
LEMMA ReadsAreSlots ==
    ASSUME TypeOK, NEW i \in Ids, NEW l \in PossibleReads(i)
    PROVE  l \in SlotLayer
<1>1. CASE l = globalLayers[i]
  BY <1>1 DEF TypeOK
<1>2. CASE l = TornLayer(globalLayers[i])
  BY <1>2 DEF TypeOK, TornLayer, SlotLayer
<1>3. ASSUME NEW p \in Procs, pc[p] = "store", l = slot[p].layer
      PROVE  l \in SlotLayer
  BY <1>3 DEF TypeOK, ReadLayer, SlotLayer
<1>4. ASSUME l # globalLayers[i]
      PROVE  \E p \in Procs :
                /\ pc[p] = "store"
                /\ l \in {slot[p].layer, TornLayer(globalLayers[i])}
  BY <1>4, Zenon DEF PossibleReads
<1> QED BY <1>1, <1>2, <1>3, <1>4

-----------------------------------------------------------------------------
(* The type invariant.                                                     *)

(* The initial state is of the right types. *)
LEMMA TypeInit == Init => TypeOK
<1> SUFFICES ASSUME Init PROVE TypeOK
  OBVIOUS
<1>1. history \in Seq(Catalogs) /\ history # <<>>
  <2>1. PICK c \in Catalogs : history = <<c>>
    BY DEF Init
  <2> QED BY <2>1
<1>2. globalLayers \in [Ids -> SlotLayer]
  BY DEF Init, EmptyDirectory, NoLayer, SlotLayer
<1>3. /\ pc \in [Procs -> Places]
      /\ \A p \in Procs : pc[p] \notin {"insert", "store", "copy", "render"}
  BY DEF Init, Places
<1>4. todo \in [Procs -> Seq(Ids)]
  BY DEF Init
<1>5. load \in [Procs -> [tables : SUBSET Ids, tv : Nat, functions : SUBSET Ids, fv : Nat]]
  BY DEF Init, NoLoad
<1>6. answer \in [Procs -> AnswerType]
  BY DEF Init, NoAnswer, AnswerType, Statuses
<1>7. globalLayersMutex \in Procs \cup {NoProc} /\ faults \in 0..MaxFaults
  BY RegistryAssumption DEF Init
<1>8. /\ req \in [Procs -> Asked \cup {Startup}]
      /\ listing \in [Procs -> [Ids -> SlotLayer] \cup {NoListing}]
      /\ slot \in [Procs -> [id : Ids, layer : ReadLayer] \cup {NoSlot}]
      /\ arrived \in [Procs -> Nat]
  BY DEF Init
<1>9. status \in {"starting", "serving", "exited"}
  BY DEF Init
<1> QED
  BY <1>1, <1>2, <1>3, <1>4, <1>5, <1>6, <1>7, <1>8, <1>9 DEF TypeOK, AnswerType

(* A handler that returns leaves everything well typed.                    *)
LEMMA TypeFinish ==
    ASSUME TypeOK, NEW p \in Procs, NEW a \in AnswerType, Finish(p, a),
           Fault \/ NoFault, UNCHANGED history
    PROVE  TypeOK'
<1>1. faults' \in 0..MaxFaults
  BY FaultBounded DEF TypeOK
<1>2. /\ pc' \in [Procs -> Places] /\ pc'[p] = "idle"
      /\ \A q \in Procs \ {p} : pc'[q] = pc[q]
  BY DEF TypeOK, Finish, Goto, Places
<1>3. answer' \in [Procs -> AnswerType]
  BY DEF TypeOK, Finish, AnswerType
<1>4. load' \in [Procs -> [tables : SUBSET Ids, tv : Nat, functions : SUBSET Ids, fv : Nat]]
  BY DEF TypeOK, Finish, NoLoad
<1> QED BY <1>1, <1>2, <1>3, <1>4 DEF TypeOK, Finish, AnswerType

(* So does the process when it dies.                                       *)
LEMMA TypeExit ==
    ASSUME TypeOK, Exit, Fault \/ NoFault, UNCHANGED history
    PROVE  TypeOK'
<1>1. faults' \in 0..MaxFaults
  BY FaultBounded DEF TypeOK
<1>2. globalLayers' \in [Ids -> SlotLayer]
  BY DEF Exit, EmptyDirectory, NoLayer, SlotLayer
<1>3. pc' \in [Procs -> Places] /\ \A q \in Procs : pc'[q] = "idle"
  BY DEF Exit, Places
<1>4. answer' \in [Procs -> AnswerType]
  BY DEF Exit, NoAnswer, AnswerType, Statuses
<1>5. load' \in [Procs -> [tables : SUBSET Ids, tv : Nat, functions : SUBSET Ids, fv : Nat]]
  BY DEF Exit, NoLoad
<1>6. todo' \in [Procs -> Seq(Ids)]
  BY DEF Exit
<1> QED BY <1>1, <1>2, <1>3, <1>4, <1>5, <1>6 DEF TypeOK, Exit, AnswerType

(* A request that gives up keeps the types. *)
LEMMA TypeGiveUp ==
    ASSUME TypeOK, NEW p \in Procs, NEW s \in Statuses, GiveUp(p, s),
           Fault \/ NoFault, UNCHANGED history
    PROVE  TypeOK'
BY TypeFinish, TypeExit, AnswersAreAnswers DEF GiveUp

(* Every step of loadLayers.                                               *)
LEMMA TypeLoadStep ==
    ASSUME TypeOK, NEW p \in Procs, LoadStep(p)
    PROVE  TypeOK'
<1> USE DEF Goto, Places
<1>1. CASE LoadTables(p)
  <2>1. load' \in [Procs -> [tables : SUBSET Ids, tv : Nat, functions : SUBSET Ids, fv : Nat]]
    BY <1>1, CatalogueType DEF TypeOK, LoadTables, NoLoad
  <2> QED BY <1>1, <2>1 DEF TypeOK, LoadTables
<1>2. CASE TablesQueryFails(p)
  <2>1. faults' \in 0..MaxFaults
    BY <1>2, FaultBounded DEF TypeOK, TablesQueryFails
  <2> QED BY <1>2, <2>1 DEF TypeOK, TablesQueryFails, NoLoad
<1>3. CASE TablesReadFails(p)
  BY <1>3, TypeGiveUp DEF TablesReadFails, Statuses
<1>4. CASE LoadFunctions(p)
  <2>1. load' \in [Procs -> [tables : SUBSET Ids, tv : Nat, functions : SUBSET Ids, fv : Nat]]
    BY <1>4, CatalogueType DEF TypeOK, LoadFunctions
  <2> QED BY <1>4, <2>1 DEF TypeOK, LoadFunctions
<1>5. CASE FunctionsReadFails(p)
  BY <1>5, TypeGiveUp DEF FunctionsReadFails, Statuses
<1>6. CASE FunctionRowFatal(p)
  BY <1>6, TypeExit DEF FunctionRowFatal
<1>7. CASE FunctionRowPanics(p)
  BY <1>7, TypeGiveUp DEF FunctionRowPanics, Statuses
<1>8. CASE LockAndEmpty(p)
  <2>1. globalLayers' \in [Ids -> SlotLayer]
    BY <1>8 DEF LockAndEmpty, EmptyDirectory, NoLayer, SlotLayer
  <2> QED BY <1>8, <2>1 DEF TypeOK, LockAndEmpty
<1>9. CASE InsertTable(p)
  <2>1. PICK i \in TablesLeft(p) :
           slot' = [slot EXCEPT ![p] = [id |-> i, layer |-> TableLayer(load[p].tv)]]
    BY <1>9 DEF InsertTable
  <2>2. i \in Ids /\ TableLayer(load[p].tv) \in ReadLayer
    BY <2>1 DEF TypeOK, TablesLeft, TableLayer, ReadLayer, LayerKinds
  <2> QED BY <1>9, <2>1, <2>2 DEF TypeOK, InsertTable
<1>10. CASE InsertFunction(p)
  <2>1. PICK i \in FunctionsLeft(p) :
           slot' = [slot EXCEPT ![p] = [id |-> i, layer |-> FunctionLayer(load[p].fv)]]
    BY <1>10 DEF InsertFunction
  <2>2. i \in Ids /\ FunctionLayer(load[p].fv) \in ReadLayer
    BY <2>1 DEF TypeOK, FunctionsLeft, FunctionLayer, ReadLayer, LayerKinds
  <2> QED BY <1>10, <2>1, <2>2 DEF TypeOK, InsertFunction
<1>11. CASE InsertKey(p)
  <2>1. globalLayers' \in [Ids -> SlotLayer]
    BY <1>11 DEF TypeOK, InsertKey, NilLayer, SlotLayer
  <2> QED BY <1>11, <2>1 DEF TypeOK, InsertKey
<1>12. CASE StoreLayer(p)
  <2>1. globalLayers' \in [Ids -> SlotLayer]
    BY <1>12 DEF TypeOK, StoreLayer, ReadLayer, SlotLayer
  <2> QED BY <1>12, <2>1 DEF TypeOK, StoreLayer
<1>13. CASE Unlock(p)
  <2>1. pc' \in [Procs -> Places] /\ \A q \in Procs :
           pc'[q] \notin {"insert", "store", "copy", "render"} \/ pc'[q] = pc[q]
    BY <1>13 DEF TypeOK, Unlock
  <2> QED BY <1>13, <2>1 DEF TypeOK, Unlock, NoLoad
<1> QED
  BY <1>1, <1>2, <1>3, <1>4, <1>5, <1>6, <1>7, <1>8, <1>9, <1>10, <1>11, <1>12,
     <1>13 DEF LoadStep

(* Every step of the list handlers.                                        *)
LEMMA TypeListStep ==
    ASSUME TypeOK, NEW r \in Requests, ListStep(r)
    PROVE  TypeOK'
<1> r \in Procs
  BY DEF Procs
<1> USE DEF Goto, Places
<1>1. CASE ListLock(r)
  <2>1. EmptyDirectory \in [Ids -> SlotLayer]
    BY DEF EmptyDirectory, NoLayer, SlotLayer
  <2> QED BY <1>1, <2>1 DEF TypeOK, ListLock
<1>2. CASE CopyEntry(r)
  <2>1. PICK i \in Uncopied(r) :
           listing' = [listing EXCEPT ![r][i] = globalLayers[i]]
    BY <1>2 DEF CopyEntry
  <2>2. i \in Ids
    BY <2>1 DEF Uncopied
  <2>3. /\ listing' \in [Procs -> [Ids -> SlotLayer] \cup {NoListing}]
        /\ listing'[r] \in [Ids -> SlotLayer]
        /\ \A q \in Procs \ {r} : listing'[q] = listing[q]
    BY <1>2, <2>1, <2>2 DEF TypeOK, CopyEntry
  <2> QED BY <1>2, <2>3 DEF TypeOK, CopyEntry
<1>3. CASE ListUnlock(r)
  BY <1>3 DEF TypeOK, ListUnlock
<1>4. CASE WriteList(r)
  BY <1>4, TypeFinish, AnswersAreAnswers DEF WriteList, Statuses
<1>5. CASE WriteListFails(r)
  BY <1>5, TypeFinish, AnswersAreAnswers DEF WriteListFails, Statuses
<1> QED BY <1>1, <1>2, <1>3, <1>4, <1>5 DEF ListStep
(* Every step of the handlers that serve layers.                           *)
LEMMA TypeLayerStep ==
    ASSUME TypeOK, NEW r \in Requests, LayerStep(r)
    PROVE  TypeOK'
<1> r \in Procs
  BY DEF Procs
<1> USE DEF Goto, Places
<1>1. CASE SkipDuplicate(r)
  <2>1. Tail(todo[r]) \in Seq(Ids)
    BY <1>1, HeadTailProperties DEF TypeOK, SkipDuplicate
  <2> QED BY <1>1, <2>1 DEF TypeOK, SkipDuplicate
<1>2. CASE FindLayer(r)
  <2> DEFINE i == Head(todo[r])
             served == answer[r].layers
  <2>1. PICK l \in PossibleReads(i) \ {NoLayer} :
           answer' = [answer EXCEPT ![r] =
               [status |-> "none", layers |-> Append(served, [id |-> i, layer |-> l])]]
    BY <1>2 DEF FindLayer
  <2>2. i \in Ids
    BY <1>2, HeadTailProperties DEF TypeOK, FindLayer
  <2>3. l \in SlotLayer
    BY <2>1, <2>2, ReadsAreSlots
  <2>4. Append(served, [id |-> i, layer |-> l]) \in Seq([id : Ids, layer : SlotLayer])
    <3>1. served \in Seq([id : Ids, layer : SlotLayer])
      BY DEF TypeOK
    <3>2. [id |-> i, layer |-> l] \in [id : Ids, layer : SlotLayer]
      BY <2>2, <2>3
    <3> QED BY <3>1, <3>2, AppendProperties
  <2>5. answer' \in [Procs -> AnswerType]
    BY <2>1, <2>4 DEF TypeOK, AnswerType, Statuses
  <2>6. /\ pc' = [pc EXCEPT ![r] = "render"] /\ todo[r] # <<>>
        /\ UNCHANGED <<status, history, globalLayers, globalLayersMutex, req, todo,
                       load, slot, listing, faults, arrived>>
    BY <1>2 DEF FindLayer
  <2> QED BY <2>5, <2>6 DEF TypeOK, AnswerType
<1>3. CASE FindNothing(r)
  BY <1>3, TypeFinish, AnswersAreAnswers DEF FindNothing, Statuses
<1>4. CASE MapRace(r)
  BY <1>4, TypeExit DEF MapRace
<1>5. CASE Render(r)
  <2>1. Tail(todo[r]) \in Seq(Ids)
    BY <1>5, HeadTailProperties DEF TypeOK, Render
  <2> QED BY <1>5, <2>1 DEF TypeOK, Render
<1>6. CASE RejectTile(r)
  BY <1>6, TypeFinish, AnswersAreAnswers DEF RejectTile, Statuses
<1>7. CASE RenderDropped(r)
  BY <1>7, TypeFinish, AnswersAreAnswers DEF RenderDropped, Statuses
<1>8. CASE RenderFails(r)
  BY <1>8, TypeFinish, AnswersAreAnswers DEF RenderFails, Statuses
<1>9. CASE UseHalfStored(r)
  BY <1>9, TypeFinish, AnswersAreAnswers DEF UseHalfStored, Statuses
<1>10. CASE UnknownType(r)
  BY <1>10, TypeFinish, AnswersAreAnswers DEF UnknownType, Statuses
<1>11. CASE Reply(r)
  <2>1. [status |-> "ok", layers |-> answer[r].layers] \in AnswerType
    BY DEF TypeOK, AnswerType, Statuses
  <2> QED BY <1>11, <2>1, TypeFinish DEF Reply
<1> QED
  BY <1>1, <1>2, <1>3, <1>4, <1>5, <1>6, <1>7, <1>8, <1>9, <1>10, <1>11
  DEF LayerStep

(* Every step of the system.                                               *)
LEMMA TypeNext == TypeOK /\ [Next]_vars => TypeOK'
<1> SUFFICES ASSUME TypeOK, [Next]_vars PROVE TypeOK'
  OBVIOUS
<1>1. CASE CatalogueChanges
  <2>1. PICK c \in Catalogs : history' = Append(history, c)
    BY <1>1 DEF CatalogueChanges
  <2>2. history' \in Seq(Catalogs) /\ history' # <<>>
    <3>1. history \in Seq(Catalogs)
      BY DEF TypeOK
    <3> QED BY <2>1, <3>1, AppendProperties, Zenon
  <2>3. UNCHANGED <<status, globalLayers, globalLayersMutex, pc, req, todo, load,
                    slot, listing, answer, faults, arrived>>
    BY <1>1 DEF CatalogueChanges
  <2> QED BY <2>2, <2>3 DEF TypeOK
<1>2. CASE Restart
  BY <1>2 DEF TypeOK, Restart, Goto, Places
<1>3. CASE LoadVersions
  BY <1>3 DEF TypeOK, LoadVersions, Goto, Places
<1>4. CASE LoadVersionsFails
  BY <1>4, TypeExit DEF LoadVersionsFails
<1>5. ASSUME NEW r \in Requests, Arrive(r) PROVE TypeOK'
  <2>1. Len(history) \in Nat
    BY CatalogueType DEF Now
  <2>2. PICK q \in Asked :
          /\ req' = [req EXCEPT ![r] = q]
          /\ todo' = [todo EXCEPT ![r] = q.names]
          /\ pc' = [pc EXCEPT ![r] = IF q.kind = "tile" THEN "find" ELSE "tables"]
    BY <1>5 DEF Arrive, Goto
  <2>3. q.names \in Seq(Ids)
    BY RegistryAssumption DEF Request
  <2>4. NoAnswer \in [status : Statuses, layers : Seq([id : Ids, layer : SlotLayer])]
    BY DEF NoAnswer, Statuses
  <2> QED BY <1>5, <2>1, <2>2, <2>3, <2>4 DEF TypeOK, Arrive, Places, Now
<1>6. CASE UNCHANGED vars
  BY <1>6 DEF TypeOK, vars
<1> QED
  BY <1>1, <1>2, <1>3, <1>4, <1>5, <1>6, TypeLoadStep, TypeListStep, TypeLayerStep
  DEF Next, StartStep

(* The variables of the model keep their types: in particular a request    *)
(* ends with one of the known statuses, and everything a handler has taken *)
(* from the registry is something the map can hold.                        *)
THEOREM TypeCorrect == Spec => []TypeOK
BY TypeInit, TypeNext, PTL DEF Spec
-----------------------------------------------------------------------------
(* The registry is whole.  The invariant is not inductive as it stands: it *)
(* speaks of the map only when nobody fills it.  What has to be added is   *)
(* who holds the mutex, where the rows of an unfinished load come from,    *)
(* and what the map and a half-made listing hold in the meantime.          *)

Writing == {"fill", "insert", "store"}
Holding == Writing \cup {"copy"}

(* The mutex is held by exactly those between its Lock and Unlock calls.   *)
MutexInv == \A p \in Procs : pc[p] \in Holding <=> globalLayersMutex = p

(* The rows of a load are those of catalogues of the past, the functions   *)
(* not older than the tables; a load without a table list has no tables.   *)
TablesRead(p) ==
    \/ load[p].tv = 0 /\ load[p].tables = {}
    \/ load[p].tv \in 1..Now /\ load[p].tables = history[load[p].tv].tables

FunctionsRead(p) ==
    /\ load[p].fv \in 1..Now
    /\ load[p].tv \in 0..load[p].fv
    /\ load[p].functions = history[load[p].fv].functions

LoadInv ==
    \A p \in Procs :
        /\ pc[p] \in {"functions", "lock"} \cup Writing => TablesRead(p)
        /\ pc[p] \in {"lock"} \cup Writing => FunctionsRead(p)

(* A layer of the load of p that belongs under key i.                      *)
RowOf(p, i, l) ==
    \/ i \in load[p].tables /\ l = TableLayer(load[p].tv)
    \/ i \in load[p].functions /\ l = FunctionLayer(load[p].fv)

SlotInv ==
    \A p \in Procs :
        pc[p] \in {"insert", "store"} => RowOf(p, slot[p].id, slot[p].layer)

(* While p fills the map, it holds rows of p only, and zero words only in  *)
(* the slot p is storing to.                                               *)
FillInv ==
    \A p \in Procs : pc[p] \in Writing =>
        \A i \in Ids :
            \/ globalLayers[i] = NoLayer
            \/ RowOf(p, i, globalLayers[i])
            \/ pc[p] = "store" /\ i = slot[p].id

(* A listing under construction holds entries of the registry.             *)
CopyInv ==
    \A p \in Procs : pc[p] = "copy" =>
        \A i \in Ids : listing[p][i] \in {NoLayer, globalLayers[i]}

WholeInv ==
    /\ TypeOK
    /\ MutexInv
    /\ LoadInv
    /\ SlotInv
    /\ FillInv
    /\ CopyInv
    /\ RegistryIsWhole
    /\ ListingIsWhole

(* The empty registry is whole.                                            *)
LEMMA EmptyIsWhole == \A h : Whole(EmptyDirectory, h)
BY DEF Whole

(* What is whole stays so when the catalogue changes.                      *)
LEMMA WholeGrows ==
    ASSUME NEW h \in Seq(Catalogs), NEW c \in Catalogs, NEW d, Whole(d, h)
    PROVE  Whole(d, Append(h, c))
<1> DEFINE g == Append(h, c)
<1>1. /\ Len(g) = Len(h) + 1 /\ Len(h) \in Nat
      /\ \A k \in 1..Len(h) : g[k] = h[k]
  OBVIOUS
<1>2. ASSUME NEW fv \in 1..Len(h), NEW tv \in 0..fv
      PROVE  /\ fv \in 1..Len(g)
             /\ ReadAt(g, tv, fv) = ReadAt(h, tv, fv)
  BY <1>1, <1>2 DEF ReadAt
<1> HIDE DEF g
<1>3. Whole(d, g)
  BY <1>2 DEF Whole
<1> QED BY <1>3 DEF g

(* The result of a complete load is whole.                                 *)
LEMMA LoadIsWhole ==
    ASSUME TypeOK, LoadInv, NEW p \in Procs, pc[p] \in {"lock"} \cup Writing
    PROVE  Whole(Overlay(load[p].tables, load[p].tv, load[p].functions, load[p].fv),
                 history)
<1> DEFINE l == load[p]
<1>1. /\ l.fv \in 1..Len(history) /\ l.tv \in 0..l.fv
      /\ l.functions = history[l.fv].functions
  BY DEF LoadInv, FunctionsRead, Now
<1>2. l.tables = IF l.tv = 0 THEN {} ELSE history[l.tv].tables
  <2>1. TablesRead(p) /\ Now \in Nat
    BY CatalogueType DEF LoadInv
  <2> QED BY <2>1 DEF TablesRead
<1>3. Overlay(l.tables, l.tv, l.functions, l.fv) = ReadAt(history, l.tv, l.fv)
  BY <1>1, <1>2 DEF ReadAt
<1> QED BY <1>1, <1>3 DEF Whole

(* When no row is left, the map is the result of the load.                 *)
LEMMA FilledIsOverlay ==
    ASSUME TypeOK, FillInv, NEW p \in Procs, pc[p] = "fill",
           TablesLeft(p) = {}, FunctionsLeft(p) = {}
    PROVE  globalLayers =
             Overlay(load[p].tables, load[p].tv, load[p].functions, load[p].fv)
<1> DEFINE l == load[p]
<1>1. ASSUME NEW i \in Ids
      PROVE  globalLayers[i] = Overlay(l.tables, l.tv, l.functions, l.fv)[i]
  <2>1. globalLayers[i] = NoLayer \/ RowOf(p, i, globalLayers[i])
    BY DEF FillInv, Writing
  <2>2. i \in l.functions => globalLayers[i] = FunctionLayer(l.fv)
    BY DEF FunctionsLeft
  <2>3. i \in l.tables => globalLayers[i] # NoLayer
    BY DEF TablesLeft
  <2> QED BY <2>1, <2>2, <2>3 DEF RowOf, Overlay
<1>2. globalLayers = [i \in Ids |-> globalLayers[i]]
  BY DEF TypeOK
<1>3. Overlay(l.tables, l.tv, l.functions, l.fv) =
        [i \in Ids |-> Overlay(l.tables, l.tv, l.functions, l.fv)[i]]
  BY DEF Overlay
<1> QED BY <1>1, <1>2, <1>3

(* A step of one goroutine that does not touch the map, the mutex, the     *)
(* catalogue or anything of the other goroutines, from and to a place      *)
(* outside loadLayers and the copying.                                     *)
LEMMA QuietStep ==
    ASSUME WholeInv, TypeOK', NEW p \in Procs,
           pc[p] \notin Holding,
           pc'[p] \notin {"functions", "lock"} \cup Holding,
           \A q \in Procs \ {p} : pc'[q] = pc[q] /\ load'[q] = load[q],
           UNCHANGED <<history, globalLayers, globalLayersMutex, slot>>,
           \A q \in Procs : listing'[q] \in {listing[q], NoListing},
           \A q \in Procs \ {p} : listing'[q] = listing[q]
    PROVE  WholeInv'
<1> USE DEF Holding, Writing
<1>1. MutexInv'
  BY DEF WholeInv, MutexInv
<1>2. LoadInv'
  BY DEF WholeInv, LoadInv, TablesRead, FunctionsRead, Now
<1>3. SlotInv' /\ FillInv'
  BY DEF WholeInv, SlotInv, FillInv, RowOf
<1>4. CopyInv'
  BY DEF WholeInv, CopyInv
<1>5. RegistryIsWhole'
  BY DEF WholeInv, RegistryIsWhole, Filling
<1>6. ListingIsWhole'
  BY DEF WholeInv, ListingIsWhole, Procs
<1> QED BY <1>1, <1>2, <1>3, <1>4, <1>5, <1>6 DEF WholeInv
(* A handler returns from a place outside the mutex.                       *)
LEMMA WholeFinish ==
    ASSUME WholeInv, TypeOK', NEW p \in Procs, NEW a, Finish(p, a),
           UNCHANGED history, pc[p] \notin Holding
    PROVE  WholeInv'
<1>1. pc'[p] = "idle" /\ \A q \in Procs \ {p} : pc'[q] = pc[q] /\ load'[q] = load[q]
  BY DEF WholeInv, TypeOK, Finish, Goto
<1>2. UNCHANGED <<history, globalLayers, globalLayersMutex, slot, listing>>
  BY DEF Finish
<1> QED BY <1>1, <1>2, QuietStep DEF Holding, Writing

(* The process dies.                                                       *)
LEMMA WholeExit ==
    ASSUME WholeInv, TypeOK', Exit, UNCHANGED history
    PROVE  WholeInv'
<1>1. \A p \in Procs : pc'[p] = "idle"
  BY DEF Exit
<1>2. MutexInv'
  BY <1>1, RegistryAssumption DEF MutexInv, Holding, Writing, Exit
<1>3. LoadInv' /\ SlotInv' /\ FillInv' /\ CopyInv'
  BY <1>1 DEF LoadInv, SlotInv, FillInv, CopyInv, Writing
<1>4. RegistryIsWhole'
  BY EmptyIsWhole DEF RegistryIsWhole, Exit
<1>5. ListingIsWhole'
  BY DEF ListingIsWhole, Exit, Procs
<1> QED BY <1>2, <1>3, <1>4, <1>5 DEF WholeInv

(* A request that gives up keeps the registry whole. *)
LEMMA WholeGiveUp ==
    ASSUME WholeInv, TypeOK', NEW p \in Procs, NEW s, GiveUp(p, s),
           UNCHANGED history, pc[p] \notin Holding
    PROVE  WholeInv'
BY WholeFinish, WholeExit DEF GiveUp

(* The empty registry of the start satisfies the invariant. *)
LEMMA WholeInit == Init => WholeInv
<1> SUFFICES ASSUME Init PROVE WholeInv
  OBVIOUS
<1>1. \A p \in Procs : pc[p] \in {"tables", "idle"}
  BY DEF Init
<1>2. MutexInv
  BY <1>1, RegistryAssumption DEF MutexInv, Holding, Writing, Init
<1>3. LoadInv /\ SlotInv /\ FillInv /\ CopyInv
  BY <1>1 DEF LoadInv, SlotInv, FillInv, CopyInv, Writing
<1>4. RegistryIsWhole
  BY EmptyIsWhole DEF RegistryIsWhole, Init
<1>5. ListingIsWhole
  BY DEF ListingIsWhole, Init, Procs
<1> QED BY <1>2, <1>3, <1>4, <1>5, TypeInit DEF WholeInv

(* The steps before the mutex is taken: only the load of p changes.        *)
LEMMA WholeRead ==
    ASSUME WholeInv, TypeOK', NEW p \in Procs,
           LoadTables(p) \/ TablesQueryFails(p) \/ LoadFunctions(p)
    PROVE  WholeInv'
<1> USE DEF Holding, Writing, Goto
<1>1. /\ pc[p] \in {"tables", "functions"}
      /\ pc'[p] \in {"functions", "lock"}
      /\ \A q \in Procs \ {p} : pc'[q] = pc[q] /\ load'[q] = load[q]
      /\ UNCHANGED <<history, globalLayers, globalLayersMutex, slot, listing>>
  BY DEF WholeInv, TypeOK, LoadTables, TablesQueryFails, LoadFunctions
<1>2. Now \in Nat \ {0}
  BY CatalogueType DEF WholeInv
<1>3. MutexInv'
  BY <1>1 DEF WholeInv, MutexInv
<1>4. LoadInv'
  <2>1. CASE LoadTables(p)
    <3>1. /\ pc'[p] = "functions"
          /\ load'[p].tv = Now /\ load'[p].tables = history[Now].tables
      BY <2>1 DEF LoadTables, WholeInv, TypeOK, Catalogue
    <3> QED BY <1>1, <1>2, <3>1
            DEF WholeInv, LoadInv, TablesRead, FunctionsRead, Now
  <2>2. CASE TablesQueryFails(p)
    <3>1. pc'[p] = "functions" /\ load'[p] = NoLoad
      BY <2>2 DEF TablesQueryFails, WholeInv, TypeOK
    <3> QED BY <1>1, <1>2, <3>1
            DEF WholeInv, LoadInv, TablesRead, FunctionsRead, Now, NoLoad
  <2>3. CASE LoadFunctions(p)
    <3>1. /\ pc[p] = "functions" /\ pc'[p] = "lock"
          /\ load'[p].tv = load[p].tv /\ load'[p].tables = load[p].tables
          /\ load'[p].fv = Now /\ load'[p].functions = history[Now].functions
      BY <2>3 DEF LoadFunctions, WholeInv, TypeOK, Catalogue
    <3> QED BY <1>1, <1>2, <3>1
            DEF WholeInv, LoadInv, TablesRead, FunctionsRead, Now
  <2> QED BY <2>1, <2>2, <2>3
<1>5. SlotInv' /\ FillInv'
  BY <1>1 DEF WholeInv, SlotInv, FillInv, RowOf
<1>6. CopyInv'
  BY <1>1 DEF WholeInv, CopyInv
<1>7. RegistryIsWhole'
  BY <1>1 DEF WholeInv, RegistryIsWhole, Filling
<1>8. ListingIsWhole'
  BY <1>1 DEF WholeInv, ListingIsWhole, Procs
<1> QED BY <1>3, <1>4, <1>5, <1>6, <1>7, <1>8 DEF WholeInv
(* The mutex is taken and the map emptied.                                 *)
LEMMA WholeLock ==
    ASSUME WholeInv, TypeOK', NEW p \in Procs, LockAndEmpty(p)
    PROVE  WholeInv'
<1> USE DEF Holding, Writing, Goto
<1>1. /\ pc[p] = "lock" /\ pc'[p] = "fill"
      /\ \A q \in Procs \ {p} : pc'[q] = pc[q]
      /\ globalLayersMutex = NoProc /\ globalLayersMutex' = p
      /\ UNCHANGED <<history, load, slot, listing>>
  BY DEF WholeInv, TypeOK, LockAndEmpty
<1>2. \A q \in Procs : pc[q] \notin Holding
  BY <1>1, RegistryAssumption DEF WholeInv, MutexInv
<1>3. MutexInv'
  BY <1>1, <1>2 DEF MutexInv
<1>4. LoadInv'
  BY <1>1 DEF WholeInv, LoadInv, TablesRead, FunctionsRead, Now
<1>5. SlotInv' /\ CopyInv'
  BY <1>1, <1>2 DEF SlotInv, CopyInv
<1>6. FillInv'
  BY <1>1, <1>2 DEF FillInv, LockAndEmpty, EmptyDirectory
<1>7. RegistryIsWhole'
  BY <1>1 DEF RegistryIsWhole, Filling
<1>8. ListingIsWhole'
  BY <1>1, <1>2 DEF WholeInv, ListingIsWhole, Procs
<1> QED BY <1>3, <1>4, <1>5, <1>6, <1>7, <1>8 DEF WholeInv

(* A row is chosen, its key placed, its value stored.                      *)
LEMMA WholeInsert ==
    ASSUME WholeInv, TypeOK', NEW p \in Procs,
           InsertTable(p) \/ InsertFunction(p) \/ InsertKey(p) \/ StoreLayer(p)
    PROVE  WholeInv'
<1> USE DEF Holding, Writing, Goto
<1>1. /\ pc[p] \in Writing /\ pc'[p] \in Writing
      /\ \A q \in Procs \ {p} : pc'[q] = pc[q]
      /\ UNCHANGED <<history, globalLayersMutex, load, listing>>
  BY DEF WholeInv, TypeOK, InsertTable, InsertFunction, InsertKey, StoreLayer
<1>2. \A q \in Procs \ {p} : pc[q] \notin Holding
  BY <1>1 DEF WholeInv, MutexInv
<1>3. MutexInv'
  BY <1>1 DEF WholeInv, MutexInv
<1>4. LoadInv'
  BY <1>1 DEF WholeInv, LoadInv, TablesRead, FunctionsRead, Now
<1>5. CopyInv'
  BY <1>1, <1>2 DEF CopyInv
<1>6. RegistryIsWhole'
  BY <1>1 DEF RegistryIsWhole, Filling
<1>7. ListingIsWhole'
  BY <1>1, <1>2 DEF WholeInv, ListingIsWhole, Procs
<1>8. SlotInv' /\ FillInv'
  <2>1. CASE InsertTable(p)
    <3>1. PICK i \in TablesLeft(p) :
             slot' = [slot EXCEPT ![p] = [id |-> i, layer |-> TableLayer(load[p].tv)]]
      BY <2>1 DEF InsertTable
    <3>2. slot'[p].id = i /\ slot'[p].layer = TableLayer(load[p].tv)
      BY <3>1 DEF WholeInv, TypeOK
    <3>3. i \in load[p].tables
      BY DEF TablesLeft
    <3>4. pc[p] = "fill" /\ globalLayers' = globalLayers
      BY <2>1 DEF InsertTable
    <3> QED BY <1>1, <1>2, <3>2, <3>3, <3>4 DEF WholeInv, SlotInv, FillInv, RowOf
  <2>2. CASE InsertFunction(p)
    <3>1. PICK i \in FunctionsLeft(p) :
             slot' = [slot EXCEPT ![p] = [id |-> i, layer |-> FunctionLayer(load[p].fv)]]
      BY <2>2 DEF InsertFunction
    <3>2. slot'[p].id = i /\ slot'[p].layer = FunctionLayer(load[p].fv)
      BY <3>1 DEF WholeInv, TypeOK
    <3>3. i \in load[p].functions
      BY DEF FunctionsLeft
    <3>4. pc[p] = "fill" /\ globalLayers' = globalLayers
      BY <2>2 DEF InsertFunction
    <3> QED BY <1>1, <1>2, <3>2, <3>3, <3>4 DEF WholeInv, SlotInv, FillInv, RowOf
  <2>3. CASE InsertKey(p)
    <3>1. /\ pc[p] = "insert" /\ pc'[p] = "store" /\ slot' = slot
          /\ \A i \in Ids \ {slot[p].id} : globalLayers'[i] = globalLayers[i]
      BY <2>3 DEF InsertKey, WholeInv, TypeOK
    <3> QED BY <1>1, <1>2, <3>1 DEF WholeInv, SlotInv, FillInv, RowOf
  <2>4. CASE StoreLayer(p)
    <3>1. /\ pc[p] = "store" /\ pc'[p] = "fill"
          /\ \A i \in Ids \ {slot[p].id} : globalLayers'[i] = globalLayers[i]
      BY <2>4 DEF StoreLayer, WholeInv, TypeOK
    <3>2. slot[p].id \in Ids => globalLayers'[slot[p].id] = slot[p].layer
      BY <2>4 DEF StoreLayer, WholeInv, TypeOK
    <3>3. RowOf(p, slot[p].id, slot[p].layer)
      BY <3>1 DEF WholeInv, SlotInv
    <3>4. \A q \in Procs \ {p} : slot'[q] = slot[q]
      BY <2>4 DEF StoreLayer, WholeInv, TypeOK
    <3> QED BY <1>1, <1>2, <3>1, <3>2, <3>3, <3>4
            DEF WholeInv, SlotInv, FillInv, RowOf
  <2> QED BY <2>1, <2>2, <2>3, <2>4
<1> QED BY <1>3, <1>4, <1>5, <1>6, <1>7, <1>8 DEF WholeInv

(* The mutex is released over a full map.                                  *)
LEMMA WholeUnlock ==
    ASSUME WholeInv, TypeOK', NEW p \in Procs, Unlock(p)
    PROVE  WholeInv'
<1> USE DEF Holding, Writing, Goto
<1>1. /\ pc[p] = "fill" /\ pc'[p] \in {"versions", "listlock", "find"}
      /\ \A q \in Procs \ {p} : pc'[q] = pc[q] /\ load'[q] = load[q]
      /\ globalLayersMutex' = NoProc
      /\ UNCHANGED <<history, globalLayers, slot, listing>>
  BY DEF WholeInv, TypeOK, Unlock
<1>2. \A q \in Procs \ {p} : pc[q] \notin Holding
  BY <1>1 DEF WholeInv, MutexInv
<1>3. MutexInv'
  BY <1>1, <1>2, RegistryAssumption DEF MutexInv
<1>4. LoadInv'
  BY <1>1 DEF WholeInv, LoadInv, TablesRead, FunctionsRead, Now
<1>5. SlotInv' /\ FillInv' /\ CopyInv'
  BY <1>1, <1>2 DEF SlotInv, FillInv, CopyInv
<1>6. RegistryIsWhole'
  <2>1. TablesLeft(p) = {} /\ FunctionsLeft(p) = {}
    BY DEF Unlock
  <2> QED BY <1>1, <2>1, FilledIsOverlay, LoadIsWhole DEF WholeInv, RegistryIsWhole
<1>7. ListingIsWhole'
  BY <1>1 DEF WholeInv, ListingIsWhole, Procs
<1> QED BY <1>3, <1>4, <1>5, <1>6, <1>7 DEF WholeInv
(* getJSONLayers takes the mutex, copies and releases it.                  *)
LEMMA WholeListLock ==
    ASSUME WholeInv, TypeOK', NEW r \in Requests, ListLock(r)
    PROVE  WholeInv'
<1> r \in Procs
  BY DEF Procs
<1> USE DEF Holding, Writing, Goto
<1>1. /\ pc[r] = "listlock" /\ pc'[r] = "copy"
      /\ \A q \in Procs \ {r} : pc'[q] = pc[q] /\ listing'[q] = listing[q]
      /\ listing'[r] = EmptyDirectory
      /\ globalLayersMutex = NoProc /\ globalLayersMutex' = r
      /\ UNCHANGED <<history, globalLayers, load, slot>>
  BY DEF WholeInv, TypeOK, ListLock
<1>2. \A q \in Procs : pc[q] \notin Holding
  BY <1>1, RegistryAssumption DEF WholeInv, MutexInv
<1>3. MutexInv'
  BY <1>1, <1>2 DEF MutexInv
<1>4. LoadInv' /\ SlotInv' /\ FillInv'
  BY <1>1, <1>2 DEF WholeInv, LoadInv, TablesRead, FunctionsRead, Now, SlotInv, FillInv
<1>5. CopyInv'
  BY <1>1, <1>2 DEF CopyInv, EmptyDirectory
<1>6. RegistryIsWhole'
  BY <1>1, <1>2 DEF WholeInv, RegistryIsWhole, Filling
<1>7. ListingIsWhole'
  BY <1>1, <1>2 DEF WholeInv, ListingIsWhole, Procs
<1> QED BY <1>3, <1>4, <1>5, <1>6, <1>7 DEF WholeInv

(* Copying one entry keeps the copy in agreement with the map. *)
LEMMA WholeCopy ==
    ASSUME WholeInv, TypeOK', NEW r \in Requests, CopyEntry(r)
    PROVE  WholeInv'
<1> r \in Procs
  BY DEF Procs
<1> USE DEF Holding, Writing
<1>1. PICK i \in Uncopied(r) : listing' = [listing EXCEPT ![r][i] = globalLayers[i]]
  BY DEF CopyEntry
<1>2. /\ pc[r] = "copy"
      /\ UNCHANGED <<history, globalLayers, globalLayersMutex, pc, load, slot>>
  BY DEF CopyEntry
<1>3. /\ \A q \in Procs \ {r} : listing'[q] = listing[q]
      /\ \A j \in Ids : listing'[r][j] \in {listing[r][j], globalLayers[j]}
  BY <1>1, <1>2 DEF WholeInv, TypeOK, Uncopied
<1>4. MutexInv' /\ LoadInv' /\ SlotInv' /\ FillInv'
  BY <1>2 DEF WholeInv, MutexInv, LoadInv, TablesRead, FunctionsRead, Now, SlotInv,
              FillInv, RowOf
<1>5. CopyInv'
  BY <1>2, <1>3 DEF WholeInv, CopyInv
<1>6. RegistryIsWhole'
  BY <1>2 DEF WholeInv, RegistryIsWhole, Filling
<1>7. ListingIsWhole'
  BY <1>2, <1>3 DEF WholeInv, ListingIsWhole, Procs
<1> QED BY <1>4, <1>5, <1>6, <1>7 DEF WholeInv

(* When all entries are copied the copy is the whole map. *)
LEMMA WholeListUnlock ==
    ASSUME WholeInv, TypeOK', NEW r \in Requests, ListUnlock(r)
    PROVE  WholeInv'
<1> r \in Procs
  BY DEF Procs
<1> USE DEF Holding, Writing, Goto
<1>1. /\ pc[r] = "copy" /\ pc'[r] = "write" /\ globalLayersMutex' = NoProc
      /\ \A q \in Procs \ {r} : pc'[q] = pc[q]
      /\ UNCHANGED <<history, globalLayers, load, slot, listing>>
  BY DEF WholeInv, TypeOK, ListUnlock
<1>2. \A q \in Procs \ {r} : pc[q] \notin Holding
  BY <1>1 DEF WholeInv, MutexInv
<1>3. MutexInv'
  BY <1>1, <1>2, RegistryAssumption DEF MutexInv
<1>4. LoadInv' /\ SlotInv' /\ FillInv' /\ CopyInv'
  BY <1>1, <1>2 DEF WholeInv, LoadInv, TablesRead, FunctionsRead, Now, SlotInv,
                    FillInv, CopyInv
<1>5. RegistryIsWhole /\ ~Filling
  BY <1>1, <1>2 DEF WholeInv, Filling
<1>6. RegistryIsWhole'
  BY <1>1, <1>5 DEF RegistryIsWhole
<1>7. listing[r] = globalLayers
  <2>1. \A i \in Ids : listing[r][i] = globalLayers[i]
    BY <1>1 DEF ListUnlock, Uncopied, WholeInv, CopyInv
  <2>2. listing[r] \in [Ids -> SlotLayer] /\ globalLayers \in [Ids -> SlotLayer]
    BY <1>1 DEF WholeInv, TypeOK
  <2> QED BY <2>1, <2>2
<1>8. ListingIsWhole'
  BY <1>1, <1>5, <1>7 DEF WholeInv, ListingIsWhole, RegistryIsWhole, Procs
<1> QED BY <1>3, <1>4, <1>6, <1>8 DEF WholeInv

(* The database moves on; the registry is still what one load read.        *)
LEMMA WholeCatalogue ==
    ASSUME WholeInv, TypeOK', CatalogueChanges
    PROVE  WholeInv'
<1>1. PICK c \in Catalogs : history' = Append(history, c)
  BY DEF CatalogueChanges
<1>2. UNCHANGED <<globalLayers, globalLayersMutex, pc, load, slot, listing>>
  BY DEF CatalogueChanges
<1>3. /\ Now \in Nat /\ Now' = Now + 1
      /\ \A k \in 1..Now : history'[k] = history[k]
  BY <1>1 DEF WholeInv, TypeOK, Now
<1>4. MutexInv' /\ SlotInv' /\ FillInv' /\ CopyInv'
  BY <1>2 DEF WholeInv, MutexInv, SlotInv, FillInv, CopyInv, RowOf
<1>5. LoadInv'
  BY <1>2, <1>3 DEF WholeInv, LoadInv, TablesRead, FunctionsRead
<1>6. ASSUME NEW d, Whole(d, history) PROVE Whole(d, history')
  BY <1>1, <1>6, WholeGrows DEF WholeInv, TypeOK
<1>7. RegistryIsWhole'
  BY <1>2, <1>6 DEF WholeInv, RegistryIsWhole, Filling
<1>8. ListingIsWhole'
  BY <1>2, <1>6 DEF WholeInv, ListingIsWhole
<1> QED BY <1>4, <1>5, <1>7, <1>8 DEF WholeInv
(* No step breaks the invariant.                                           *)
LEMMA WholeNext == WholeInv /\ [Next]_vars => WholeInv'
<1> SUFFICES ASSUME WholeInv, [Next]_vars PROVE WholeInv'
  OBVIOUS
<1> USE DEF Holding, Writing
<1>0. TypeOK'
  BY TypeNext DEF WholeInv
<1>1. CASE CatalogueChanges
  BY <1>0, <1>1, WholeCatalogue
<1>2. CASE Restart
  <2>1. pc[Main] \notin Holding
    BY <1>2 DEF Restart
  <2>2. /\ pc'[Main] = "tables" /\ \A q \in Procs \ {Main} : pc'[q] = pc[q]
        /\ UNCHANGED <<history, globalLayers, globalLayersMutex, load, slot, listing>>
    BY <1>2 DEF Restart, Goto, WholeInv, TypeOK, Procs
  <2> QED BY <1>0, <2>1, <2>2, QuietStep DEF Procs
<1>3. CASE LoadVersions
  <2>1. /\ pc[Main] = "versions" /\ pc'[Main] = "idle"
        /\ \A q \in Procs \ {Main} : pc'[q] = pc[q]
        /\ UNCHANGED <<history, globalLayers, globalLayersMutex, load, slot, listing>>
    BY <1>3 DEF LoadVersions, Goto, WholeInv, TypeOK, Procs
  <2> QED BY <1>0, <2>1, QuietStep DEF Procs
<1>4. CASE LoadVersionsFails
  BY <1>0, <1>4, WholeExit DEF LoadVersionsFails
<1>5. ASSUME NEW p \in Procs, LoadStep(p) PROVE WholeInv'
  <2>1. CASE LoadTables(p) \/ TablesQueryFails(p) \/ LoadFunctions(p)
    BY <1>0, <2>1, WholeRead
  <2>2. CASE TablesReadFails(p)
    BY <1>0, <2>2, WholeGiveUp DEF TablesReadFails
  <2>3. CASE FunctionsReadFails(p)
    BY <1>0, <2>3, WholeGiveUp DEF FunctionsReadFails
  <2>4. CASE FunctionRowFatal(p)
    BY <1>0, <2>4, WholeExit DEF FunctionRowFatal
  <2>5. CASE FunctionRowPanics(p)
    BY <1>0, <2>5, WholeGiveUp DEF FunctionRowPanics
  <2>6. CASE LockAndEmpty(p)
    BY <1>0, <2>6, WholeLock
  <2>7. CASE InsertTable(p) \/ InsertFunction(p) \/ InsertKey(p) \/ StoreLayer(p)
    BY <1>0, <2>7, WholeInsert
  <2>8. CASE Unlock(p)
    BY <1>0, <2>8, WholeUnlock
  <2> QED BY <1>5, <2>1, <2>2, <2>3, <2>4, <2>5, <2>6, <2>7, <2>8 DEF LoadStep
<1>6. ASSUME NEW r \in Requests, Arrive(r) PROVE WholeInv'
  <2>1. r \in Procs
    BY DEF Procs
  <2>2. /\ pc[r] = "idle" /\ pc'[r] \in {"find", "tables"}
        /\ \A q \in Procs \ {r} : pc'[q] = pc[q] /\ listing'[q] = listing[q]
        /\ listing'[r] = NoListing
        /\ UNCHANGED <<history, globalLayers, globalLayersMutex, load, slot>>
    BY <1>6, <2>1 DEF Arrive, Goto, WholeInv, TypeOK
  <2> QED BY <1>0, <2>1, <2>2, QuietStep
<1>7. ASSUME NEW r \in Requests, ListStep(r) PROVE WholeInv'
  <2>1. r \in Procs
    BY DEF Procs
  <2>2. CASE ListLock(r)
    BY <1>0, <2>2, WholeListLock
  <2>3. CASE CopyEntry(r)
    BY <1>0, <2>3, WholeCopy
  <2>4. CASE ListUnlock(r)
    BY <1>0, <2>4, WholeListUnlock
  <2>5. CASE WriteList(r) \/ WriteListFails(r)
    BY <1>0, <2>1, <2>5, WholeFinish DEF WriteList, WriteListFails
  <2> QED BY <1>7, <2>2, <2>3, <2>4, <2>5 DEF ListStep
<1>8. ASSUME NEW r \in Requests, LayerStep(r) PROVE WholeInv'
  <2>1. r \in Procs
    BY DEF Procs
  <2>2. CASE SkipDuplicate(r) \/ FindLayer(r) \/ Render(r)
    <3>1. /\ pc[r] \in {"find", "render"} /\ pc'[r] \in {"find", "render"}
          /\ \A q \in Procs \ {r} : pc'[q] = pc[q]
          /\ UNCHANGED <<history, globalLayers, globalLayersMutex, load, slot, listing>>
      BY <2>1, <2>2 DEF SkipDuplicate, FindLayer, Render, Goto, WholeInv, TypeOK
    <3> QED BY <1>0, <2>1, <3>1, QuietStep
  <2>3. CASE MapRace(r)
    BY <1>0, <2>3, WholeExit DEF MapRace
  <2>4. CASE FindNothing(r)
    BY <1>0, <2>1, <2>4, WholeFinish DEF FindNothing
  <2>5. CASE RejectTile(r)
    BY <1>0, <2>1, <2>5, WholeFinish DEF RejectTile
  <2>6. CASE RenderDropped(r)
    BY <1>0, <2>1, <2>6, WholeFinish DEF RenderDropped
  <2>7. CASE RenderFails(r)
    BY <1>0, <2>1, <2>7, WholeFinish DEF RenderFails
  <2>8. CASE UseHalfStored(r)
    BY <1>0, <2>1, <2>8, WholeFinish DEF UseHalfStored
  <2>9. CASE UnknownType(r)
    BY <1>0, <2>1, <2>9, WholeFinish DEF UnknownType
  <2>10. CASE Reply(r)
    BY <1>0, <2>1, <2>10, WholeFinish DEF Reply
  <2> QED BY <1>8, <2>2, <2>3, <2>4, <2>5, <2>6, <2>7, <2>8, <2>9, <2>10 DEF LayerStep
<1>9. CASE UNCHANGED vars
  BY <1>9 DEF vars, WholeInv, TypeOK, MutexInv, LoadInv, TablesRead, FunctionsRead, Now,
     SlotInv, FillInv, RowOf, CopyInv, RegistryIsWhole, ListingIsWhole, Filling
<1> QED
  BY <1>1, <1>2, <1>3, <1>4, <1>5, <1>6, <1>7, <1>8, <1>9 DEF Next, StartStep

(* The inductive invariant of the registry, of every behaviour of layer.go. *)
THEOREM WholeAlways == Spec => []WholeInv
BY WholeInit, WholeNext, PTL DEF Spec

(* Whenever no load is under way between Lock and Unlock, globalLayers is  *)
(* what one load read: loads that overlap do not mix, and a load that      *)
(* fails leaves the registry as it was.                                    *)
THEOREM RegistryAlwaysWhole == Spec => []RegistryIsWhole
<1>1. WholeInv => RegistryIsWhole
  BY DEF WholeInv
<1> QED BY <1>1, WholeAlways, PTL

(* A layer list, once its copy is made, is what one load read.             *)
THEOREM ListingAlwaysWhole == Spec => []ListingIsWhole
<1>1. WholeInv => ListingIsWhole
  BY DEF WholeInv
<1> QED BY <1>1, WholeAlways, PTL

-----------------------------------------------------------------------------
(* LayerRegistry implements LayerDirectory: under the mapping of           *)
(* LayerRegistry's instance Dir, every step of the handlers is a step of   *)
(* the abstract directory or leaves it alone.  The directory changes when  *)
(* the mutex is taken, and a listing is taken when it is released.         *)

SeenNow == [r \in Requests |-> IF pc[r] = "copy" THEN NoListing ELSE listing[r]]
DirVars == <<history, DirectoryNow, SeenNow>>

Result(l) == Overlay(l.tables, l.tv, l.functions, l.fv)

(* While p fills the map, the directory is the result of its load.         *)
LEMMA DirectoryWhileFilling ==
    ASSUME MutexInv, NEW p \in Procs, pc[p] \in Writing
    PROVE  DirectoryNow = Result(load[p])
<1> DEFINE filling == {q \in Procs : pc[q] \in {"fill", "insert", "store"}}
<1>1. filling = {p}
  BY DEF MutexInv, Holding, Writing
<1>2. (CHOOSE q \in filling : TRUE) = p
  BY <1>1
<1> QED BY <1>1, <1>2 DEF DirectoryNow, Result

(* Otherwise it is the map.                                                *)
LEMMA DirectoryOtherwise ==
    ASSUME \A q \in Procs : pc[q] \notin Writing
    PROVE  DirectoryNow = globalLayers
<1>1. {q \in Procs : pc[q] \in {"fill", "insert", "store"}} = {}
  BY DEF Writing
<1> QED BY <1>1 DEF DirectoryNow

(* A step that keeps the map, and who fills it with what, keeps the        *)
(* directory.                                                              *)
LEMMA DirectoryKept ==
    ASSUME MutexInv, MutexInv', globalLayers' = globalLayers,
           \A q \in Procs : pc'[q] \in Writing <=> pc[q] \in Writing,
           \A q \in Procs : pc[q] \in Writing => load'[q] = load[q]
    PROVE  DirectoryNow' = DirectoryNow
<1>1. CASE \A q \in Procs : pc[q] \notin Writing
  <2>1. DirectoryNow = globalLayers
    BY <1>1, DirectoryOtherwise
  <2>2. DirectoryNow' = globalLayers'
    <3>1. \A q \in Procs : pc'[q] \notin Writing
      BY <1>1
    <3>2. {q \in Procs : pc'[q] \in {"fill", "insert", "store"}} = {}
      BY <3>1 DEF Writing
    <3> QED BY <3>2 DEF DirectoryNow
  <2> QED BY <2>1, <2>2
<1>2. ASSUME NEW p \in Procs, pc[p] \in Writing
      PROVE  DirectoryNow' = DirectoryNow
  <2>1. DirectoryNow = Result(load[p])
    BY <1>2, DirectoryWhileFilling
  <2>2. {q \in Procs : pc'[q] \in {"fill", "insert", "store"}} = {p}
    BY <1>2 DEF MutexInv, Holding, Writing
  <2>3. DirectoryNow' = Result(load'[p])
    BY <2>2 DEF DirectoryNow, Result
  <2> QED BY <1>2, <2>1, <2>3
<1> QED BY <1>1, <1>2
(* LayerDirectory speaks of the same directories.                          *)
LEMMA SameDirectories ==
    /\ Dir!EmptyDirectory = EmptyDirectory
    /\ \A h, tv, fv : Dir!ReadAt(h, tv, fv) = ReadAt(h, tv, fv)
BY DEF Dir!EmptyDirectory, EmptyDirectory, Dir!NoLayer, NoLayer, Dir!ReadAt, ReadAt,
       Dir!Overlay, Overlay, Dir!TableLayer, TableLayer, Dir!FunctionLayer, FunctionLayer

(* The abstract steps, under the mapping.                                  *)
LEMMA ReplaceStep ==
    ASSUME WholeInv, WholeInv', NEW p \in Procs, LockAndEmpty(p)
    PROVE  Dir!DirReplace
<1> USE DEF Writing, Goto
<1>1. /\ pc[p] = "lock" /\ pc'[p] = "fill"
      /\ \A q \in Procs \ {p} : pc'[q] = pc[q]
      /\ UNCHANGED <<history, load, listing>>
  BY DEF WholeInv, TypeOK, LockAndEmpty
<1>2. FunctionsRead(p) /\ TablesRead(p)
  BY <1>1 DEF WholeInv, LoadInv
<1> DEFINE fv == load[p].fv
           tv == load[p].tv
<1>3. Result(load[p]) = ReadAt(history, tv, fv)
  <2>1. load[p].tables = IF tv = 0 THEN {} ELSE history[tv].tables
    <3>1. TablesRead(p) /\ Now \in Nat
      BY <1>2, CatalogueType DEF WholeInv
    <3> QED BY <3>1 DEF TablesRead
  <2> QED BY <1>2, <2>1 DEF Result, ReadAt, FunctionsRead
<1>4. {q \in Procs : pc'[q] \in {"fill", "insert", "store"}} = {p}
  BY <1>1 DEF WholeInv, MutexInv, Holding
<1>5. DirectoryNow' = Result(load[p])
  BY <1>1, <1>4 DEF DirectoryNow, Result
<1>6. SeenNow' = SeenNow
  BY <1>1 DEF SeenNow, Procs
<1>7. fv \in 1..Len(history) /\ tv \in 0..fv
  BY <1>2 DEF FunctionsRead, Now
<1>8. DirectoryNow' = Dir!ReadAt(history, tv, fv)
  BY <1>3, <1>5, SameDirectories
<1> QED BY <1>1, <1>6, <1>7, <1>8 DEF Dir!DirReplace, SeenNow

(* The unlock that ends a list is the moment the directory is copied. *)
LEMMA ListStepDir ==
    ASSUME WholeInv, WholeInv', NEW r \in Requests, ListUnlock(r)
    PROVE  Dir!DirList(r)
<1> USE DEF Writing, Holding, Goto
<1> r \in Procs
  BY DEF Procs
<1>1. /\ pc[r] = "copy" /\ pc'[r] = "write"
      /\ \A q \in Procs \ {r} : pc'[q] = pc[q]
      /\ UNCHANGED <<history, globalLayers, load, listing>>
  BY DEF WholeInv, TypeOK, ListUnlock
<1>2. \A q \in Procs : pc[q] \notin Writing
  BY <1>1 DEF WholeInv, MutexInv
<1>3. DirectoryNow = globalLayers
  BY <1>2, DirectoryOtherwise
<1>4. DirectoryNow' = DirectoryNow
  BY <1>1, <1>2, DirectoryKept DEF WholeInv
<1>5. listing[r] = globalLayers
  <2>1. \A i \in Ids : listing[r][i] = globalLayers[i]
    BY <1>1 DEF ListUnlock, Uncopied, WholeInv, CopyInv
  <2>2. listing[r] \in [Ids -> SlotLayer] /\ globalLayers \in [Ids -> SlotLayer]
    BY <1>1 DEF WholeInv, TypeOK
  <2> QED BY <2>1, <2>2
<1>6. SeenNow' = [SeenNow EXCEPT ![r] = DirectoryNow]
  BY <1>1, <1>3, <1>5 DEF SeenNow, Procs
<1> QED BY <1>1, <1>4, <1>6 DEF Dir!DirList, SeenNow

(* A handler that starts over, or starts copying, has no listing.          *)
LEMMA ForgetStep ==
    ASSUME WholeInv, WholeInv', NEW r \in Requests,
           Arrive(r) \/ ListLock(r)
    PROVE  Dir!DirForget(r)
<1> USE DEF Writing, Holding, Goto
<1> r \in Procs
  BY DEF Procs
<1>1. /\ pc[r] \notin Writing /\ pc'[r] \notin Writing
      /\ \A q \in Procs \ {r} : pc'[q] = pc[q] /\ listing'[q] = listing[q]
      /\ UNCHANGED <<history, globalLayers, load>>
  BY DEF WholeInv, TypeOK, Arrive, ListLock
<1>2. pc'[r] = "copy" \/ listing'[r] = NoListing
  BY DEF WholeInv, TypeOK, Arrive, ListLock
<1>3. DirectoryNow' = DirectoryNow
  BY <1>1, DirectoryKept DEF WholeInv
<1>4. SeenNow' = [SeenNow EXCEPT ![r] = NoListing]
  BY <1>1, <1>2 DEF SeenNow, Procs
<1> QED BY <1>1, <1>3, <1>4 DEF Dir!DirForget, SeenNow

(* A process that exits leaves an empty directory behind. *)
LEMMA LostStep ==
    ASSUME Exit, UNCHANGED history
    PROVE  Dir!DirLost
<1>1. {q \in Procs : pc'[q] \in {"fill", "insert", "store"}} = {}
  BY DEF Exit
<1>2. DirectoryNow' = EmptyDirectory
  BY <1>1 DEF DirectoryNow, Exit
<1>3. SeenNow' = [r \in Requests |-> NoListing]
  BY DEF SeenNow, Exit, Procs
<1> QED BY <1>2, <1>3, SameDirectories DEF Dir!DirLost, SeenNow
(* Every other step leaves the directory and the listings alone.           *)
LEMMA FinishIsSilent ==
    ASSUME WholeInv, WholeInv', NEW p \in Procs, NEW a, Finish(p, a),
           UNCHANGED history, pc[p] \notin Holding
    PROVE  UNCHANGED DirVars
<1> USE DEF Writing, Holding
<1>1. /\ pc'[p] = "idle" /\ \A q \in Procs \ {p} : pc'[q] = pc[q] /\ load'[q] = load[q]
      /\ UNCHANGED <<history, globalLayers, listing>>
  BY DEF WholeInv, TypeOK, Finish, Goto
<1>2. DirectoryNow' = DirectoryNow
  BY <1>1, DirectoryKept DEF WholeInv
<1>3. SeenNow' = SeenNow
  BY <1>1 DEF SeenNow, Procs
<1> QED BY <1>1, <1>2, <1>3 DEF DirVars

(* Outside the mutex, a request that gives up changes nothing or ends the process. *)
LEMMA GiveUpStep ==
    ASSUME WholeInv, WholeInv', NEW p \in Procs, NEW s, GiveUp(p, s),
           UNCHANGED history, pc[p] \notin Holding
    PROVE  Dir!DirLost \/ UNCHANGED DirVars
BY FinishIsSilent, LostStep DEF GiveUp

(* The map is written to, but the directory is what the load read.         *)
LEMMA FillIsSilent ==
    ASSUME WholeInv, WholeInv', NEW p \in Procs,
           InsertTable(p) \/ InsertFunction(p) \/ InsertKey(p) \/ StoreLayer(p)
    PROVE  UNCHANGED DirVars
<1> USE DEF Writing, Goto
<1>1. /\ pc[p] \in Writing /\ pc'[p] \in Writing
      /\ \A q \in Procs \ {p} : pc'[q] = pc[q]
      /\ UNCHANGED <<history, load, listing>>
  BY DEF WholeInv, TypeOK, InsertTable, InsertFunction, InsertKey, StoreLayer
<1>2. DirectoryNow = Result(load[p])
  BY <1>1, DirectoryWhileFilling DEF WholeInv
<1>3. {q \in Procs : pc'[q] \in {"fill", "insert", "store"}} = {p}
  BY <1>1 DEF WholeInv, MutexInv, Holding
<1>4. DirectoryNow' = Result(load'[p])
  BY <1>3 DEF DirectoryNow, Result
<1>5. SeenNow' = SeenNow
  BY <1>1 DEF SeenNow, Procs
<1> QED BY <1>1, <1>2, <1>4, <1>5 DEF DirVars

(* Unlocking after the last entry: the directory was already replaced. *)
LEMMA UnlockIsSilent ==
    ASSUME WholeInv, WholeInv', NEW p \in Procs, Unlock(p)
    PROVE  UNCHANGED DirVars
<1> USE DEF Writing, Holding, Goto
<1>1. /\ pc[p] = "fill" /\ pc'[p] \in {"versions", "listlock", "find"}
      /\ \A q \in Procs \ {p} : pc'[q] = pc[q]
      /\ TablesLeft(p) = {} /\ FunctionsLeft(p) = {}
      /\ UNCHANGED <<history, globalLayers, listing>>
  BY DEF WholeInv, TypeOK, Unlock
<1>2. DirectoryNow = Result(load[p])
  BY <1>1, DirectoryWhileFilling DEF WholeInv
<1>3. globalLayers = Result(load[p])
  BY <1>1, FilledIsOverlay DEF WholeInv, Result
<1>4. {q \in Procs : pc'[q] \in {"fill", "insert", "store"}} = {}
  BY <1>1 DEF WholeInv, MutexInv
<1>5. DirectoryNow' = globalLayers'
  BY <1>4 DEF DirectoryNow
<1>6. SeenNow' = SeenNow
  BY <1>1 DEF SeenNow, Procs
<1> QED BY <1>1, <1>2, <1>3, <1>5, <1>6 DEF DirVars

(* Steps outside the mutex that change neither a load nor a listing.       *)
LEMMA QuietIsSilent ==
    ASSUME WholeInv, WholeInv', NEW p \in Procs,
           pc[p] \notin Holding, pc'[p] \notin Holding,
           \A q \in Procs \ {p} : pc'[q] = pc[q] /\ load'[q] = load[q],
           UNCHANGED <<history, globalLayers, listing>>
    PROVE  UNCHANGED DirVars
<1> USE DEF Writing, Holding
<1>1. DirectoryNow' = DirectoryNow
  BY DirectoryKept DEF WholeInv
<1>2. SeenNow' = SeenNow
  BY DEF SeenNow, Procs
<1> QED BY <1>1, <1>2 DEF DirVars

(* Copying entries: the list is answered whole, at the unlock. *)
LEMMA CopyIsSilent ==
    ASSUME WholeInv, WholeInv', NEW r \in Requests, CopyEntry(r)
    PROVE  UNCHANGED DirVars
<1> r \in Procs
  BY DEF Procs
<1>1. PICK i \in Uncopied(r) : listing' = [listing EXCEPT ![r][i] = globalLayers[i]]
  BY DEF CopyEntry
<1>2. pc[r] = "copy" /\ UNCHANGED <<history, globalLayers, pc, load>>
  BY DEF CopyEntry
<1>3. \A q \in Procs \ {r} : listing'[q] = listing[q]
  BY <1>1 DEF WholeInv, TypeOK
<1>4. DirectoryNow' = DirectoryNow
  BY <1>2 DEF DirectoryNow
<1>5. SeenNow' = SeenNow
  BY <1>2, <1>3 DEF SeenNow, Procs
<1> QED BY <1>2, <1>4, <1>5 DEF DirVars
(* The initial states.                                                     *)
LEMMA DirectoryStart == Init => Dir!DirInit
<1> SUFFICES ASSUME Init PROVE Dir!DirInit
  OBVIOUS
<1>1. \A p \in Procs : pc[p] \notin Writing \cup {"copy"}
  BY DEF Init, Writing
<1>2. DirectoryNow = Dir!EmptyDirectory
  BY <1>1, DirectoryOtherwise, SameDirectories DEF Init
<1>3. SeenNow = [r \in Requests |-> NoListing]
  BY <1>1 DEF SeenNow, Init, Procs
<1> QED BY <1>2, <1>3 DEF Dir!DirInit, SeenNow, Init

(* Every step.                                                             *)
LEMMA DirectoryStep ==
    WholeInv /\ WholeInv' /\ [Next]_vars => [Dir!DirNext]_(Dir!dirVars)
<1> SUFFICES ASSUME WholeInv, WholeInv', [Next]_vars
             PROVE  Dir!DirNext \/ UNCHANGED DirVars
  BY DEF DirVars, SeenNow, Dir!dirVars
<1> USE DEF Writing, Holding
<1>1. CASE CatalogueChanges
  <2>1. Dir!DirChange
    <3>1. UNCHANGED <<DirectoryNow, SeenNow>>
      BY <1>1 DEF CatalogueChanges, DirectoryNow, SeenNow
    <3> QED BY <1>1, <3>1 DEF CatalogueChanges, Dir!DirChange, SeenNow, Now
  <2> QED BY <2>1 DEF Dir!DirNext
<1>2. CASE Restart
  <2>1. /\ pc[Main] = "idle" /\ pc'[Main] = "tables"
        /\ \A q \in Procs \ {Main} : pc'[q] = pc[q]
        /\ UNCHANGED <<history, globalLayers, load, listing>>
    BY <1>2 DEF Restart, Goto, WholeInv, TypeOK, Procs
  <2> QED BY <2>1, QuietIsSilent DEF Procs
<1>3. CASE LoadVersions
  <2>1. /\ pc[Main] = "versions" /\ pc'[Main] = "idle"
        /\ \A q \in Procs \ {Main} : pc'[q] = pc[q]
        /\ UNCHANGED <<history, globalLayers, load, listing>>
    BY <1>3 DEF LoadVersions, Goto, WholeInv, TypeOK, Procs
  <2> QED BY <2>1, QuietIsSilent DEF Procs
<1>4. CASE LoadVersionsFails
  BY <1>4, LostStep DEF LoadVersionsFails, Dir!DirNext
<1>5. ASSUME NEW p \in Procs, LoadStep(p)
      PROVE  Dir!DirNext \/ UNCHANGED DirVars
  <2>1. CASE LoadTables(p) \/ TablesQueryFails(p) \/ LoadFunctions(p)
    <3>1. /\ pc[p] \notin Holding /\ pc'[p] \notin Holding
          /\ \A q \in Procs \ {p} : pc'[q] = pc[q] /\ load'[q] = load[q]
          /\ UNCHANGED <<history, globalLayers, listing>>
      BY <2>1 DEF LoadTables, TablesQueryFails, LoadFunctions, Goto, WholeInv, TypeOK
    <3> QED BY <3>1, QuietIsSilent
  <2>2. CASE TablesReadFails(p)
    BY <2>2, GiveUpStep DEF TablesReadFails, Dir!DirNext
  <2>3. CASE FunctionsReadFails(p)
    BY <2>3, GiveUpStep DEF FunctionsReadFails, Dir!DirNext
  <2>4. CASE FunctionRowFatal(p)
    BY <2>4, LostStep DEF FunctionRowFatal, Dir!DirNext
  <2>5. CASE FunctionRowPanics(p)
    BY <2>5, GiveUpStep DEF FunctionRowPanics, Dir!DirNext
  <2>6. CASE LockAndEmpty(p)
    BY <2>6, ReplaceStep DEF Dir!DirNext
  <2>7. CASE InsertTable(p) \/ InsertFunction(p) \/ InsertKey(p) \/ StoreLayer(p)
    BY <2>7, FillIsSilent
  <2>8. CASE Unlock(p)
    BY <2>8, UnlockIsSilent
  <2> QED BY <1>5, <2>1, <2>2, <2>3, <2>4, <2>5, <2>6, <2>7, <2>8 DEF LoadStep
<1>6. ASSUME NEW r \in Requests, Arrive(r) \/ ListStep(r)
      PROVE  Dir!DirNext \/ UNCHANGED DirVars
  <2>1. r \in Procs
    BY DEF Procs
  <2>2. CASE Arrive(r) \/ ListLock(r)
    BY <2>2, ForgetStep DEF Dir!DirNext
  <2>3. CASE CopyEntry(r)
    BY <2>3, CopyIsSilent
  <2>4. CASE ListUnlock(r)
    BY <2>4, ListStepDir DEF Dir!DirNext
  <2>5. CASE WriteList(r)
    BY <2>1, <2>5, FinishIsSilent DEF WriteList
  <2>6. CASE WriteListFails(r)
    BY <2>1, <2>6, FinishIsSilent DEF WriteListFails
  <2> QED BY <1>6, <2>2, <2>3, <2>4, <2>5, <2>6 DEF ListStep
<1>7. ASSUME NEW r \in Requests, LayerStep(r)
      PROVE  Dir!DirNext \/ UNCHANGED DirVars
  <2>1. r \in Procs
    BY DEF Procs
  <2>2. CASE SkipDuplicate(r) \/ FindLayer(r) \/ Render(r)
    <3>1. /\ pc[r] \in {"find", "render"} /\ pc'[r] \in {"find", "render"}
          /\ \A q \in Procs \ {r} : pc'[q] = pc[q]
          /\ UNCHANGED <<history, globalLayers, load, listing>>
      BY <2>1, <2>2 DEF SkipDuplicate, FindLayer, Render, Goto, WholeInv, TypeOK
    <3> QED BY <2>1, <3>1, QuietIsSilent
  <2>3. CASE MapRace(r)
    BY <2>3, LostStep DEF MapRace, Dir!DirNext
  <2>4. CASE FindNothing(r)
    BY <2>1, <2>4, FinishIsSilent DEF FindNothing
  <2>5. CASE RejectTile(r)
    BY <2>1, <2>5, FinishIsSilent DEF RejectTile
  <2>6. CASE RenderDropped(r)
    BY <2>1, <2>6, FinishIsSilent DEF RenderDropped
  <2>7. CASE RenderFails(r)
    BY <2>1, <2>7, FinishIsSilent DEF RenderFails
  <2>8. CASE UseHalfStored(r)
    BY <2>1, <2>8, FinishIsSilent DEF UseHalfStored
  <2>9. CASE UnknownType(r)
    BY <2>1, <2>9, FinishIsSilent DEF UnknownType
  <2>10. CASE Reply(r)
    BY <2>1, <2>10, FinishIsSilent DEF Reply
  <2> QED BY <1>7, <2>2, <2>3, <2>4, <2>5, <2>6, <2>7, <2>8, <2>9, <2>10 DEF LayerStep
<1>8. CASE UNCHANGED vars
  BY <1>8 DEF vars, DirVars, DirectoryNow, SeenNow
<1> QED
  BY <1>1, <1>2, <1>3, <1>4, <1>5, <1>6, <1>7, <1>8 DEF Next, StartStep

(* The registry implements its abstract directory: clients see it change   *)
(* as a whole, and every listing is the directory of one instant.          *)
THEOREM RegistryImplementsDirectory == Spec => ImplementsDirectory
<1>1. Init => Dir!DirInit
  BY DirectoryStart
<1>2. WholeInv /\ WholeInv' /\ [Next]_vars => [Dir!DirNext]_(Dir!dirVars)
  BY DirectoryStep
<1> QED BY <1>1, <1>2, WholeAlways, PTL DEF Spec, ImplementsDirectory, Dir!DirSpec
=============================================================================
