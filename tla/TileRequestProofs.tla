-------------------------- MODULE TileRequestProofs --------------------------
(***************************************************************************)
(* Proofs about TileRequest, for any number of handlers and requests, any  *)
(* catalogue and whatever the statements are: a tile that is answered      *)
(* holds each layer of its request once and in order, the metrics are kept *)
(* for layers that exist, and the cache of templates is dangerous at the   *)
(* start only.                                                             *)
(***************************************************************************)
EXTENDS TileRequest, SequenceTheorems, FiniteSetTheorems, TLAPS

AtLayer == {"template", "lock", "store", "unlock", "ask"}
Working == AtLayer \cup {"layer"}

(* The variables are functions on the handlers.                            *)
Functional ==
    /\ DOMAIN pc = Handlers /\ DOMAIN req = Handlers /\ DOMAIN at = Handlers
    /\ DOMAIN extant = Handlers /\ DOMAIN layers = Handlers /\ DOMAIN sql = Handlers
    /\ DOMAIN reply = Handlers

(* At a place in the list of names, the layers that have been answered are *)
(* those named before, each once, in the order of their first mention, and *)
(* each is a layer of the registry.                                        *)
InOrder(names, upto, done) ==
    /\ {done[i] : i \in 1..Len(done)} = {names[i] : i \in 1..upto}
    /\ \A i, j \in 1..Len(done) : i < j =>
          \E m \in 1..upto : names[m] = done[i] /\ \A n \in 1..m : names[n] # done[j]
Halfway(h) ==
    /\ req[h] \in Requests /\ req[h].kind = "tile"
    /\ at[h] \in Nat \ {0} /\ at[h] - 1 <= Len(req[h].names)
    /\ \E S : extant[h] \in Seq(S)
    /\ \E S : layers[h] \in Seq(S)
    /\ Len(layers[h]) = Len(extant[h])
    /\ \A i \in 1..Len(extant[h]) : layers[h][i].layer = extant[h][i]
    /\ InOrder(req[h].names, at[h] - 1, extant[h])
    /\ \A i \in 1..(at[h] - 1) : req[h].names[i] \in DOMAIN globalLayers
AtNext(h) ==
    /\ at[h] <= Len(req[h].names)
    /\ \A i \in 1..Len(extant[h]) : extant[h][i] # req[h].names[at[h]]
    /\ req[h].names[at[h]] \in DOMAIN globalLayers

(* The locals of a handler between requests.                               *)
Fresh(h) == at[h] = 1 /\ extant[h] = <<>> /\ layers[h] = <<>>

(* A tile that is answered.                                                *)
Whole(h) == Served(h, "tile") => InFull(req[h].names, reply[h].body)

(* What is to be counted.                                                  *)
Countable(h) ==
    /\ req[h] \in Requests /\ req[h].kind = "tile"
    /\ reply[h].code \in Codes
    /\ reply[h].code \notin 400..499 => req[h].names[1] \in DOMAIN globalLayers
    /\ reply[h].code = 200 => \A i \in DOMAIN req[h].names : req[h].names[i] \in DOMAIN globalLayers

HandlerInv(h) ==
    /\ pc[h] \in Places
    /\ pc[h] \notin Working => Fresh(h)
    /\ pc[h] \in Working => Halfway(h)
    /\ pc[h] \in AtLayer => AtNext(h)
    /\ pc[h] = "count" => Countable(h)
    /\ pc[h] \in {"detail", "list"} => req[h].kind = pc[h]
    /\ pc[h] \in Working \cup {"detail", "list"} => reply[h].code = 0
    /\ Whole(h)

Starting ==
    server = "starting" =>
        /\ \A h \in Handlers : pc[h] = "idle"
        /\ \A k \in Labels \X Codes : tilesProcessed[k] = 0

IInv ==
    /\ Functional
    /\ \A h \in Handlers : HandlerInv(h)
    /\ DOMAIN tilesProcessed = Labels \X Codes
    /\ Starting
    /\ MetricsTrackValidLayers
    /\ globalTemplates \subseteq {"tabletilesql"}

-----------------------------------------------------------------------------
(* Facts about lists of names.                                             *)

(* One more name that was not there before.                                *)
LEMMA OneMoreInOrder ==
    ASSUME NEW names, NEW upto \in Nat, NEW S, NEW done \in Seq(S), NEW id,
           InOrder(names, upto, done), id = names[upto + 1],
           \A i \in 1..Len(done) : done[i] # id
    PROVE  InOrder(names, upto + 1, Append(done, id))
<1> DEFINE more == Append(done, id)
<1>1. /\ Len(more) = Len(done) + 1
      /\ more[Len(done) + 1] = id
      /\ \A i \in 1..Len(done) : more[i] = done[i]
      /\ Len(done) \in Nat
  <2>1. done \in Seq(S \cup {id}) /\ id \in S \cup {id}
    OBVIOUS
  <2> QED BY <2>1
<1> HIDE DEF more
<1>2. {more[i] : i \in 1..Len(more)} = {names[i] : i \in 1..(upto + 1)}
  <2>1. {more[i] : i \in 1..Len(more)} = {done[i] : i \in 1..Len(done)} \cup {id}
    BY <1>1
  <2>2. {names[i] : i \in 1..(upto + 1)} = {names[i] : i \in 1..upto} \cup {names[upto + 1]}
    OBVIOUS
  <2> QED BY <2>1, <2>2 DEF InOrder
<1>3. ASSUME NEW i \in 1..Len(more), NEW j \in 1..Len(more), i < j
      PROVE  \E m \in 1..(upto + 1) : names[m] = more[i] /\ \A n \in 1..m : names[n] # more[j]
  <2>1. i \in 1..Len(done) /\ more[i] = done[i]
    BY <1>1, <1>3
  <2>2. CASE j \in 1..Len(done)
    <3>1. PICK m \in 1..upto : names[m] = done[i] /\ \A n \in 1..m : names[n] # done[j]
      BY <1>3, <2>1, <2>2 DEF InOrder
    <3>2. more[j] = done[j] /\ m \in 1..(upto + 1)
      BY <1>1, <2>2
    <3> QED BY <2>1, <3>1, <3>2
  <2>3. CASE j = Len(done) + 1
    <3>1. \A n \in 1..upto : names[n] # id
      BY DEF InOrder
    <3> done[i] \in {done[k] : k \in 1..Len(done)}
      BY <2>1
    <3> {done[k] : k \in 1..Len(done)} = {names[k] : k \in 1..upto}
      BY DEF InOrder
    <3>2. PICK m \in 1..upto : names[m] = done[i]
      OBVIOUS
    <3> m \in 1..(upto + 1)
      OBVIOUS
    <3>3. \A n \in 1..m : names[n] # more[j]
      BY <1>1, <2>3, <3>1, <3>2
    <3> QED BY <2>1, <3>2, <3>3
  <2> QED BY <1>1, <2>2, <2>3
<1> QED BY <1>2, <1>3 DEF InOrder, more

(* A name that was there before adds nothing.                              *)
LEMMA SameInOrder ==
    ASSUME NEW names, NEW upto \in Nat, NEW S, NEW done \in Seq(S),
           InOrder(names, upto, done), \E i \in 1..Len(done) : done[i] = names[upto + 1]
    PROVE  InOrder(names, upto + 1, done)
<1>1. PICK i \in 1..Len(done) : done[i] = names[upto + 1]
  OBVIOUS
<1>2. names[upto + 1] \in {names[k] : k \in 1..upto}
  BY <1>1 DEF InOrder
<1>3. {names[k] : k \in 1..(upto + 1)} = {names[k] : k \in 1..upto}
  BY <1>2
<1>4. ASSUME NEW j \in 1..Len(done), NEW k \in 1..Len(done), j < k
      PROVE  \E m \in 1..(upto + 1) : names[m] = done[j] /\ \A n \in 1..m : names[n] # done[k]
  <2>1. PICK m \in 1..upto : names[m] = done[j] /\ \A n \in 1..m : names[n] # done[k]
    BY <1>4 DEF InOrder
  <2> QED BY <2>1
<1> QED BY <1>3, <1>4 DEF InOrder

-----------------------------------------------------------------------------
(* A step of a handler leaves the others where they are.                   *)
Step(h) == LayerStep(h) \/ TemplateStep(h) \/ LastStep(h)

Unmoved(h) ==
    /\ pc'[h] = pc[h] /\ req'[h] = req[h] /\ at'[h] = at[h]
    /\ extant'[h] = extant[h] /\ layers'[h] = layers[h] /\ reply'[h] = reply[h]

(* The functions stay functions on the handlers, and a handler that is not *)
(* at work does not move.                                                  *)
LEMMA OthersUnmoved ==
    ASSUME Functional, NEW h \in Handlers, Arrive(h) \/ Step(h)
    PROVE  Functional' /\ \A g \in Handlers \ {h} : Unmoved(g)
<1>1. CASE Arrive(h)
  <2>1. Functional'
    BY <1>1 DEF Functional, Arrive, handling
  <2>2. \A g \in Handlers \ {h} : Unmoved(g)
    BY <1>1 DEF Functional, Arrive, handling, Unmoved
  <2> QED BY <2>1, <2>2
<1>2. CASE LayerStep(h)
  <2> USE DEF Functional, Unmoved, handling, Goto
  <2>1. CASE SkipDuplicate(h)
    BY <2>1 DEF SkipDuplicate
  <2>2. CASE FindNothing(h)
    BY <2>2 DEF FindNothing, Answer, Return
  <2>3. CASE InvalidTile(h)
    BY <2>3 DEF InvalidTile, Answer, Return
  <2>4. CASE CallFunction(h)
    BY <2>4 DEF CallFunction
  <2>5. CASE FilterPanics(h)
    BY <2>5 DEF FilterPanics, Lost, Return
  <2>6. CASE SelectTable(h)
    BY <2>6 DEF SelectTable
  <2>7. CASE Respond(h)
    BY <2>7 DEF Respond, Answer, Return
  <2>8. CASE RespondFails(h)
    BY <2>8 DEF RespondFails, Answer, Return
  <2> QED BY <1>2, <2>1, <2>2, <2>3, <2>4, <2>5, <2>6, <2>7, <2>8 DEF LayerStep
<1>3. CASE TemplateStep(h)
  <2> USE DEF Functional, Unmoved, handling, Goto
  <2>1. CASE ReadTemplate(h)
    BY <2>1 DEF ReadTemplate
  <2>2. CASE MapRace(h)
    BY <2>2 DEF MapRace
  <2>3. CASE LockTemplates(h)
    BY <2>3 DEF LockTemplates
  <2>4. CASE StoreTemplate(h)
    BY <2>4 DEF StoreTemplate
  <2>5. CASE UnlockTemplates(h)
    BY <2>5 DEF UnlockTemplates
  <2> QED BY <1>3, <2>1, <2>2, <2>3, <2>4, <2>5 DEF TemplateStep
<1>4. CASE LastStep(h)
  <2> USE DEF Functional, Unmoved, handling, Goto
  <2>1. CASE Ask(h)
    BY <2>1 DEF Ask
  <2>2. CASE AskFails(h)
    BY <2>2 DEF AskFails, Answer, Return
  <2>3. CASE Ignore(h)
    BY <2>3 DEF Ignore
  <2>4. CASE Track(h)
    BY <2>4 DEF Track
  <2>5. CASE List(h)
    BY <2>5 DEF List, Inform
  <2>6. CASE Detail(h)
    BY <2>6 DEF Detail, Inform
  <2>7. CASE ReadFails(h)
    BY <2>7 DEF ReadFails, Inform
  <2> QED BY <1>4, <2>1, <2>2, <2>3, <2>4, <2>5, <2>6, <2>7 DEF LastStep
<1> QED BY <1>1, <1>2, <1>3, <1>4 DEF Step

-----------------------------------------------------------------------------
(* What a step makes of its own handler.                                   *)

(* The names of a tile request.                                            *)
LEMMA NamesAreASequence ==
    ASSUME NEW h \in Handlers, req[h] \in Requests, req[h].kind = "tile"
    PROVE  /\ req[h].names \in Seq(Seq(STRING))
           /\ DOMAIN req[h].names = 1..Len(req[h].names)
           /\ Len(req[h].names) \in Nat \ {0}
<1> DEFINE names == req[h].names
<1>1. names \in Seq(Seq(STRING)) /\ names # <<>>
  BY RequestsAssumption
<1> HIDE DEF names
<1>2. DOMAIN names = 1..Len(names) /\ Len(names) \in Nat \ {0}
  BY <1>1, EmptySeq
<1> QED BY <1>1, <1>2 DEF names

(* Whatever is answered on the way leaves nothing behind, and is to be     *)
(* counted for layers that exist.                                          *)
LEMMA AnswerInv ==
    ASSUME Functional, NEW h \in Handlers, NEW r, Answer(h, r), Halfway(h),
           r.code \in Codes,
           r.code \notin 400..499 => req[h].names[1] \in DOMAIN globalLayers,
           r.code = 200 =>
               /\ \A i \in DOMAIN req[h].names : req[h].names[i] \in DOMAIN globalLayers
               /\ InFull(req[h].names, r.body)
    PROVE  HandlerInv(h)'
<1>1. /\ pc'[h] = "count" /\ reply'[h] = r /\ req'[h] = req[h] /\ globalLayers' = globalLayers
      /\ at'[h] = 1 /\ extant'[h] = <<>> /\ layers'[h] = <<>>
  BY DEF Answer, Return, Goto, Functional
<1>2. Countable(h)'
  BY <1>1 DEF Countable, Halfway
<1>3. Whole(h)'
  BY <1>1 DEF Whole, Served
<1>4. Fresh(h)'
  BY <1>1 DEF Fresh
<1>5. pc'[h] \in Places /\ pc'[h] \notin Working \cup {"detail", "list"}
  BY <1>1 DEF Places, Working, AtLayer
<1> QED BY <1>1, <1>2, <1>3, <1>4, <1>5 DEF HandlerInv, Working, AtLayer

(* The first name of a request is a layer's as soon as one has been found. *)
LEMMA FirstIsKnown ==
    ASSUME NEW h \in Handlers, Halfway(h),
           at[h] > Len(req[h].names) \/ AtNext(h)
    PROVE  req[h].names[1] \in DOMAIN globalLayers
<1>1. Len(req[h].names) \in Nat \ {0} /\ at[h] \in Nat \ {0}
  BY NamesAreASequence DEF Halfway
<1>2. CASE at[h] = 1
  BY <1>1, <1>2 DEF AtNext
<1>3. CASE at[h] # 1
  BY <1>1, <1>3 DEF Halfway
<1> QED BY <1>2, <1>3

(* A request begins with nothing done.                                     *)
LEMMA ArriveInv ==
    ASSUME Functional, NEW h \in Handlers, HandlerInv(h), Arrive(h)
    PROVE  HandlerInv(h)'
<1>1. PICK r \in Requests : /\ req' = [req EXCEPT ![h] = r]
                            /\ pc' = [pc EXCEPT ![h] = IF r.kind = "tile" THEN "layer" ELSE r.kind]
  BY DEF Arrive
<1>2. req'[h] = r /\ pc'[h] = (IF r.kind = "tile" THEN "layer" ELSE r.kind)
  BY <1>1 DEF Functional
<1>3. /\ Fresh(h) /\ at' = at /\ extant' = extant /\ layers' = layers
      /\ reply'[h].code = 0
  BY DEF HandlerInv, Working, AtLayer, Arrive, handling, Functional, NoReply, Reply
<1>4. Whole(h)'
  BY <1>3 DEF Whole, Served
<1>5. CASE r.kind = "tile"
  <2>1. Len(r.names) \in Nat \ {0}
    BY <1>5, RequestsAssumption, EmptySeq
  <2>2. /\ req'[h] \in Requests /\ req'[h].kind = "tile"
        /\ at'[h] = 1 /\ extant'[h] = <<>> /\ layers'[h] = <<>>
    BY <1>2, <1>3, <1>5 DEF Fresh
  <2>3. InOrder(req'[h].names, at'[h] - 1, extant'[h])
    BY <2>2 DEF InOrder
  <2>4. extant'[h] \in Seq({}) /\ layers'[h] \in Seq({}) /\ Len(layers'[h]) = Len(extant'[h])
    BY <2>2
  <2>5. Halfway(h)'
    BY <1>2, <2>1, <2>2, <2>3, <2>4 DEF Halfway
  <2>6. pc'[h] = "layer"
    BY <1>2, <1>5
  <2> QED BY <1>3, <1>4, <2>5, <2>6 DEF HandlerInv, Working, AtLayer, Places
<1>6. CASE r.kind \in {"detail", "list"}
  <2>1. pc'[h] \in {"detail", "list"}
    BY <1>2, <1>6
  <2>2. Fresh(h)'
    BY <1>3 DEF Fresh
  <2>3. req'[h].kind = pc'[h]
    BY <1>2, <1>6
  <2> QED BY <1>3, <1>4, <2>1, <2>2, <2>3 DEF HandlerInv, Working, AtLayer, Places
<1> QED BY <1>5, <1>6, RequestsAssumption

(* A name that has been answered, one that is not known, or a tile that is *)
(* none; and the end of the list.                                          *)
LEMMA LayerStepInv ==
    ASSUME Functional, NEW h \in Handlers, HandlerInv(h), LayerStep(h)
    PROVE  HandlerInv(h)'
<1>1. pc[h] = "layer" /\ Halfway(h) /\ reply[h].code = 0 /\ Whole(h)
  BY DEF LayerStep, SkipDuplicate, FindNothing, InvalidTile, CallFunction, FilterPanics, SelectTable,
         Respond, RespondFails, Found, Wanted, More, In, HandlerInv, Working, AtLayer
<1>2. /\ req[h].names \in Seq(Seq(STRING))
      /\ DOMAIN req[h].names = 1..Len(req[h].names)
      /\ Len(req[h].names) \in Nat \ {0}
      /\ at[h] \in Nat \ {0}
  BY <1>1, NamesAreASequence DEF Halfway
<1>3. ASSUME Wanted(h), Source(h) \in DOMAIN globalLayers
      PROVE  AtNext(h)
  BY <1>3 DEF Wanted, More, Has, Source, AtNext
<1>4. CASE SkipDuplicate(h)
  <2>1. /\ at'[h] = at[h] + 1 /\ at[h] <= Len(req[h].names)
        /\ UNCHANGED <<pc, req, extant, layers, reply, globalLayers>>
    BY <1>4 DEF SkipDuplicate, More, Functional
  <2>2. \E i \in 1..Len(extant[h]) : extant[h][i] = req[h].names[at[h]]
    BY <1>4 DEF SkipDuplicate, Has, Source
  <2>3. InOrder(req[h].names, at[h], extant[h])
    <3>1. PICK S : extant[h] \in Seq(S)
      BY <1>1 DEF Halfway
    <3>2. at[h] - 1 \in Nat /\ (at[h] - 1) + 1 = at[h]
      BY <1>2
    <3>3. InOrder(req[h].names, at[h] - 1, extant[h])
      BY <1>1 DEF Halfway
    <3> QED BY <2>2, <3>1, <3>2, <3>3, SameInOrder
  <2>4. \A i \in 1..at[h] : req[h].names[i] \in DOMAIN globalLayers
    <3> DEFINE before == {req[h].names[i] : i \in 1..(at[h] - 1)}
    <3>0. {extant[h][i] : i \in 1..Len(extant[h])} = before
      BY <1>1 DEF Halfway, InOrder
    <3>1. req[h].names[at[h]] \in before
      <4> HIDE DEF before
      <4> QED BY <2>2, <3>0
    <3>2. PICK k \in 1..(at[h] - 1) : req[h].names[k] = req[h].names[at[h]]
      BY <3>1
    <3>3. \A i \in 1..(at[h] - 1) : req[h].names[i] \in DOMAIN globalLayers
      BY <1>1 DEF Halfway
    <3> QED BY <1>2, <3>2, <3>3
  <2>5. Halfway(h)'
    <3>0. at[h] \in Nat \ {0} /\ at'[h] = at[h] + 1
      BY <1>2, <2>1
    <3>1. at'[h] \in Nat \ {0} /\ at'[h] - 1 = at[h]
      BY <3>0
    <3>2. InOrder(req'[h].names, at'[h] - 1, extant'[h])
      BY <2>1, <2>3, <3>1
    <3>3. \A i \in 1..(at'[h] - 1) : req'[h].names[i] \in DOMAIN globalLayers'
      BY <2>1, <2>4, <3>1
    <3>4. at'[h] - 1 <= Len(req'[h].names)
      BY <2>1, <3>1
    <3> QED BY <1>1, <2>1, <3>1, <3>2, <3>3, <3>4 DEF Halfway
  <2>6. Whole(h)'
    BY <1>1, <2>1 DEF Whole, Served
  <2> QED BY <1>1, <2>1, <2>5, <2>6 DEF HandlerInv, Working, AtLayer, Places
<1>5. CASE FindNothing(h)
  <2> DEFINE r == Reply(404, <<>>)
  <2>1. Answer(h, r)
    BY <1>5 DEF FindNothing
  <2>2. r.code \in Codes /\ r.code \in 400..499 /\ r.code # 200
    BY DEF Reply, Codes
  <2> HIDE DEF r
  <2> QED BY <1>1, <2>1, <2>2, AnswerInv
<1>6. CASE InvalidTile(h)
  <2> DEFINE r == Reply(400, <<>>)
  <2>1. Answer(h, r)
    BY <1>6 DEF InvalidTile
  <2>2. r.code \in Codes /\ r.code \in 400..499 /\ r.code # 200
    BY DEF Reply, Codes
  <2> HIDE DEF r
  <2> QED BY <1>1, <2>1, <2>2, AnswerInv
<1>7. CASE CallFunction(h) \/ SelectTable(h)
  <2>1. /\ pc'[h] \in {"ask", "template"}
        /\ UNCHANGED <<req, at, extant, layers, reply, globalLayers>>
    BY <1>7 DEF CallFunction, SelectTable, Goto, Functional
  <2>2. AtNext(h)
    BY <1>3, <1>7 DEF CallFunction, SelectTable, Found
  <2>3. Halfway(h)' /\ AtNext(h)'
    BY <1>1, <2>1, <2>2 DEF Halfway, AtNext
  <2>4. Whole(h)'
    BY <1>1, <2>1 DEF Whole, Served
  <2> QED BY <1>1, <2>1, <2>3, <2>4 DEF HandlerInv, Working, AtLayer, Places
<1>8. CASE FilterPanics(h)
  <2>1. /\ pc'[h] = "idle" /\ reply' = reply /\ req' = req
        /\ at'[h] = 1 /\ extant'[h] = <<>> /\ layers'[h] = <<>>
    BY <1>8 DEF FilterPanics, Lost, Return, Goto, Functional
  <2>2. Fresh(h)' /\ Whole(h)'
    BY <1>1, <2>1 DEF Fresh, Whole, Served
  <2> QED BY <2>1, <2>2 DEF HandlerInv, Working, AtLayer, Places
<1>9. CASE RespondFails(h) \/ Respond(h)
  <2>1. at[h] > Len(req[h].names) /\ at[h] - 1 = Len(req[h].names)
    BY <1>1, <1>2, <1>9 DEF RespondFails, Respond, Halfway
  <2>2. \A i \in DOMAIN req[h].names : req[h].names[i] \in DOMAIN globalLayers
    BY <1>1, <1>2, <2>1 DEF Halfway
  <2>3. InFull(req[h].names, layers[h])
    <3>1. PICK S : layers[h] \in Seq(S)
      BY <1>1 DEF Halfway
    <3>2. DOMAIN layers[h] = 1..Len(extant[h]) /\ Len(extant[h]) \in Nat
      BY <1>1, <3>1 DEF Halfway
    <3>3. {layers[h][i].layer : i \in DOMAIN layers[h]} = {extant[h][i] : i \in 1..Len(extant[h])}
      BY <1>1, <3>2 DEF Halfway
    <3>4. InOrder(req[h].names, Len(req[h].names), extant[h])
      BY <1>1, <2>1 DEF Halfway
    <3>5. ASSUME NEW i \in DOMAIN layers[h], NEW j \in DOMAIN layers[h], i < j
          PROVE  \E m \in DOMAIN req[h].names :
                    /\ req[h].names[m] = layers[h][i].layer
                    /\ \A n \in 1..m : req[h].names[n] # layers[h][j].layer
      <4>1. PICK m \in 1..Len(req[h].names) :
               /\ req[h].names[m] = extant[h][i]
               /\ \A n \in 1..m : req[h].names[n] # extant[h][j]
        BY <3>2, <3>4, <3>5 DEF InOrder
      <4>2. layers[h][i].layer = extant[h][i] /\ layers[h][j].layer = extant[h][j]
        BY <1>1, <3>2 DEF Halfway
      <4> QED BY <1>2, <4>1, <4>2
    <3>6. {extant[h][i] : i \in 1..Len(extant[h])} = {req[h].names[i] : i \in DOMAIN req[h].names}
      BY <1>2, <3>4 DEF InOrder
    <3> QED BY <3>3, <3>5, <3>6 DEF InFull
  <2>4. PICK r : Answer(h, r) /\ (r = Reply(500, <<>>) \/ r = Reply(200, layers[h]))
    BY <1>9 DEF RespondFails, Respond
  <2>5. r.code \in Codes /\ (r.code = 200 => r.body = layers[h])
    BY <2>4 DEF Reply, Codes
  <2>6. req[h].names[1] \in DOMAIN globalLayers
    BY <1>2, <2>2
  <2>7. r.code = 200 => InFull(req[h].names, r.body)
    BY <2>3, <2>5
  <2> QED BY <1>1, <2>2, <2>4, <2>5, <2>6, <2>7, AnswerInv
<1> QED BY <1>4, <1>5, <1>6, <1>7, <1>8, <1>9 DEF LayerStep

(* On the way to the template and back nothing but the place changes.      *)
LEMMA TemplateStepInv ==
    ASSUME Functional, NEW h \in Handlers, HandlerInv(h), TemplateStep(h)
    PROVE  HandlerInv(h)'
<1>1. /\ pc[h] \in AtLayer /\ pc'[h] \in AtLayer
      /\ UNCHANGED <<req, at, extant, layers, reply, globalLayers>>
  BY DEF TemplateStep, ReadTemplate, MapRace, LockTemplates, StoreTemplate, UnlockTemplates,
         In, Goto, handling, Functional, AtLayer
<1>2. Halfway(h) /\ AtNext(h) /\ reply[h].code = 0
  BY <1>1 DEF HandlerInv, Working
<1>3. Halfway(h)' /\ AtNext(h)'
  BY <1>1, <1>2 DEF Halfway, AtNext
<1>4. Whole(h)'
  BY <1>1, <1>2 DEF Whole, Served
<1> QED BY <1>1, <1>2, <1>3, <1>4 DEF HandlerInv, Working, AtLayer, Places

(* The answer of the database, the metrics, lists and details.             *)
LEMMA LastStepInv ==
    ASSUME Functional, NEW h \in Handlers, HandlerInv(h), LastStep(h)
    PROVE  HandlerInv(h)'
<1>1. CASE Ask(h)
  <2> DEFINE names == req[h].names
             id == names[at[h]]
             part == Part(Source(h), sql[h])
  <2>1. Halfway(h) /\ AtNext(h) /\ reply[h].code = 0
    BY <1>1 DEF Ask, In, HandlerInv, Working, AtLayer
  <2>2. /\ at'[h] = at[h] + 1 /\ pc'[h] = "layer"
        /\ extant'[h] = Append(extant[h], id) /\ layers'[h] = Append(layers[h], part)
        /\ req' = req /\ reply' = reply /\ globalLayers' = globalLayers
    BY <1>1 DEF Ask, Goto, Source, Functional
  <2>3. part.layer = id
    BY DEF Part, Source
  <2>4. /\ at[h] \in Nat \ {0} /\ (at[h] - 1) + 1 = at[h] /\ at[h] - 1 \in Nat
        /\ at'[h] \in Nat \ {0} /\ at'[h] - 1 = at[h]
    <3>1. at[h] \in Nat \ {0} /\ at'[h] = at[h] + 1
      BY <2>1, <2>2 DEF Halfway
    <3> QED BY <3>1
  <2>5. PICK S : extant[h] \in Seq(S)
    BY <2>1 DEF Halfway
  <2>6. PICK T : layers[h] \in Seq(T)
    BY <2>1 DEF Halfway
  <2>7. /\ Len(layers[h]) = Len(extant[h]) /\ Len(extant[h]) \in Nat
        /\ \A i \in 1..Len(extant[h]) : layers[h][i].layer = extant[h][i]
        /\ InOrder(names, at[h] - 1, extant[h])
        /\ \A i \in 1..(at[h] - 1) : names[i] \in DOMAIN globalLayers
        /\ \A i \in 1..Len(extant[h]) : extant[h][i] # id
        /\ id \in DOMAIN globalLayers
        /\ at[h] <= Len(names)
    BY <2>1, <2>5 DEF Halfway, AtNext
  <2> HIDE DEF part, id
  <2>8. InOrder(names, at[h], Append(extant[h], id))
    <3>1. id = names[(at[h] - 1) + 1]
      BY <2>4 DEF id
    <3>2. InOrder(names, (at[h] - 1) + 1, Append(extant[h], id))
      <4> HIDE DEF names
      <4> QED BY <2>4, <2>5, <2>7, <3>1, OneMoreInOrder
    <3> QED BY <2>4, <3>2
  <2>9. /\ extant'[h] \in Seq(S \cup {id}) /\ Len(extant'[h]) = Len(extant[h]) + 1
        /\ extant'[h][Len(extant[h]) + 1] = id
        /\ \A i \in 1..Len(extant[h]) : extant'[h][i] = extant[h][i]
    <3>1. extant[h] \in Seq(S \cup {id}) /\ id \in S \cup {id}
      BY <2>5
    <3> QED BY <2>2, <3>1
  <2>10. /\ layers'[h] \in Seq(T \cup {part}) /\ Len(layers'[h]) = Len(layers[h]) + 1
         /\ layers'[h][Len(layers[h]) + 1] = part
         /\ \A i \in 1..Len(layers[h]) : layers'[h][i] = layers[h][i]
    <3>1. layers[h] \in Seq(T \cup {part}) /\ part \in T \cup {part}
      BY <2>6
    <3> QED BY <2>2, <3>1
  <2>11. \A i \in 1..Len(extant'[h]) : layers'[h][i].layer = extant'[h][i]
    <3> SUFFICES ASSUME NEW i \in 1..Len(extant'[h])
                 PROVE  layers'[h][i].layer = extant'[h][i]
      OBVIOUS
    <3>1. CASE i \in 1..Len(extant[h])
      <4>1. layers'[h][i] = layers[h][i] /\ extant'[h][i] = extant[h][i]
        BY <2>7, <2>9, <2>10, <3>1
      <4> QED BY <2>7, <3>1, <4>1
    <3>2. CASE i = Len(extant[h]) + 1
      <4>1. layers'[h][i] = part /\ extant'[h][i] = id
        BY <2>7, <2>9, <2>10, <3>2
      <4> QED BY <2>3, <4>1
    <3> QED BY <2>7, <2>9, <3>1, <3>2
  <2>12. \A i \in 1..at[h] : names[i] \in DOMAIN globalLayers
    <3> SUFFICES ASSUME NEW i \in 1..at[h] PROVE names[i] \in DOMAIN globalLayers
      OBVIOUS
    <3>1. i \in 1..(at[h] - 1) \/ i = at[h]
      BY <2>4
    <3>2. id = names[at[h]]
      BY DEF id
    <3> HIDE DEF names
    <3> QED BY <2>7, <3>1, <3>2
  <2>13. Halfway(h)'
    <3>1. req'[h] \in Requests /\ req'[h].kind = "tile" /\ req'[h].names = names
      BY <2>1, <2>2 DEF Halfway
    <3>2. InOrder(req'[h].names, at'[h] - 1, extant'[h])
      BY <2>2, <2>4, <2>8, <3>1
    <3>3. \A i \in 1..(at'[h] - 1) : req'[h].names[i] \in DOMAIN globalLayers'
      BY <2>2, <2>4, <2>12, <3>1
    <3>4. Len(layers'[h]) = Len(extant'[h]) /\ at'[h] - 1 <= Len(req'[h].names)
      BY <2>4, <2>7, <2>9, <2>10, <3>1
    <3> QED BY <2>4, <2>9, <2>10, <2>11, <3>1, <3>2, <3>3, <3>4 DEF Halfway
  <2>14. Whole(h)'
    BY <2>1, <2>2 DEF Whole, Served
  <2> QED BY <2>1, <2>2, <2>13, <2>14 DEF HandlerInv, Working, AtLayer, Places
<1>2. CASE AskFails(h)
  <2> DEFINE r == Reply(500, <<>>)
  <2>1. Answer(h, r) /\ Halfway(h) /\ AtNext(h)
    BY <1>2 DEF AskFails, In, HandlerInv, Working, AtLayer
  <2>2. r.code \in Codes /\ r.code # 200
    BY DEF Reply, Codes
  <2>3. req[h].names[1] \in DOMAIN globalLayers
    BY <2>1, FirstIsKnown
  <2> HIDE DEF r
  <2> QED BY <2>1, <2>2, <2>3, AnswerInv
<1>3. CASE Ignore(h) \/ Track(h)
  <2>1. /\ pc[h] = "count" /\ pc'[h] = "idle"
        /\ UNCHANGED <<req, at, extant, layers, reply>>
    BY <1>3 DEF Ignore, Track, In, Goto, handling, Functional
  <2>2. Fresh(h)' /\ Whole(h)'
    BY <2>1 DEF HandlerInv, Working, AtLayer, Fresh, Whole, Served
  <2> QED BY <2>1, <2>2 DEF HandlerInv, Working, AtLayer, Places
<1>4. CASE List(h) \/ Detail(h) \/ ReadFails(h)
  <2>1. /\ pc[h] \in {"detail", "list"} /\ pc'[h] = "idle"
        /\ UNCHANGED <<req, at, extant, layers>> /\ req[h].kind # "tile"
    BY <1>4 DEF HandlerInv, List, Detail, ReadFails, Inform, In, Goto, handling, Functional
  <2>2. Fresh(h)' /\ Whole(h)'
    BY <2>1 DEF HandlerInv, Working, AtLayer, Fresh, Whole, Served
  <2> QED BY <2>1, <2>2 DEF HandlerInv, Working, AtLayer, Places
<1> QED BY <1>1, <1>2, <1>3, <1>4 DEF LastStep

-----------------------------------------------------------------------------
(* The invariant holds.                                                    *)

(* A step of a handler keeps what is said of all of them.                  *)
LEMMA HandlersInv ==
    ASSUME Functional, \A g \in Handlers : HandlerInv(g), NEW h \in Handlers, Arrive(h) \/ Step(h)
    PROVE  Functional' /\ globalLayers' = globalLayers /\ \A g \in Handlers : HandlerInv(g)'
<1>1. Functional' /\ \A g \in Handlers \ {h} : Unmoved(g)
  BY OthersUnmoved
<1>2. globalLayers' = globalLayers
  BY DEF Arrive, Step, LayerStep, TemplateStep, LastStep, SkipDuplicate, FindNothing, InvalidTile, CallFunction,
         FilterPanics, SelectTable, Respond, RespondFails, ReadTemplate, MapRace, LockTemplates, StoreTemplate,
         UnlockTemplates, Ask, AskFails, Ignore, Track, List, Detail, ReadFails, Inform, Answer, Lost
<1>3. HandlerInv(h)'
  BY ArriveInv, LayerStepInv, TemplateStepInv, LastStepInv DEF Step
<1>4. ASSUME NEW g \in Handlers \ {h}
      PROVE  HandlerInv(g)'
  <2>1. Unmoved(g) /\ HandlerInv(g)
    BY <1>1
  <2>2. /\ Fresh(g)' <=> Fresh(g)
        /\ Halfway(g)' <=> Halfway(g)
        /\ AtNext(g)' <=> AtNext(g)
        /\ Countable(g)' <=> Countable(g)
        /\ Whole(g)' <=> Whole(g)
    BY <1>2, <2>1 DEF Unmoved, Fresh, Halfway, AtNext, Countable, Whole, Served
  <2> QED BY <2>1, <2>2 DEF HandlerInv, Unmoved
<1> QED BY <1>1, <1>2, <1>3, <1>4

(* Only Track counts, and what it counts is countable.                     *)
LEMMA CountsInv ==
    ASSUME IInv, NEW h \in Handlers, Arrive(h) \/ Step(h)
    PROVE  DOMAIN tilesProcessed' = Labels \X Codes /\ MetricsTrackValidLayers'
<1>1. globalLayers' = globalLayers
  BY HandlersInv DEF IInv
<1>2. CASE Track(h)
  <2>1. Countable(h) /\ reply[h].code \notin 400..499
    BY <1>2 DEF Track, In, IInv, HandlerInv
  <2>2. req[h].names \in Labels /\ reply[h].code \in Codes
    BY <2>1 DEF Countable, Labels
  <2>3. tilesProcessed' = [tilesProcessed EXCEPT ![<<req[h].names, reply[h].code>>] = @ + 1]
    BY <1>2 DEF Track
  <2>4. ASSUME NEW names \in Labels, NEW code \in Codes, tilesProcessed'[<<names, code>>] > 0
        PROVE  /\ names[1] \in DOMAIN globalLayers'
               /\ code = 200 => \A i \in DOMAIN names : names[i] \in DOMAIN globalLayers'
    <3>1. CASE <<names, code>> = <<req[h].names, reply[h].code>>
      BY <1>1, <2>1, <3>1 DEF Countable
    <3>2. CASE <<names, code>> # <<req[h].names, reply[h].code>>
      <4>1. tilesProcessed'[<<names, code>>] = tilesProcessed[<<names, code>>]
        BY <2>3, <3>2 DEF IInv
      <4> QED BY <1>1, <2>4, <4>1 DEF IInv, MetricsTrackValidLayers
    <3> QED BY <3>1, <3>2
  <2> QED BY <2>3, <2>4 DEF MetricsTrackValidLayers, IInv
<1>3. CASE ~Track(h)
  <2>1. tilesProcessed' = tilesProcessed
    BY <1>3 DEF Arrive, Step, LayerStep, TemplateStep, LastStep, SkipDuplicate, FindNothing, InvalidTile, CallFunction,
         FilterPanics, SelectTable, Respond, RespondFails, ReadTemplate, MapRace, LockTemplates, StoreTemplate,
         UnlockTemplates, Ask, AskFails, Ignore, List, Detail, ReadFails, Inform, Answer, Lost, metrics
  <2> QED BY <1>1, <2>1 DEF IInv, MetricsTrackValidLayers
<1> QED BY <1>2, <1>3

LEMMA InitInv == Init => IInv
<1> SUFFICES ASSUME Init PROVE IInv
  OBVIOUS
<1>1. Functional
  BY DEF Init, Functional
<1>2. ASSUME NEW h \in Handlers
      PROVE  HandlerInv(h)
  <2>1. pc[h] = "idle" /\ Fresh(h) /\ reply[h].code = 0
    BY DEF Init, Fresh, NoReply, Reply
  <2> QED BY <2>1 DEF HandlerInv, Working, AtLayer, Places, Whole, Served
<1>3. /\ DOMAIN tilesProcessed = Labels \X Codes
      /\ \A k \in Labels \X Codes : tilesProcessed[k] = 0
      /\ \A h \in Handlers : pc[h] = "idle"
  BY DEF Init
<1>4. ASSUME NEW names \in Labels, NEW code \in Codes
      PROVE  tilesProcessed[<<names, code>>] = 0
  BY <1>3
<1>5. globalTemplates \subseteq {"tabletilesql"}
  BY DEF Init
<1> QED BY <1>1, <1>2, <1>3, <1>4, <1>5 DEF IInv, Starting, MetricsTrackValidLayers

(* The cache keeps what it has, and only ever holds the one template.      *)
LEMMA CacheInv ==
    ASSUME NEW h \in Handlers, Arrive(h) \/ Step(h)
    PROVE  globalTemplates' \in {globalTemplates, globalTemplates \cup {"tabletilesql"}}
BY DEF Arrive, Step, LayerStep, TemplateStep, LastStep, SkipDuplicate, FindNothing, InvalidTile, CallFunction,
       FilterPanics, SelectTable, Respond, RespondFails, ReadTemplate, MapRace, LockTemplates, StoreTemplate,
       UnlockTemplates, Ask, AskFails, Ignore, Track, List, Detail, ReadFails, Inform, Answer, Lost, cache

LEMMA NextInv == IInv /\ [Next]_vars => IInv'
<1> SUFFICES ASSUME IInv, [Next]_vars PROVE IInv'
  OBVIOUS
<1>1. CASE Load
  <2>1. /\ server = "starting" /\ server' \in {"down", "serving"}
        /\ UNCHANGED <<pc, req, at, extant, layers, sql, reply, tilesProcessed>>
    BY <1>1 DEF Load, handling, metrics
  <2>5. globalTemplates' = globalTemplates
    BY <1>1 DEF Load, cache
  <2>2. Functional' /\ Starting'
    BY <2>1 DEF IInv, Functional, Starting
  <2>3. ASSUME NEW h \in Handlers
        PROVE  HandlerInv(h)'
    <3>1. HandlerInv(h) /\ pc[h] = "idle"
      BY <2>1 DEF IInv, Starting
    <3>2. Fresh(h)' /\ Whole(h)'
      BY <2>1, <3>1 DEF HandlerInv, Working, AtLayer, Fresh, Whole, Served
    <3> QED BY <2>1, <3>1, <3>2 DEF HandlerInv, Working, AtLayer, Places
  <2>4. DOMAIN tilesProcessed' = Labels \X Codes /\ MetricsTrackValidLayers'
    <3>1. \A names \in Labels, code \in Codes : tilesProcessed'[<<names, code>>] = 0
      BY <2>1 DEF IInv, Starting
    <3> QED BY <2>1, <3>1 DEF IInv, MetricsTrackValidLayers
  <2> QED BY <2>2, <2>3, <2>4, <2>5 DEF IInv
<1>2. ASSUME NEW h \in Handlers, Arrive(h) \/ Step(h)
      PROVE  IInv'
  <2>1. Functional' /\ \A g \in Handlers : HandlerInv(g)'
    BY <1>2, HandlersInv DEF IInv
  <2>2. DOMAIN tilesProcessed' = Labels \X Codes /\ MetricsTrackValidLayers'
    BY <1>2, CountsInv
  <2>3. Starting'
    <3>1. server = "serving" \/ pc[h] # "idle"
      BY <1>2 DEF Arrive, Step, LayerStep, TemplateStep, LastStep, SkipDuplicate, FindNothing, InvalidTile, CallFunction,
         FilterPanics, SelectTable, Respond, RespondFails, ReadTemplate, MapRace, LockTemplates, StoreTemplate,
         UnlockTemplates, Ask, AskFails, Ignore, Track, List, Detail, ReadFails, Inform, Found, Wanted, More, In
    <3>2. server # "starting"
      BY <3>1 DEF IInv, Starting
    <3>3. server' \in {server, "down"}
      BY <1>2 DEF Arrive, Step, LayerStep, TemplateStep, LastStep, SkipDuplicate, FindNothing, InvalidTile, CallFunction,
         FilterPanics, SelectTable, Respond, RespondFails, ReadTemplate, MapRace, LockTemplates, StoreTemplate,
         UnlockTemplates, Ask, AskFails, Ignore, Track, List, Detail, ReadFails, Inform, Answer, Lost
    <3> QED BY <3>2, <3>3 DEF Starting
  <2>4. globalTemplates' \subseteq {"tabletilesql"}
    BY <1>2, CacheInv DEF IInv
  <2> QED BY <2>1, <2>2, <2>3, <2>4 DEF IInv
<1>3. CASE UNCHANGED vars
  <2>1. UNCHANGED <<server, globalLayers, globalTemplates, pc, req, at, extant, layers, sql, reply, tilesProcessed>>
    BY <1>3 DEF vars, cache, handling, metrics
  <2>2. Functional' /\ Starting' /\ MetricsTrackValidLayers' /\ DOMAIN tilesProcessed' = Labels \X Codes
    BY <2>1 DEF IInv, Functional, Starting, MetricsTrackValidLayers
  <2>3. ASSUME NEW h \in Handlers
        PROVE  HandlerInv(h)'
    <3>1. HandlerInv(h)
      BY DEF IInv
    <3>2. /\ Fresh(h)' <=> Fresh(h)
          /\ Halfway(h)' <=> Halfway(h)
          /\ AtNext(h)' <=> AtNext(h)
          /\ Countable(h)' <=> Countable(h)
          /\ Whole(h)' <=> Whole(h)
      BY <2>1 DEF Fresh, Halfway, AtNext, Countable, Whole, Served
    <3> QED BY <2>1, <3>1, <3>2 DEF HandlerInv
  <2> QED BY <2>1, <2>2, <2>3 DEF IInv
<1> QED BY <1>1, <1>2, <1>3 DEF Next, Step

(* The properties of TileRequest, for every value of its constants.        *)

(* A tile that is answered holds every layer of its request once and in    *)
(* the order of first mention (requestTiles).                              *)
THEOREM TilesAlwaysWhole == Spec => []TilesAreWhole
<1>1. IInv => TilesAreWhole
  BY DEF IInv, HandlerInv, Whole, TilesAreWhole
<1> QED BY <1>1, InitInv, NextInv, PTL DEF Spec

(* Tiles are only counted for layers that exist (tileMetrics).             *)
THEOREM MetricsAlwaysValid == Spec => []MetricsTrackValidLayers
<1>1. IInv => MetricsTrackValidLayers
  BY DEF IInv
<1> QED BY <1>1, InitInv, NextInv, PTL DEF Spec

(* Once the template is cached and nobody is about to store it, it stays   *)
(* so (getSQLTemplate).                                                    *)
THEOREM RaceWindowStaysClosed == Spec => RaceWindowCloses
<1>1. IInv /\ [Next]_vars => (WindowClosed => WindowClosed')
  <2> SUFFICES ASSUME IInv, [Next]_vars, WindowClosed PROVE WindowClosed'
    OBVIOUS
  <2> USE DEF WindowClosed
  <2>0. Functional /\ \A h \in Handlers : pc[h] \in Places
    BY DEF IInv, HandlerInv
  <2>1. CASE Load
    BY <2>1 DEF Load, cache
  <2>2. ASSUME NEW h \in Handlers, Arrive(h) \/ Step(h)
        PROVE  WindowClosed'
    <3>1. \A g \in Handlers \ {h} : pc'[g] = pc[g]
      BY <2>0, <2>2, OthersUnmoved DEF Unmoved
    <3>2. globalTemplates' # {}
      BY <2>2, CacheInv
    <3>3. "tabletilesql" \in globalTemplates /\ pc[h] \notin {"lock", "store"}
      BY DEF IInv
    <3>4. pc'[h] \notin {"lock", "store"}
      <4> USE <2>0, <3>3 DEF Functional, Goto, In
      <4>1. CASE Arrive(h)
        BY <4>1, RequestsAssumption DEF Arrive
      <4>2. CASE LayerStep(h)
        BY <4>2 DEF LayerStep, SkipDuplicate, FindNothing, InvalidTile, CallFunction, FilterPanics, SelectTable,
                    Respond, RespondFails, Answer, Lost
      <4>3. CASE TemplateStep(h)
        BY <4>3 DEF TemplateStep, ReadTemplate, MapRace, LockTemplates, StoreTemplate, UnlockTemplates
      <4>4. CASE LastStep(h)
        BY <4>4 DEF LastStep, Ask, AskFails, Ignore, Track, List, Detail, ReadFails, Inform, Answer
      <4> QED BY <2>2, <4>1, <4>2, <4>3, <4>4 DEF Step
    <3> HIDE DEF WindowClosed
    <3> QED BY <2>0, <3>1, <3>2, <3>4, OthersUnmoved, <2>2 DEF WindowClosed, Functional
  <2>3. CASE UNCHANGED vars
    BY <2>3 DEF vars, cache
  <2> QED BY <2>1, <2>2, <2>3 DEF Next, Step
<1> QED BY <1>1, InitInv, NextInv, PTL DEF Spec, RaceWindowCloses

-----------------------------------------------------------------------------
(* Types.  A request that is counted has left the list of those to come    *)
(* and the handlers that are at one: no counter passes MaxRequests.        *)
InFlight == {h \in Handlers : pc[h] # "idle"}

Counting ==
    /\ left \in 0..MaxRequests
    /\ IsFiniteSet(InFlight)
    /\ tilesProcessed \in [Labels \X Codes -> Nat]
    /\ tilesDuration \in [Labels -> Nat]
    /\ \A k \in Labels \X Codes : tilesProcessed[k] + left + Cardinality(InFlight) <= MaxRequests
    /\ \A l \in Labels : tilesDuration[l] + left + Cardinality(InFlight) <= MaxRequests

HandlerTypes ==
    /\ pc \in [Handlers -> Places]
    /\ req \in [Handlers -> Requests \cup {NoRequest}]
    /\ \A h \in Handlers : reply[h].code \in Codes \cup {0}

TypesInv ==
    /\ server \in {"starting", "serving", "down"}
    /\ DOMAIN globalLayers \in {{}, TableIds \cup FunctionIds}
    /\ globalTemplatesMutex \in Handlers \cup {NoHandler}
    /\ HandlerTypes
    /\ Counting

LEMMA TypesInit == Init => TypesInv
<1> SUFFICES ASSUME Init PROVE TypesInv
  OBVIOUS
<1>1. HandlerTypes
  BY DEF Init, HandlerTypes, Places, NoReply, Reply
<1>2. InFlight = {} /\ IsFiniteSet({}) /\ Cardinality({}) = 0
  BY FS_EmptySet DEF Init, InFlight
<1>3. Counting
  BY <1>2, HandlersAssumption DEF Init, Counting
<1>4. DOMAIN globalLayers = {}
  BY DEF Init
<1> QED BY <1>1, <1>3, <1>4 DEF Init, TypesInv

(* A handler takes up a request, or goes on with one, or ends it.          *)
LEMMA HandlerTypesNext ==
    ASSUME HandlerTypes, Functional, NEW h \in Handlers, Arrive(h) \/ Step(h)
    PROVE  HandlerTypes'
<1> USE DEF HandlerTypes, Functional, Goto, handling, Places, Codes, Reply, NoReply
<1>1. CASE Arrive(h)
  <2>1. PICK r \in Requests : /\ req' = [req EXCEPT ![h] = r]
                              /\ pc' = [pc EXCEPT ![h] = IF r.kind = "tile" THEN "layer" ELSE r.kind]
    BY <1>1 DEF Arrive
  <2>2. (IF r.kind = "tile" THEN "layer" ELSE r.kind) \in Places
    BY RequestsAssumption
  <2> QED BY <1>1, <2>1, <2>2 DEF Arrive
<1>2. CASE SkipDuplicate(h)
  BY <1>2 DEF SkipDuplicate
<1>3. CASE FindNothing(h) \/ InvalidTile(h) \/ Respond(h) \/ RespondFails(h) \/ AskFails(h)
  BY <1>3 DEF FindNothing, InvalidTile, Respond, RespondFails, AskFails, Answer
<1>4. CASE CallFunction(h) \/ SelectTable(h)
  BY <1>4 DEF CallFunction, SelectTable
<1>5. CASE FilterPanics(h)
  BY <1>5 DEF FilterPanics, Lost
<1>6. CASE TemplateStep(h)
  BY <1>6 DEF TemplateStep, ReadTemplate, MapRace, LockTemplates, StoreTemplate, UnlockTemplates
<1>7. CASE Ask(h) \/ Ignore(h) \/ Track(h)
  <2>1. pc' \in {[pc EXCEPT ![h] = "layer"], [pc EXCEPT ![h] = "idle"]} /\ UNCHANGED <<req, reply>>
    BY <1>7 DEF Ask, Ignore, Track
  <2> QED BY <2>1
<1>8. CASE List(h) \/ Detail(h) \/ ReadFails(h)
  BY <1>8 DEF List, Detail, ReadFails, Inform
<1> QED BY <1>1, <1>2, <1>3, <1>4, <1>5, <1>6, <1>7, <1>8 DEF Step, LayerStep, LastStep

(* What is to come, in flight and counted is never more than MaxRequests.  *)
LEMMA CountingNext ==
    ASSUME IInv, TypesInv, NEW h \in Handlers, Arrive(h) \/ Step(h)
    PROVE  Counting'
<1>0. /\ Functional /\ HandlerInv(h) /\ Counting /\ pc \in [Handlers -> Places]
      /\ Cardinality(InFlight) \in Nat /\ MaxRequests \in Nat
  BY FS_CardinalityType, HandlersAssumption DEF IInv, TypesInv, Counting, HandlerTypes
<1>1. DOMAIN pc' = Handlers /\ \A g \in Handlers \ {h} : pc'[g] = pc[g]
  BY <1>0, OthersUnmoved DEF Unmoved, Functional
<1>2. CASE Arrive(h)
  <2>1. pc[h] = "idle" /\ pc'[h] # "idle" /\ left > 0 /\ left' = left - 1 /\ UNCHANGED metrics
    BY <1>0, <1>2, RequestsAssumption DEF Arrive, Functional
  <2>2. InFlight' = InFlight \cup {h} /\ h \notin InFlight
    BY <1>1, <2>1 DEF InFlight
  <2>3. IsFiniteSet(InFlight') /\ Cardinality(InFlight') = Cardinality(InFlight) + 1
    BY <1>0, <2>2, FS_AddElement DEF Counting
  <2>4. left' \in 0..MaxRequests
    BY <1>0, <2>1 DEF Counting
  <2>5. tilesProcessed' = tilesProcessed /\ tilesDuration' = tilesDuration
    BY <2>1 DEF metrics
  <2>6. \A k \in Labels \X Codes : tilesProcessed'[k] + left' + Cardinality(InFlight') <= MaxRequests
    BY <1>0, <2>1, <2>3, <2>5 DEF Counting
  <2>7. \A l \in Labels : tilesDuration'[l] + left' + Cardinality(InFlight') <= MaxRequests
    BY <1>0, <2>1, <2>3, <2>5 DEF Counting
  <2> QED BY <1>0, <2>3, <2>4, <2>5, <2>6, <2>7 DEF Counting
<1>3. ASSUME Step(h)
      PROVE  h \in InFlight /\ InFlight' \in {InFlight, InFlight \ {h}} /\ left' = left
  <2>1. pc[h] # "idle"
    BY <1>3 DEF Step, LayerStep, TemplateStep, LastStep, SkipDuplicate, FindNothing, InvalidTile, CallFunction,
         FilterPanics, SelectTable, Respond, RespondFails, ReadTemplate, MapRace, LockTemplates, StoreTemplate,
         UnlockTemplates, Ask, AskFails, Ignore, Track, List, Detail, ReadFails, Inform, Found, Wanted, More, In
  <2>2. left' = left
    BY <1>3 DEF Step, LayerStep, TemplateStep, LastStep, SkipDuplicate, FindNothing, InvalidTile, CallFunction,
         FilterPanics, SelectTable, Respond, RespondFails, ReadTemplate, MapRace, LockTemplates, StoreTemplate,
         UnlockTemplates, Ask, AskFails, Ignore, Track, List, Detail, ReadFails, Inform, Answer, Lost
  <2>3. CASE pc'[h] = "idle"
    <3>1. InFlight' = InFlight \ {h}
      BY <1>1, <2>3 DEF InFlight
    <3> QED BY <2>1, <2>2, <3>1 DEF InFlight
  <2>4. CASE pc'[h] # "idle"
    <3>1. InFlight' = InFlight
      BY <1>1, <2>1, <2>4 DEF InFlight
    <3> QED BY <2>1, <2>2, <3>1 DEF InFlight
  <2> QED BY <2>3, <2>4
<1>4. ASSUME Step(h)
      PROVE  /\ IsFiniteSet(InFlight') /\ Cardinality(InFlight') \in Nat
             /\ Cardinality(InFlight') <= Cardinality(InFlight)
             /\ InFlight' # InFlight => Cardinality(InFlight') = Cardinality(InFlight) - 1
  <2>1. IsFiniteSet(InFlight \ {h}) /\ Cardinality(InFlight \ {h}) = Cardinality(InFlight) - 1
    BY <1>0, <1>3, <1>4, FS_RemoveElement DEF Counting
  <2>2. Cardinality(InFlight \ {h}) \in Nat
    BY <2>1, FS_CardinalityType
  <2>3. CASE InFlight' = InFlight
    BY <1>0, <2>3 DEF Counting
  <2>4. CASE InFlight' = InFlight \ {h}
    BY <1>0, <2>1, <2>2, <2>4
  <2> QED BY <1>3, <1>4, <2>3, <2>4
<1>5. CASE Track(h)
  <2>0. Step(h)
    BY <1>5 DEF Step, LastStep
  <2>1. /\ pc[h] = "count" /\ pc'[h] = "idle" /\ Countable(h)
        /\ tilesProcessed' = [tilesProcessed EXCEPT ![<<req[h].names, reply[h].code>>] = @ + 1]
        /\ tilesDuration' = [tilesDuration EXCEPT ![req[h].names] = @ + 1]
    BY <1>0, <1>5 DEF Track, In, Goto, Functional, HandlerInv
  <2>2. <<req[h].names, reply[h].code>> \in Labels \X Codes /\ req[h].names \in Labels
    BY <2>1 DEF Countable, Labels
  <2>3. h \notin InFlight' /\ h \in InFlight
    BY <2>0, <2>1, <1>3 DEF InFlight
  <2>4. Cardinality(InFlight') = Cardinality(InFlight) - 1 /\ left' = left
    BY <2>0, <2>3, <1>3, <1>4
  <2>5. ASSUME NEW k \in Labels \X Codes
        PROVE  tilesProcessed'[k] \in Nat /\ tilesProcessed'[k] + left' + Cardinality(InFlight') <= MaxRequests
    <3>1. tilesProcessed[k] \in Nat /\ tilesProcessed[k] + left + Cardinality(InFlight) <= MaxRequests /\ left \in Nat
      BY <1>0 DEF Counting
    <3>2. tilesProcessed'[k] \in {tilesProcessed[k], tilesProcessed[k] + 1}
      BY <1>0, <2>1, <2>2 DEF Counting
    <3> QED BY <1>0, <2>4, <3>1, <3>2
  <2>6. ASSUME NEW l \in Labels
        PROVE  tilesDuration'[l] \in Nat /\ tilesDuration'[l] + left' + Cardinality(InFlight') <= MaxRequests
    <3>1. tilesDuration[l] \in Nat /\ tilesDuration[l] + left + Cardinality(InFlight) <= MaxRequests /\ left \in Nat
      BY <1>0 DEF Counting
    <3>2. tilesDuration'[l] \in {tilesDuration[l], tilesDuration[l] + 1}
      BY <1>0, <2>1, <2>2 DEF Counting
    <3> QED BY <1>0, <2>4, <3>1, <3>2
  <2>7. tilesProcessed' \in [Labels \X Codes -> Nat] /\ tilesDuration' \in [Labels -> Nat]
    BY <1>0, <2>1, <2>5, <2>6 DEF Counting
  <2> QED BY <1>0, <1>4, <2>0, <2>4, <2>5, <2>6, <2>7 DEF Counting
<1>6. CASE Step(h) /\ ~Track(h)
  <2>1. tilesProcessed' = tilesProcessed /\ tilesDuration' = tilesDuration
    BY <1>6 DEF Step, LayerStep, TemplateStep, LastStep, SkipDuplicate, FindNothing, InvalidTile, CallFunction,
         FilterPanics, SelectTable, Respond, RespondFails, ReadTemplate, MapRace, LockTemplates, StoreTemplate,
         UnlockTemplates, Ask, AskFails, Ignore, List, Detail, ReadFails, Inform, Answer, Lost, metrics
  <2>2. left' = left /\ left \in Nat
    BY <1>0, <1>3, <1>6 DEF Counting
  <2>3. \A k \in Labels \X Codes : tilesProcessed'[k] + left' + Cardinality(InFlight') <= MaxRequests
    BY <1>0, <1>4, <1>6, <2>1, <2>2 DEF Counting
  <2>4. \A l \in Labels : tilesDuration'[l] + left' + Cardinality(InFlight') <= MaxRequests
    BY <1>0, <1>4, <1>6, <2>1, <2>2 DEF Counting
  <2> QED BY <1>0, <1>4, <1>6, <2>1, <2>2, <2>3, <2>4 DEF Counting
<1> QED BY <1>2, <1>5, <1>6

LEMMA TypesNext == IInv /\ TypesInv /\ [Next]_vars => TypesInv'
<1> SUFFICES ASSUME IInv, TypesInv, [Next]_vars PROVE TypesInv'
  OBVIOUS
<1>1. CASE Load
  <2>1. UNCHANGED <<globalTemplatesMutex, pc, req, reply, left, tilesProcessed, tilesDuration>>
    BY <1>1 DEF Load, cache, metrics
  <2>2. HandlerTypes' /\ Counting'
    BY <2>1 DEF TypesInv, HandlerTypes, Counting, InFlight
  <2>3. server' \in {"serving", "down"} /\ DOMAIN globalLayers' \in {{}, TableIds \cup FunctionIds}
    BY <1>1 DEF Load, TypesInv
  <2> QED BY <2>1, <2>2, <2>3 DEF TypesInv
<1>2. ASSUME NEW h \in Handlers, Arrive(h) \/ Step(h)
      PROVE  TypesInv'
  <2>1. HandlerTypes' /\ Counting'
    BY <1>2, HandlerTypesNext, CountingNext DEF IInv, TypesInv
  <2>2. server' \in {server, "down"} /\ globalLayers' = globalLayers
    BY <1>2 DEF Arrive, Step, LayerStep, TemplateStep, LastStep, SkipDuplicate, FindNothing, InvalidTile, CallFunction,
         FilterPanics, SelectTable, Respond, RespondFails, ReadTemplate, MapRace, LockTemplates, StoreTemplate,
         UnlockTemplates, Ask, AskFails, Ignore, Track, List, Detail, ReadFails, Inform, Answer, Lost
  <2>3. globalTemplatesMutex' \in {globalTemplatesMutex, h, NoHandler}
    BY <1>2 DEF Arrive, Step, LayerStep, TemplateStep, LastStep, SkipDuplicate, FindNothing, InvalidTile, CallFunction,
         FilterPanics, SelectTable, Respond, RespondFails, ReadTemplate, MapRace, LockTemplates, StoreTemplate,
         UnlockTemplates, Ask, AskFails, Ignore, Track, List, Detail, ReadFails, Inform, Answer, Lost, cache
  <2> QED BY <2>1, <2>2, <2>3 DEF TypesInv
<1>3. CASE UNCHANGED vars
  <2>1. /\ UNCHANGED <<server, globalLayers, globalTemplatesMutex, pc, req, reply, left>>
        /\ UNCHANGED <<tilesProcessed, tilesDuration>>
    BY <1>3 DEF vars, cache, metrics
  <2> QED BY <2>1 DEF TypesInv, HandlerTypes, Counting, InFlight
<1> QED BY <1>1, <1>2, <1>3 DEF Next, Step

(* The numbers up to n are n.                                              *)
LEMMA UpTo == \A n \in Nat : IsFiniteSet(1..n) /\ Cardinality(1..n) = n
<1> SUFFICES ASSUME NEW n \in Nat PROVE IsFiniteSet(1..n) /\ Cardinality(1..n) = n
  OBVIOUS
<1>1. 1 \in Int /\ n \in Int
  OBVIOUS
<1>2. IsFiniteSet(1..n) /\ Cardinality(1..n) = IF 1 > n THEN 0 ELSE n - 1 + 1
  BY ONLY <1>1, FS_Interval
<1> QED BY <1>2

(* No more layers are answered than names passed.                          *)
LEMMA NoMoreThanNames ==
    ASSUME NEW names, NEW upto \in Nat, NEW S, NEW done \in Seq(S), InOrder(names, upto, done)
    PROVE  Len(done) <= upto
<1> DEFINE R == {done[i] : i \in 1..Len(done)}
           f == [i \in 1..upto |-> names[i]]
           g == [i \in 1..Len(done) |-> done[i]]
<1>1. Len(done) \in Nat /\ R = {names[i] : i \in 1..upto}
  <2>1. Len(done) \in Nat
    OBVIOUS
  <2>2. R = {names[i] : i \in 1..upto}
    BY Zenon DEF InOrder
  <2> QED BY <2>1, <2>2
<1>2. \A i, j \in 1..Len(done) : i < j => done[i] # done[j]
  <2> SUFFICES ASSUME NEW i \in 1..Len(done), NEW j \in 1..Len(done), i < j
               PROVE  done[i] # done[j]
    OBVIOUS
  <2>1. PICK m \in 1..upto : names[m] = done[i] /\ \A n \in 1..m : names[n] # done[j]
    BY DEF InOrder
  <2> QED BY <2>1
<1>3. f \in Surjection(1..upto, R)
  <2>1. f \in [1..upto -> R] /\ \A r \in R : \E i \in 1..upto : f[i] = r
    BY <1>1
  <2> HIDE DEF f, R
  <2> QED BY <2>1 DEF Surjection
<1>4. g \in Injection(1..Len(done), R)
  <2>1. g \in [1..Len(done) -> R]
    OBVIOUS
  <2>2. \A i, j \in 1..Len(done) : g[i] = g[j] => i = j
    BY <1>1, <1>2
  <2> HIDE DEF g, R
  <2> QED BY <2>1, <2>2 DEF Injection, IsInjective
<1>5. IsFiniteSet(R) /\ Cardinality(R) <= upto
  <2>1. IsFiniteSet(1..upto) /\ Cardinality(1..upto) = upto
    BY UpTo
  <2> HIDE DEF f, R
  <2> QED BY <1>3, <2>1, FS_Surjection
<1>6. Len(done) <= Cardinality(R)
  <2>1. Cardinality(1..Len(done)) = Len(done)
    BY <1>1, UpTo
  <2> HIDE DEF g, R
  <2> QED BY <1>4, <1>5, <2>1, FS_Injection
<1> HIDE DEF R
<1>7. Cardinality(R) \in Nat
  BY <1>5, FS_CardinalityType
<1> QED BY <1>1, <1>5, <1>6, <1>7

(* The variables keep their types, and no tile is counted twice or without *)
(* a request: the counters stay within the requests there are              *)
(* (tileMetrics).                                                          *)
THEOREM TypeCorrect == Spec => []TypeOK
<1>1. ASSUME IInv, TypesInv
      PROVE  TypeOK
  <2>1. ASSUME NEW h \in Handlers
        PROVE  /\ at[h] \in 1..(Len(req[h].names) + 1)
               /\ Len(extant[h]) = Len(layers[h]) /\ Len(extant[h]) < at[h]
               /\ reply[h].code \in Codes \cup {0}
    <3>1. HandlerInv(h) /\ req[h] \in Requests \cup {NoRequest} /\ reply[h].code \in Codes \cup {0}
      BY <1>1 DEF IInv, TypesInv, HandlerTypes
    <3>2. Len(req[h].names) \in Nat
      <4>1. CASE req[h] = NoRequest
        BY <4>1 DEF NoRequest
      <4>2. CASE req[h] \in Requests
        <5>1. req[h].names \in Seq(Seq(STRING))
          BY <4>2, RequestsAssumption
        <5> QED BY <5>1
      <4> QED BY <3>1, <4>1, <4>2
    <3>3. CASE pc[h] \notin Working
      <4>1. at[h] = 1 /\ extant[h] = <<>> /\ layers[h] = <<>>
        BY <3>1, <3>3 DEF HandlerInv, Fresh
      <4>2. Len(<<>>) = 0
        OBVIOUS
      <4> QED BY <3>1, <3>2, <4>1, <4>2
    <3>4. CASE pc[h] \in Working
      <4>1. Halfway(h)
        BY <3>1, <3>4 DEF HandlerInv
      <4>2. at[h] \in Nat \ {0} /\ at[h] - 1 <= Len(req[h].names) /\ Len(layers[h]) = Len(extant[h])
        BY <4>1 DEF Halfway
      <4>3. Len(extant[h]) < at[h]
        BY <4>1, NoMoreThanNames DEF Halfway
      <4> QED BY <3>1, <3>2, <4>2, <4>3
    <3> QED BY <3>3, <3>4
  <2>2. tilesProcessed \in [Labels \X Codes -> 0..MaxRequests]
    <3>1. Counting /\ left \in Nat /\ Cardinality(InFlight) \in Nat /\ MaxRequests \in Nat
      BY <1>1, FS_CardinalityType, HandlersAssumption DEF TypesInv, Counting
    <3>2. \A k \in Labels \X Codes : tilesProcessed[k] \in 0..MaxRequests
      BY <3>1 DEF Counting
    <3> QED BY <3>1, <3>2 DEF Counting
  <2>3. tilesDuration \in [Labels -> 0..MaxRequests]
    <3>1. Counting /\ left \in Nat /\ Cardinality(InFlight) \in Nat /\ MaxRequests \in Nat
      BY <1>1, FS_CardinalityType, HandlersAssumption DEF TypesInv, Counting
    <3>2. \A l \in Labels : tilesDuration[l] \in 0..MaxRequests
      BY <3>1 DEF Counting
    <3> QED BY <3>1, <3>2 DEF Counting
  <2> QED BY <1>1, <2>1, <2>2, <2>3 DEF TypeOK, IInv, TypesInv, HandlerTypes, Counting
<1> QED BY <1>1, InitInv, NextInv, TypesInit, TypesNext, PTL DEF Spec
=============================================================================
