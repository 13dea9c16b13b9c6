-------------------------- MODULE StatementProofs ---------------------------
(***************************************************************************)
(* Proofs about the statements of TileRequest, whatever the tables, the    *)
(* functions, the queries and the order a map is walked in, and however    *)
(* the handlers take turns: a call binds its arguments, and a statement    *)
(* only fails for what its request asks.                                   *)
(***************************************************************************)
EXTENDS TileRequestProofs, WellFoundedInduction

(* Facts about finite sets and the orders of their elements.               *)
LEMMA SameCardinality == ASSUME NEW S PROVE Function!Cardinality(S) = Cardinality(S)
BY Zenon DEF Function!Cardinality, Cardinality

LEMMA EveryElementHasAPlace ==
    ASSUME NEW S, IsFiniteSet(S), NEW order \in Function!SetToSeqs(S)
    PROVE  /\ DOMAIN order = 1..Cardinality(S) /\ Cardinality(S) \in Nat
           /\ \A i \in DOMAIN order : order[i] \in S
           /\ \A n \in S : \E i \in DOMAIN order : order[i] = n
           /\ \A i, j \in DOMAIN order : order[i] = order[j] => i = j
<1> DEFINE D == 1..Cardinality(S)
<1>1. Cardinality(S) \in Nat
  BY FS_CardinalityType
<1>2. order \in Injection(D, S)
  BY SameCardinality DEF Function!SetToSeqs, Injection, IsInjective
<1>3. IsFiniteSet(D) /\ Cardinality(D) = Cardinality(S)
  BY <1>1, FS_Interval
<1>4. order \in Surjection(D, S)
  <2> HIDE DEF D
  <2> QED BY <1>2, <1>3, FS_Injection
<1> QED BY <1>1, <1>2, <1>4 DEF Injection, IsInjective, Surjection

LEMMA FromFour == \A k \in Int : IsFiniteSet(4..k)
<1> SUFFICES ASSUME NEW k \in Int PROVE IsFiniteSet(4..k)
  OBVIOUS
<1>1. 4 \in Int
  OBVIOUS
<1> QED BY ONLY <1>1, k \in Int, FS_Interval

LEMMA AtMostOne ==
    ASSUME NEW S, IsFiniteSet(S), ~(Function!Cardinality(S) > 1), NEW x \in S, NEW y \in S
    PROVE  x = y
<1> SUFFICES ASSUME x # y PROVE FALSE
  OBVIOUS
<1>1. IsFiniteSet({x}) /\ Cardinality({x}) = 1
  BY FS_Singleton
<1>2. IsFiniteSet({x} \cup {y}) /\ Cardinality({x} \cup {y}) = 2
  BY <1>1, FS_AddElement
<1>3. {x} \cup {y} \in SUBSET S
  OBVIOUS
<1>4. Cardinality({x} \cup {y}) <= Cardinality(S) /\ Cardinality(S) \in Nat
  BY <1>3, FS_Subset, FS_CardinalityType
<1> QED BY <1>2, <1>4, SameCardinality

-----------------------------------------------------------------------------
(* The functions of the registry.                                          *)
LEMMA FunctionOfId ==
    ASSUME NEW id \in FunctionIds
    PROVE  /\ FunctionOf(id) \in Functions /\ FunctionOf(id).id = id
           /\ Function!IsTileFunction(FunctionOf(id))
<1>1. \E f \in Functions : f.id = id /\ Function!IsTileFunction(f)
  BY DEF FunctionIds
<1> QED BY <1>1 DEF FunctionOf

(* The call of a request to a function of the registry.                    *)
IsCall(id, r, call) ==
    LET lyr == Function!getFunctionLayer(FunctionOf(id))
        args == Function!getFunctionArgs(lyr, r.query)
    IN  \E order \in Function!SetToSeqs(DOMAIN args) :
           call = Function!requestSQL(lyr, r.tile, args, order)

(* The names of the parameters that are the caller's.                      *)
OwnNames(f) == {f.params[i].name : i \in 4..Len(f.params)}

(* A call lists x, y and z and m names of the query, with their values.    *)
Lists(r, call, given, m, order) ==
    /\ \A i \in 1..m : order[i] \in given
    /\ \A a \in given : \E i \in 1..m : order[i] = a
    /\ \A i, j \in 1..m : order[i] = order[j] => i = j
    /\ DOMAIN call.keys = 1..(m + 3)
    /\ call.keys[1] = [name |-> "x", at |-> 1]
    /\ call.keys[2] = [name |-> "y", at |-> 2]
    /\ call.keys[3] = [name |-> "z", at |-> 3]
    /\ \A i \in 1..m : call.keys[i + 3] = [name |-> order[i], at |-> i + 3]
    /\ call.vals[1] = r.tile.x /\ call.vals[2] = r.tile.y /\ call.vals[3] = r.tile.z
    /\ \A i \in 1..m : call.vals[i + 3] = r.query[order[i]][1]

(* A call has x, y and z and each name of the query that is a parameter,   *)
(* once, with its value.                                                   *)
LEMMA CallShape ==
    ASSUME NEW id \in FunctionIds, NEW r, NEW call, IsCall(id, r, call)
    PROVE  LET f == FunctionOf(id)
               given == OwnNames(f) \cap DOMAIN r.query
           IN  /\ f \in Functions /\ Function!IsTileFunction(f)
               /\ DOMAIN f.params = 1..Len(f.params) /\ Len(f.params) \in Nat /\ Len(f.params) >= 3
               /\ f.params[1].name = "z" /\ f.params[2].name = "x" /\ f.params[3].name = "y"
               /\ \E m \in Nat : \E order : Lists(r, call, given, m, order)
<1> DEFINE f == FunctionOf(id)
           lyr == Function!getFunctionLayer(f)
           args == Function!getFunctionArgs(lyr, r.query)
           given == OwnNames(f) \cap DOMAIN r.query
<1>1. /\ f \in Functions /\ Function!IsTileFunction(f)
      /\ DOMAIN f.params = 1..Len(f.params) /\ Len(f.params) \in Nat /\ Len(f.params) >= 3
      /\ f.params[1].name = "z" /\ f.params[2].name = "x" /\ f.params[3].name = "y"
  <2>1. f \in Functions /\ Function!IsTileFunction(f)
    BY FunctionOfId
  <2>2. [i \in 1..3 |-> f.params[i].name] = <<"z", "x", "y">> /\ Len(f.params) >= 3
    BY <2>1 DEF Function!IsTileFunction
  <2> HIDE DEF f
  <2>3. /\ f.params[1].name = [i \in 1..3 |-> f.params[i].name][1]
        /\ f.params[2].name = [i \in 1..3 |-> f.params[i].name][2]
        /\ f.params[3].name = [i \in 1..3 |-> f.params[i].name][3]
    OBVIOUS
  <2>4. f.params[1].name = "z" /\ f.params[2].name = "x" /\ f.params[3].name = "y"
    BY <2>2, <2>3
  <2>5. DOMAIN f.params = 1..Len(f.params) /\ Len(f.params) \in Nat
    <3>1. f.params \in Seq(Function!ToSet(f.params))
      BY <2>1, FunctionsAssumption
    <3> QED BY <3>1
  <2> QED BY <2>1, <2>2, <2>4, <2>5
<1>2. DOMAIN args = given /\ \A a \in DOMAIN args : args[a] = r.query[a][1]
  BY DEF Function!getFunctionArgs, Function!getFunctionLayer, Function!Arguments, OwnNames
<1>3. IsFiniteSet(OwnNames(f))
  <2> DEFINE g == [i \in 4..Len(f.params) |-> f.params[i].name]
  <2>1. g \in Surjection(4..Len(f.params), OwnNames(f))
    BY DEF Surjection, OwnNames
  <2>2. IsFiniteSet(4..Len(f.params))
    <3>1. Len(f.params) \in Int
      BY <1>1
    <3>2. \A k \in Int : IsFiniteSet(4..k)
      BY FromFour
    <3> HIDE DEF f
    <3> QED BY <3>1, <3>2
  <2> HIDE DEF g, f
  <2> QED BY <2>1, <2>2, FS_Surjection
<1>4. IsFiniteSet(DOMAIN args)
  <2> HIDE DEF args, f
  <2> QED BY <1>2, <1>3, FS_Intersection
<1>5. PICK order \in Function!SetToSeqs(DOMAIN args) : call = Function!requestSQL(lyr, r.tile, args, order)
  BY DEF IsCall
<1> HIDE DEF args, lyr
<1> DEFINE m == Cardinality(DOMAIN args)
<1>6. /\ DOMAIN order = 1..m /\ m \in Nat
      /\ \A i \in 1..m : order[i] \in DOMAIN args
      /\ \A a \in DOMAIN args : \E i \in 1..m : order[i] = a
      /\ \A i, j \in 1..m : order[i] = order[j] => i = j
  BY <1>4, EveryElementHasAPlace
<1> HIDE DEF m
<1>7. /\ DOMAIN call.keys = 1..(m + 3)
      /\ call.keys[1] = [name |-> "x", at |-> 1]
      /\ call.keys[2] = [name |-> "y", at |-> 2]
      /\ call.keys[3] = [name |-> "z", at |-> 3]
      /\ \A i \in 1..m : call.keys[i + 3] = [name |-> order[i], at |-> i + 3]
      /\ call.vals[1] = r.tile.x /\ call.vals[2] = r.tile.y /\ call.vals[3] = r.tile.z
      /\ \A i \in 1..m : call.vals[i + 3] = args[order[i]]
  BY <1>5, <1>6 DEF Function!requestSQL
<1>8. /\ \A i \in 1..m : order[i] \in given /\ call.vals[i + 3] = r.query[order[i]][1]
      /\ \A a \in given : \E i \in 1..m : order[i] = a
  <2> HIDE DEF given
  <2> QED BY <1>2, <1>6, <1>7
<1> HIDE DEF f, given
<1>9. Lists(r, call, given, m, order)
  BY <1>6, <1>7, <1>8 DEF Lists
<1> QED BY <1>1, <1>6, <1>9 DEF f, given

(* A call the database accepts binds its arguments.                        *)
LEMMA CallBinds ==
    ASSUME NEW id \in FunctionIds, NEW r, NEW call, IsCall(id, r, call),
           ~Function!Refused(FunctionOf(id), call)
    PROVE  Binds(r, [layer |-> id, of |-> Function!Bound(FunctionOf(id), call)])
<1> DEFINE f == FunctionOf(id)
           names == {p.name : p \in Function!ToSet(f.params)}
           others == OwnNames(f)
           given == others \cap DOMAIN r.query
           inputs == {p.name : p \in Function!Inputs(f)}
<1> SUFFICES ASSUME \A n \in names \cap DOMAIN r.query : Fold[n] = n, NEW n \in inputs
             PROVE  Function!Bound(f, call)[n] =
                        IF n \in {"x", "y", "z"} THEN <<"value", r.tile[n]>>
                        ELSE IF n \in DOMAIN r.query THEN <<"value", r.query[n][1]>>
                        ELSE <<"default">>
  BY DEF Binds, Function!Bound
<1>1. /\ f \in Functions /\ Function!IsTileFunction(f)
      /\ DOMAIN f.params = 1..Len(f.params) /\ Len(f.params) \in Nat /\ Len(f.params) >= 3
      /\ f.params[1].name = "z" /\ f.params[2].name = "x" /\ f.params[3].name = "y"
  BY CallShape
<1>5. \E m \in Nat : \E order : Lists(r, call, given, m, order)
  BY CallShape
<1>6. PICK m, order : m \in Nat /\ Lists(r, call, given, m, order)
  BY <1>5
<1> HIDE DEF given
<1> USE DEF Lists
<1> DEFINE named == Function!Named(call, n)
<1>8. named = {i \in 1..(m + 3) : Fold[call.keys[i].name] = n}
  BY <1>6 DEF Function!Named
<1>9. \A i, j \in named : i = j
  <2>1. ~(Function!Cardinality(named) > 1)
    BY DEF Function!Refused
  <2>2. IsFiniteSet(named)
    <3>1. IsFiniteSet(1..(m + 3))
      BY <1>6, FS_Interval
    <3> QED BY <1>8, <3>1, FS_Subset
  <2> HIDE DEF named
  <2> QED BY <2>1, <2>2, AtMostOne
<1>10. ASSUME NEW i \in named
       PROVE  Function!Bound(f, call)[n] = <<"value", call.vals[call.keys[i].at]>>
  <2>1. (CHOOSE j \in named : TRUE) = i /\ named # {}
    BY <1>9, <1>10
  <2> QED BY <2>1 DEF Function!Bound
<1>11. named = {} => Function!Bound(f, call)[n] = <<"default">>
  BY DEF Function!Bound
<1> HIDE DEF named
<1>12. n \in names /\ (n \in {"x", "y", "z"} \cup DOMAIN r.query => Fold[n] = n)
  BY FoldAssumption DEF Function!Inputs
<1>13. names = {f.params[i].name : i \in 1..Len(f.params)}
  BY <1>1 DEF Function!ToSet
<1> HIDE DEF names, f
<1>14. {"x", "y", "z"} \subseteq names /\ others \subseteq names /\ names = {"x", "y", "z"} \cup others
  BY <1>1, <1>13 DEF OwnNames
<1>15. CASE n \in {"x", "y", "z"}
  <2>1. CASE n = "x"
    <3>1. 1 \in named
      BY <1>6, <1>8, <1>12, <2>1
    <3> QED BY <1>6, <1>10, <2>1, <3>1
  <2>2. CASE n = "y"
    <3>1. 2 \in named
      BY <1>6, <1>8, <1>12, <2>2
    <3> QED BY <1>6, <1>10, <2>2, <3>1
  <2>3. CASE n = "z"
    <3>1. 3 \in named
      BY <1>6, <1>8, <1>12, <2>3
    <3> QED BY <1>6, <1>10, <2>3, <3>1
  <2> QED BY <1>15, <2>1, <2>2, <2>3
<1>16. CASE n \notin {"x", "y", "z"} /\ n \in DOMAIN r.query
  <2>1. n \in given
    BY <1>12, <1>14, <1>16 DEF given
  <2>2. PICK i \in 1..m : order[i] = n
    BY <1>6, <2>1
  <2>3. call.keys[i + 3] = [name |-> n, at |-> i + 3] /\ call.vals[i + 3] = r.query[n][1] /\ i + 3 \in 1..(m + 3)
    BY <1>6, <2>2
  <2>4. i + 3 \in named
    BY <1>8, <1>12, <1>16, <2>3
  <2> QED BY <1>10, <1>16, <2>1, <2>3, <2>4
<1>17. CASE n \notin {"x", "y", "z"} /\ n \notin DOMAIN r.query
  <2>1. named = {}
    <3> SUFFICES ASSUME NEW i \in 1..(m + 3), Fold[call.keys[i].name] = n PROVE FALSE
      BY <1>8
    <3>1. CASE i \in 1..3
      <4>1. call.keys[i].name \in {"x", "y", "z"}
        BY <1>6, <3>1
      <4> QED BY <1>17, <4>1, FoldAssumption
    <3>2. CASE i \notin 1..3
      <4>1. PICK k \in 1..m : k + 3 = i
        <5>1. i - 3 \in 1..m /\ (i - 3) + 3 = i
          BY <1>6, <3>2
        <5> QED BY <5>1
      <4>2. call.keys[i].name = order[k]
        <5>1. call.keys[k + 3] = [name |-> order[k], at |-> k + 3]
          BY <1>6
        <5> QED BY <4>1, <5>1
      <4>3. call.keys[i].name \in others \cap DOMAIN r.query
        BY <1>6, <4>1, <4>2 DEF given
      <4> QED BY <1>14, <1>17, <4>3
    <3> QED BY <3>1, <3>2
  <2> QED BY <1>11, <1>17, <2>1
<1> QED BY <1>15, <1>16, <1>17
-----------------------------------------------------------------------------
(* The invariant.                                                          *)

(* The registry is what the load made of the catalogue.                    *)
Loaded ==
    server = "serving" =>
        /\ \A id \in FunctionIds : id \in DOMAIN globalLayers /\ globalLayers[id] = Function!getFunctionLayer(FunctionOf(id))
        /\ \A id \in TableIds \ FunctionIds : globalLayers[id].kind = "table"
        /\ DOMAIN globalLayers = TableIds \cup FunctionIds

(* A handler on its way to ask a function has the call of its request, and *)
(* whatever has been answered binds what was given.                        *)
CallInv(h) ==
    /\ pc[h] \in {"template", "lock", "store", "unlock"} => Source(h) \notin FunctionIds
    /\ pc[h] = "ask" /\ Source(h) \in FunctionIds => IsCall(Source(h), req[h], sql[h])
    /\ pc[h] \in Working => \A i \in 1..Len(layers[h]) : Binds(req[h], layers[h][i])
    /\ Served(h, "tile") => \A i \in DOMAIN reply[h].body : Binds(req[h], reply[h].body[i])

CallsInv == Loaded /\ \A h \in Handlers : CallInv(h)

LEMMA CallsInit == Init => CallsInv
<1> SUFFICES ASSUME Init PROVE CallsInv
  OBVIOUS
<1>1. Loaded
  BY DEF Init, Loaded
<1>2. ASSUME NEW h \in Handlers PROVE CallInv(h)
  <2>1. pc[h] = "idle" /\ reply[h].code = 0
    BY DEF Init, NoReply, Reply
  <2> QED BY <2>1 DEF CallInv, Working, AtLayer, Served
<1> QED BY <1>1, <1>2 DEF CallsInv

(* What a step leaves alone, it leaves true.                               *)
LEMMA SameCall ==
    ASSUME NEW h \in Handlers, CallInv(h), Unmoved(h), sql'[h] = sql[h]
    PROVE  CallInv(h)'
BY DEF CallInv, Unmoved, Source, Served

(* A step of the layers: the call of a function is the one of its request, *)
(* a statement for a table goes by the template, and a tile is answered    *)
(* with what has been answered before.                                     *)
LEMMA LayerStepCalls ==
    ASSUME IInv, CallsInv, NEW h \in Handlers, LayerStep(h)
    PROVE  CallInv(h)'
<1> USE DEF Functional, Goto, handling
<1>0. Functional /\ HandlerInv(h) /\ Loaded /\ CallInv(h)
  BY DEF IInv, CallsInv
<1>1. CASE SkipDuplicate(h)
  <2>1. pc[h] = "layer" /\ pc'[h] = "layer" /\ req'[h] = req[h] /\ layers'[h] = layers[h] /\ reply'[h] = reply[h]
    BY <1>0, <1>1 DEF SkipDuplicate, More, In
  <2> QED BY <1>0, <2>1 DEF CallInv, Working, AtLayer, Served
<1>2. CASE FindNothing(h) \/ InvalidTile(h) \/ RespondFails(h)
  <2>1. pc'[h] = "count" /\ reply'[h].code \in {400, 404, 500}
    BY <1>0, <1>2 DEF FindNothing, InvalidTile, RespondFails, Answer, Reply
  <2> QED BY <2>1 DEF CallInv, Working, AtLayer, Served
<1>3. CASE FilterPanics(h)
  <2>1. pc'[h] = "idle" /\ req'[h] = req[h] /\ reply'[h] = reply[h]
    BY <1>0, <1>3 DEF FilterPanics, Lost
  <2> QED BY <1>0, <2>1 DEF CallInv, Working, AtLayer, Served
<1>4. CASE CallFunction(h)
  <2>1. /\ server = "serving" /\ pc[h] = "layer" /\ pc'[h] = "ask" /\ Source(h) \in DOMAIN globalLayers
        /\ globalLayers[Source(h)].kind = "function"
        /\ req'[h] = req[h] /\ at'[h] = at[h] /\ layers'[h] = layers[h] /\ reply'[h] = reply[h]
    BY <1>0, <1>4 DEF CallFunction, Found, Wanted, More, In
  <2>2. Source(h) \in FunctionIds /\ globalLayers[Source(h)] = Function!getFunctionLayer(FunctionOf(Source(h)))
    BY <1>0, <2>1 DEF Loaded
  <2>3. IsCall(Source(h), req[h], sql'[h])
    BY <1>0, <1>4, <2>2 DEF CallFunction, IsCall
  <2>4. Source(h)' = Source(h)
    BY <2>1 DEF Source
  <2> QED BY <1>0, <2>1, <2>3, <2>4 DEF CallInv, Working, AtLayer, Served
<1>5. CASE SelectTable(h)
  <2>1. /\ server = "serving" /\ pc[h] = "layer" /\ pc'[h] \in {"ask", "template"} /\ Source(h) \in DOMAIN globalLayers
        /\ globalLayers[Source(h)].kind = "table"
        /\ req'[h] = req[h] /\ at'[h] = at[h] /\ layers'[h] = layers[h] /\ reply'[h] = reply[h]
    BY <1>0, <1>5 DEF SelectTable, Found, Wanted, More, In
  <2>2. Source(h) \notin FunctionIds
    BY <1>0, <2>1 DEF Loaded, Function!getFunctionLayer
  <2>3. Source(h)' = Source(h)
    BY <2>1 DEF Source
  <2> QED BY <1>0, <2>1, <2>2, <2>3 DEF CallInv, Working, AtLayer, Served
<1>6. CASE Respond(h)
  <2>1. pc[h] = "layer" /\ pc'[h] = "count" /\ req'[h] = req[h] /\ reply'[h].body = layers[h]
    BY <1>0, <1>6 DEF Respond, In, Answer, Reply
  <2>2. DOMAIN layers[h] = 1..Len(layers[h])
    BY <1>0, <2>1 DEF HandlerInv, Halfway, Working
  <2> QED BY <1>0, <2>1, <2>2 DEF CallInv, Working, AtLayer, Served
<1> QED BY <1>1, <1>2, <1>3, <1>4, <1>5, <1>6 DEF LayerStep

LEMMA TemplateStepCalls ==
    ASSUME IInv, CallsInv, NEW h \in Handlers, TemplateStep(h)
    PROVE  CallInv(h)'
<1>0. Functional /\ CallInv(h)
  BY DEF IInv, CallsInv
<1>1. /\ pc[h] \in {"template", "lock", "store", "unlock"} /\ pc'[h] \in {"template", "lock", "store", "unlock", "ask"}
      /\ req'[h] = req[h] /\ at'[h] = at[h] /\ layers'[h] = layers[h] /\ reply'[h] = reply[h]
  BY <1>0 DEF TemplateStep, ReadTemplate, MapRace, LockTemplates, StoreTemplate, UnlockTemplates, In, Goto, Functional, handling
<1>2. Source(h)' = Source(h)
  BY <1>1 DEF Source
<1> QED BY <1>0, <1>1, <1>2 DEF CallInv, Working, AtLayer, Served

(* The last steps: the part of a function binds what was given.            *)
LEMMA LastStepCalls ==
    ASSUME IInv, CallsInv, NEW h \in Handlers, LastStep(h)
    PROVE  CallInv(h)'
<1> USE DEF Functional, Goto, handling
<1>0. Functional /\ HandlerInv(h) /\ CallInv(h)
  BY DEF IInv, CallsInv
<1>1. CASE Ask(h)
  <2> DEFINE id == Source(h)
             part == Part(id, sql[h])
  <2>1. /\ pc[h] = "ask" /\ pc'[h] = "layer" /\ req'[h] = req[h] /\ reply'[h] = reply[h]
        /\ layers'[h] = Append(layers[h], part) /\ ~Refused(id, sql[h])
    BY <1>0, <1>1 DEF Ask, In
  <2>2. Binds(req[h], part)
    <3>1. CASE id \in FunctionIds
      <4>1. IsCall(id, req[h], sql[h]) /\ ~Function!Refused(FunctionOf(id), sql[h])
        BY <1>0, <2>1, <3>1 DEF CallInv, Refused
      <4>2. part = [layer |-> id, of |-> Function!Bound(FunctionOf(id), sql[h])]
        BY <3>1 DEF Part
      <4> HIDE DEF part, id
      <4> QED BY <3>1, <4>1, <4>2, CallBinds
    <3>2. CASE id \notin FunctionIds
      BY <3>2 DEF Binds, Part
    <3> QED BY <3>1, <3>2
  <2>3. PICK T : layers[h] \in Seq(T)
    BY <1>0, <2>1 DEF HandlerInv, Halfway, Working, AtLayer
  <2> HIDE DEF part
  <2>4. /\ Len(layers'[h]) = Len(layers[h]) + 1 /\ Len(layers[h]) \in Nat
        /\ layers'[h][Len(layers[h]) + 1] = part
        /\ \A i \in 1..Len(layers[h]) : layers'[h][i] = layers[h][i]
    <3>1. layers[h] \in Seq(T \cup {part}) /\ part \in T \cup {part}
      BY <2>3
    <3> QED BY <2>1, <3>1
  <2>5. \A i \in 1..Len(layers[h]) : Binds(req[h], layers[h][i])
    BY <1>0, <2>1 DEF CallInv, Working, AtLayer
  <2>6. ASSUME NEW i \in 1..Len(layers'[h])
        PROVE  Binds(req[h], layers'[h][i])
    <3>1. CASE i \in 1..Len(layers[h])
      BY <2>4, <2>5, <3>1
    <3>2. CASE i = Len(layers[h]) + 1
      BY <2>2, <2>4, <3>2
    <3> QED BY <2>4, <3>1, <3>2
  <2>7. \A i \in 1..Len(layers'[h]) : Binds(req'[h], layers'[h][i])
    BY <2>1, <2>6
  <2>8. Served(h, "tile")' => \A i \in DOMAIN reply'[h].body : Binds(req'[h], reply'[h].body[i])
    BY <1>0, <2>1 DEF CallInv, Served
  <2> QED BY <2>1, <2>7, <2>8 DEF CallInv
<1>2. CASE AskFails(h)
  <2>1. pc'[h] = "count" /\ reply'[h].code = 500
    BY <1>0, <1>2 DEF AskFails, Answer, Reply
  <2> QED BY <2>1 DEF CallInv, Working, AtLayer, Served
<1>3. CASE Ignore(h) \/ Track(h)
  <2>1. pc'[h] = "idle" /\ req'[h] = req[h] /\ reply'[h] = reply[h]
    BY <1>0, <1>3 DEF Ignore, Track
  <2> QED BY <1>0, <2>1 DEF CallInv, Working, AtLayer, Served
<1>4. CASE List(h) \/ Detail(h) \/ ReadFails(h)
  <2>1. pc'[h] = "idle" /\ req'[h] = req[h] /\ req[h].kind # "tile"
    BY <1>0, <1>4 DEF List, Detail, ReadFails, Inform, In, HandlerInv
  <2> QED BY <2>1 DEF CallInv, Working, AtLayer, Served
<1> QED BY <1>1, <1>2, <1>3, <1>4 DEF LastStep

(* A request begins with nothing answered.                                 *)
LEMMA ArriveCalls ==
    ASSUME IInv, CallsInv, NEW h \in Handlers, Arrive(h)
    PROVE  CallInv(h)'
<1>0. Functional /\ HandlerInv(h) /\ pc[h] = "idle"
  BY DEF IInv, Arrive
<1>1. Len(layers[h]) = 0
  BY <1>0 DEF HandlerInv, Working, AtLayer, Fresh
<1>2. pc'[h] \in {"layer", "detail", "list"} /\ layers'[h] = layers[h] /\ reply'[h].code = 0
  BY <1>0, RequestsAssumption DEF Arrive, Functional, handling, NoReply, Reply
<1> QED BY <1>1, <1>2 DEF CallInv, Working, AtLayer, Served

LEMMA CallsNext == IInv /\ CallsInv /\ [Next]_vars => CallsInv'
<1> SUFFICES ASSUME IInv, CallsInv, [Next]_vars PROVE CallsInv'
  OBVIOUS
<1>1. CASE Load
  <2>1. UNCHANGED <<pc, req, at, layers, sql, reply>>
    BY <1>1 DEF Load, handling
  <2>2. \A h \in Handlers : CallInv(h)'
    BY <2>1 DEF CallsInv, CallInv, Source, Served
  <2>3. Loaded'
    <3> SUFFICES ASSUME server' = "serving" PROVE Loaded'
      BY DEF Loaded
    <3>1. globalLayers' = [id \in TableIds \cup FunctionIds |->
                              IF id \in FunctionIds THEN Function!getFunctionLayer(FunctionOf(id))
                              ELSE Table!getTableLayer(TableOf(id))]
      BY <1>1 DEF Load
    <3> QED BY <3>1 DEF Loaded, Table!getTableLayer
  <2> QED BY <2>2, <2>3 DEF CallsInv
<1>2. ASSUME NEW h \in Handlers, Arrive(h) \/ Step(h)
      PROVE  CallsInv'
  <2>1. \A g \in Handlers \ {h} : Unmoved(g)
    BY <1>2, OthersUnmoved DEF IInv
  <2>2. \A g \in Handlers \ {h} : sql'[g] = sql[g]
    BY <1>2 DEF IInv, Functional, Arrive, Step, LayerStep, TemplateStep, LastStep, SkipDuplicate, FindNothing, InvalidTile,
         CallFunction, FilterPanics, SelectTable, Respond, RespondFails, ReadTemplate, MapRace, LockTemplates, StoreTemplate,
         UnlockTemplates, Ask, AskFails, Ignore, Track, List, Detail, ReadFails, Inform, Answer, Lost, Return, handling
  <2>3. Loaded'
    <3>1. globalLayers' = globalLayers
      BY <1>2, HandlersInv DEF IInv
    <3>2. server' \in {server, "down"}
      BY <1>2 DEF Arrive, Step, LayerStep, TemplateStep, LastStep, SkipDuplicate, FindNothing, InvalidTile, CallFunction,
         FilterPanics, SelectTable, Respond, RespondFails, ReadTemplate, MapRace, LockTemplates, StoreTemplate,
         UnlockTemplates, Ask, AskFails, Ignore, Track, List, Detail, ReadFails, Inform, Answer, Lost
    <3> QED BY <3>1, <3>2 DEF CallsInv, Loaded
  <2>4. CallInv(h)'
    BY <1>2, ArriveCalls, LayerStepCalls, TemplateStepCalls, LastStepCalls DEF Step
  <2>5. \A g \in Handlers \ {h} : CallInv(g)'
    BY <2>1, <2>2, SameCall DEF CallsInv
  <2> QED BY <2>3, <2>4, <2>5 DEF CallsInv
<1>3. CASE UNCHANGED vars
  <2>1. UNCHANGED <<server, globalLayers, pc, req, at, extant, layers, sql, reply>>
    BY <1>3 DEF vars, handling
  <2>2. \A h \in Handlers : CallInv(h)'
    BY <2>1, SameCall DEF CallsInv, Unmoved
  <2>3. Loaded'
    BY <2>1 DEF CallsInv, Loaded
  <2> QED BY <2>2, <2>3 DEF CallsInv
<1> QED BY <1>1, <1>2, <1>3 DEF Next, Step

(* Whatever the functions, the queries and the orders of the arguments, a  *)
(* call that is answered binds what the request gave                       *)
(* (LayerFunction.requestSQL).                                             *)
THEOREM CallsAlwaysBind == Spec => []CallsBindTheirArguments
<1>1. CallsInv => CallsBindTheirArguments
  BY DEF CallsInv, CallInv, CallsBindTheirArguments
<1> QED BY <1>1, InitInv, NextInv, CallsInit, CallsNext, PTL DEF Spec

-----------------------------------------------------------------------------
(* Induction: a set of numbers with 0 and the next of each is all of Nat.  *)
LEMMA EveryNumber ==
    ASSUME NEW T, T \subseteq Nat, 0 \in T, \A n \in T : n + 1 \in T
    PROVE  T = Nat
<1> DEFINE R == OpToRel(<, Nat)
           rest == Nat \ T
<1>1. SUFFICES ASSUME rest # {} PROVE FALSE
  OBVIOUS
<1>2. \A m, n \in Nat : m < n => <<m, n>> \in R
  BY DEF OpToRel
<1>3. \E n \in rest : \A m \in rest : ~(<<m, n>> \in R)
  <2>1. IsWellFoundedOn(R, Nat) /\ rest \subseteq Nat
    BY NatLessThanWellFounded
  <2> HIDE DEF R, rest
  <2> QED BY <1>1, <2>1, WFMin
<1>4. PICK n \in rest : \A m \in rest : ~(<<m, n>> \in R)
  BY <1>3
<1> HIDE DEF R
<1>5. n # 0 /\ n - 1 \in Nat /\ n - 1 < n /\ n \in Nat
  OBVIOUS
<1>6. n - 1 \in T
  BY <1>2, <1>4, <1>5
<1>7. (n - 1) + 1 \in T
  BY <1>6
<1> QED BY <1>5, <1>7

-----------------------------------------------------------------------------
(* The elements of a sequence that are in a set.                           *)

(* What Only builds, for the first n elements.                             *)
Builds(F, s, S, n) ==
    F = [i \in 0..n |->
            IF i = 0 THEN <<>>
            ELSE IF s[i] \in S THEN Append(F[i - 1], s[i]) ELSE F[i - 1]]

(* There is such a function, for any n.                                    *)
LEMMA SomethingBuilds ==
    ASSUME NEW s, NEW S
    PROVE  \A n \in Nat : \E F : Builds(F, s, S, n)
<1> DEFINE T == {n \in Nat : \E F : Builds(F, s, S, n)}
<1>1. 0 \in T
  <2> DEFINE F == [i \in 0..0 |-> <<>>]
  <2>1. Builds(F, s, S, 0)
    BY DEF Builds
  <2> QED BY <2>1
<1>2. ASSUME NEW n \in T PROVE n + 1 \in T
  <2>1. PICK F : Builds(F, s, S, n)
    OBVIOUS
  <2> DEFINE G == [i \in 0..(n + 1) |->
                      IF i <= n THEN F[i]
                      ELSE IF s[i] \in S THEN Append(F[n], s[i]) ELSE F[n]]
             H == [i \in 0..(n + 1) |->
                      IF i = 0 THEN <<>>
                      ELSE IF s[i] \in S THEN Append(G[i - 1], s[i]) ELSE G[i - 1]]
  <2>2. ASSUME NEW i \in 0..(n + 1) PROVE G[i] = H[i]
    <3>1. CASE i = 0
      <4>1. F[0] = <<>>
        BY <2>1 DEF Builds
      <4> QED BY <3>1, <4>1
    <3>2. CASE i \in 1..n
      <4>1. F[i] = IF s[i] \in S THEN Append(F[i - 1], s[i]) ELSE F[i - 1]
        <5>1. i \in 0..n /\ i # 0
          BY <3>2
        <5> QED BY <2>1, <5>1 DEF Builds
      <4>2. G[i - 1] = F[i - 1] /\ G[i] = F[i]
        BY <3>2
      <4> QED BY <3>2, <4>1, <4>2
    <3>3. CASE i = n + 1
      <4>1. G[i - 1] = F[n]
        BY <3>3
      <4> QED BY <3>3, <4>1
    <3> QED BY <3>1, <3>2, <3>3
  <2>3. G = H
    BY <2>2
  <2>4. Builds(G, s, S, n + 1)
    BY <2>3 DEF Builds
  <2> QED BY <2>4
<1>3. T = Nat
  <2> HIDE DEF T
  <2>1. T \subseteq Nat
    BY DEF T
  <2> QED BY <1>1, <1>2, <2>1, EveryNumber
<1> QED BY <1>3

(* Only is what is built of the whole sequence.                            *)
LEMMA OnlyBuilds ==
    ASSUME NEW s, NEW S, Len(s) \in Nat
    PROVE  \E F : Builds(F, s, S, Len(s)) /\ Table!Only(s, S) = F[Len(s)]
<1> DEFINE F == CHOOSE F : Builds(F, s, S, Len(s))
<1>1. Builds(F, s, S, Len(s))
  BY SomethingBuilds
<1>2. Table!Only(s, S) = F[Len(s)]
  BY Zenon DEF Table!Only, Builds
<1> QED BY <1>1, <1>2

(* The elements are of the sequence and of the set; nothing is left out of *)
(* a sequence that stays as long.                                          *)
LEMMA OnlyThose ==
    ASSUME NEW A, NEW s \in Seq(A), NEW S
    PROVE  /\ Table!Only(s, S) \in Seq(A \cap S)
           /\ Len(Table!Only(s, S)) >= Len(s) => \A i \in 1..Len(s) : s[i] \in S
<1>1. Len(s) \in Nat /\ \A i \in 1..Len(s) : s[i] \in A
  OBVIOUS
<1>2. PICK F : Builds(F, s, S, Len(s)) /\ Table!Only(s, S) = F[Len(s)]
  BY <1>1, OnlyBuilds
<1> DEFINE P(n) == /\ F[n] \in Seq(A \cap S) /\ Len(F[n]) <= n
                   /\ Len(F[n]) = n => \A i \in 1..n : s[i] \in S
           T == {n \in Nat : n <= Len(s) => P(n)}
<1>3. 0 \in T
  <2>1. F[0] = <<>>
    BY <1>1, <1>2 DEF Builds
  <2>2. <<>> \in Seq(A \cap S) /\ Len(<<>>) = 0
    OBVIOUS
  <2>3. \A i \in 1..0 : s[i] \in S
    OBVIOUS
  <2>4. F[0] \in Seq(A \cap S) /\ Len(F[0]) <= 0
    BY <2>1, <2>2
  <2>5. P(0)
    BY <2>3, <2>4
  <2> HIDE DEF P
  <2> QED BY <2>5
<1>4. ASSUME NEW n \in T PROVE n + 1 \in T
  <2> SUFFICES ASSUME n + 1 <= Len(s) PROVE P(n + 1)
    OBVIOUS
  <2>1. P(n) /\ n \in Nat /\ n + 1 \in 1..Len(s) /\ s[n + 1] \in A
    BY <1>1
  <2>2. F[n + 1] = IF s[n + 1] \in S THEN Append(F[n], s[n + 1]) ELSE F[n]
    <3>1. (n + 1) - 1 = n /\ n + 1 # 0 /\ n + 1 \in 0..Len(s)
      BY <1>1, <2>1
    <3> QED BY <1>2, <3>1 DEF Builds
  <2>3. CASE s[n + 1] \in S
    <3>1. F[n + 1] = Append(F[n], s[n + 1])
      BY <2>2, <2>3
    <3>2. F[n + 1] \in Seq(A \cap S) /\ Len(F[n + 1]) = Len(F[n]) + 1 /\ Len(F[n]) \in Nat
      BY <2>1, <2>3, <3>1
    <3>3. Len(F[n + 1]) = n + 1 => \A i \in 1..(n + 1) : s[i] \in S
      <4> SUFFICES ASSUME Len(F[n + 1]) = n + 1, NEW i \in 1..(n + 1) PROVE s[i] \in S
        OBVIOUS
      <4>1. Len(F[n]) = n
        BY <2>1, <3>2
      <4>2. i \in 1..n \/ i = n + 1
        BY <2>1
      <4> QED BY <2>1, <2>3, <4>1, <4>2
    <3> QED BY <2>1, <3>2, <3>3
  <2>4. CASE s[n + 1] \notin S
    <3>1. F[n + 1] = F[n] /\ Len(F[n]) \in Nat
      BY <2>1, <2>2, <2>4
    <3> QED BY <2>1, <3>1
  <2> QED BY <2>3, <2>4
<1>5. T = Nat
  <2> HIDE DEF T
  <2>1. T \subseteq Nat
    BY DEF T
  <2> QED BY <1>3, <1>4, <2>1, EveryNumber
<1>6. P(Len(s))
  BY <1>1, <1>5
<1> HIDE DEF P
<1> QED BY <1>1, <1>2, <1>6 DEF P

-----------------------------------------------------------------------------
(* Calls of functions.                                                     *)

(* Both kinds of layers keep elements in the same way.                     *)
LEMMA SameOnly == ASSUME NEW s, NEW S PROVE Function!Only(s, S) = Table!Only(s, S)
BY Zenon DEF Function!Only, Table!Only

(* A function whose row can be read has no other parameters than those a   *)
(* caller may name.                                                        *)
LEMMA NoOutputs ==
    ASSUME NEW f \in Functions, Function!IsTileFunction(f), ~Function!RowPanics(f)
    PROVE  \A i \in 1..Len(f.params) : f.params[i] \in Function!Inputs(f)
<1> DEFINE params == f.params
           A == Function!ToSet(params)
           inputs == Function!Inputs(f)
           types == Table!Only(params, inputs)
<1>1. params \in Seq(A) /\ Len(params) \in Nat /\ Len(params) >= 3
  <2>1. params \in Seq(A)
    BY FunctionsAssumption
  <2> QED BY <2>1 DEF Function!IsTileFunction
<1>2. types \in Seq(A \cap inputs) /\ Len(types) \in Nat
  <2> HIDE DEF A, inputs, params
  <2>1. types \in Seq(A \cap inputs)
    BY <1>1, OnlyThose
  <2> HIDE DEF types
  <2> QED BY <2>1
<1>3. types = Function!argtypes(f)
  BY SameOnly DEF Function!argtypes
<1>4. CASE Len(params) = 3
  <2>1. \A i \in 1..3 : params[i] \in A /\ ~params[i].out
    BY <1>1, <1>4 DEF Function!IsTileFunction
  <2> QED BY <1>4, <2>1 DEF Function!Inputs
<1>5. CASE Len(params) > 3
  <2>1. Len(params) \in 4..Len(params)
    BY <1>1, <1>5
  <2>2. ~(Len(params) > Len(types))
    BY <1>3, <2>1 DEF Function!RowPanics
  <2>3. Len(types) >= Len(params)
    BY <1>1, <1>2, <2>2
  <2>4. \A i \in 1..Len(params) : params[i] \in inputs
    <3> HIDE DEF A, inputs, params
    <3> QED BY <1>1, <2>3, OnlyThose
  <2> QED BY <2>4
<1> HIDE DEF params, A, inputs, types
<1>6. Len(params) = 3 \/ Len(params) > 3
  <2>1. \A n \in Nat : n >= 3 => n = 3 \/ n > 3
    OBVIOUS
  <2> QED BY <1>1, <2>1
<1> QED BY <1>4, <1>5, <1>6

(* What a request may leave out or give so that the call of a function is  *)
(* refused.                                                                *)
FunctionFault(id, given) ==
    \E p \in Function!Inputs(FunctionOf(id)) :
        \/ p.default = <<>> /\ p.name \notin DOMAIN given \cup {"x", "y", "z"}
        \/ p.name \in DOMAIN given /\ Fold[p.name] # p.name

(* Only such a call is refused.                                            *)
LEMMA CallRefused ==
    ASSUME NEW id \in FunctionIds, NEW r, NEW call, IsCall(id, r, call),
           ~Function!RowPanics(FunctionOf(id)), Function!Refused(FunctionOf(id), call)
    PROVE  FunctionFault(id, r.query)
<1> DEFINE f == FunctionOf(id)
           inputs == Function!Inputs(f)
           given == OwnNames(f) \cap DOMAIN r.query
<1> SUFFICES ASSUME \A p \in inputs : /\ p.default # <<>> \/ p.name \in DOMAIN r.query \cup {"x", "y", "z"}
                                      /\ p.name \in DOMAIN r.query => Fold[p.name] = p.name
             PROVE  FALSE
  BY DEF FunctionFault
<1>1. /\ f \in Functions /\ Function!IsTileFunction(f)
      /\ DOMAIN f.params = 1..Len(f.params) /\ Len(f.params) \in Nat /\ Len(f.params) >= 3
      /\ f.params[1].name = "z" /\ f.params[2].name = "x" /\ f.params[3].name = "y"
  BY CallShape
<1>2. \A i \in 1..Len(f.params) : f.params[i] \in inputs
  <2>1. ~Function!RowPanics(f)
    OBVIOUS
  <2> HIDE DEF f
  <2> QED BY <1>1, <2>1, NoOutputs
<1>3. \A p \in inputs : \E i \in 1..Len(f.params) : f.params[i] = p
  BY <1>1 DEF Function!Inputs, Function!ToSet
<1>4. \A n \in OwnNames(f) : n \notin {"x", "y", "z"} /\ \E p \in inputs : p.name = n
  <2> SUFFICES ASSUME NEW i \in 4..Len(f.params)
               PROVE  f.params[i].name \notin {"x", "y", "z"} /\ f.params[i] \in inputs
    BY DEF OwnNames
  <2>1. f.params[i] \in inputs
    BY <1>1, <1>2
  <2>2. ~f.params[i].out
    BY <2>1 DEF Function!Inputs
  <2>3. f.params[i].name \notin {"x", "y", "z"}
    <3> HIDE DEF f
    <3> QED BY <1>1, <2>2, FunctionsAssumption
  <2> QED BY <2>1, <2>3
<1>5. /\ \E p \in inputs : p.name = "x"
      /\ \E p \in inputs : p.name = "y"
      /\ \E p \in inputs : p.name = "z"
  BY <1>1, <1>2
<1>6. \E m \in Nat : \E order : Lists(r, call, given, m, order)
  BY CallShape
<1>7. PICK m, order : m \in Nat /\ Lists(r, call, given, m, order)
  BY <1>6
<1>m. m \in Nat
  BY <1>7
<1>8. given \subseteq OwnNames(f) /\ given \subseteq DOMAIN r.query
  OBVIOUS
<1> DEFINE name(i) == call.keys[i].name
<1> HIDE DEF given, inputs, f
<1>9. /\ DOMAIN call.keys = 1..(m + 3)
      /\ name(1) = "x" /\ name(2) = "y" /\ name(3) = "z"
      /\ \A i \in 1..m : name(i + 3) = order[i]
  <2>1. /\ call.keys[1] = [name |-> "x", at |-> 1]
        /\ call.keys[2] = [name |-> "y", at |-> 2]
        /\ call.keys[3] = [name |-> "z", at |-> 3]
        /\ DOMAIN call.keys = 1..(m + 3)
    BY <1>7 DEF Lists
  <2>2. ASSUME NEW i \in 1..m PROVE name(i + 3) = order[i]
    <3>1. call.keys[i + 3] = [name |-> order[i], at |-> i + 3]
      BY <1>7 DEF Lists
    <3> QED BY <3>1
  <2>3. name(1) = "x" /\ name(2) = "y" /\ name(3) = "z"
    BY <2>1
  <2> QED BY <2>1, <2>2, <2>3
<1> HIDE DEF name
<1>10. \A i \in 1..(m + 3) : i \in 1..3 \/ (i - 3 \in 1..m /\ (i - 3) + 3 = i)
  BY <1>m
<1>11. ASSUME NEW i \in 1..(m + 3), i \notin 1..3
       PROVE  i - 3 \in 1..m /\ name(i) = order[i - 3] /\ name(i) \in given
  <2>1. i - 3 \in 1..m /\ (i - 3) + 3 = i
    BY <1>10, <1>11
  <2>2. name((i - 3) + 3) = order[i - 3]
    BY <1>9, <2>1
  <2>3. order[i - 3] \in given
    BY <1>7, <2>1 DEF Lists
  <2> QED BY <2>1, <2>2, <2>3
<1>12. ASSUME NEW i \in 1..(m + 3)
       PROVE  Fold[name(i)] = name(i) /\ \E p \in inputs : p.name = name(i)
  <2>1. CASE i \in 1..3
    <3>1. name(i) \in {"x", "y", "z"}
      BY <1>9, <2>1
    <3> QED BY <1>5, <3>1, FoldAssumption
  <2>2. CASE i \notin 1..3
    <3>1. name(i) \in given
      BY <1>11, <2>2
    <3> QED BY <1>4, <1>8, <3>1
  <2> QED BY <2>1, <2>2
<1>13. ASSUME NEW i \in 1..(m + 3), NEW j \in 1..(m + 3), name(i) = name(j)
       PROVE  i = j
  <2>1. CASE i \in 1..3 /\ j \in 1..3
    BY <1>9, <1>13, <2>1
  <2>2. CASE i \in 1..3 /\ j \notin 1..3
    <3>1. name(i) \in {"x", "y", "z"} /\ name(j) \in given
      BY <1>9, <1>11, <2>2
    <3> QED BY <1>4, <1>8, <1>13, <3>1
  <2>3. CASE i \notin 1..3 /\ j \in 1..3
    <3>1. name(j) \in {"x", "y", "z"} /\ name(i) \in given
      BY <1>9, <1>11, <2>3
    <3> QED BY <1>4, <1>8, <1>13, <3>1
  <2>4. CASE i \notin 1..3 /\ j \notin 1..3
    <3>1. i - 3 \in 1..m /\ j - 3 \in 1..m /\ order[i - 3] = order[j - 3]
      BY <1>11, <1>13, <2>4
    <3>2. \A k, l \in 1..m : order[k] = order[l] => k = l
      BY <1>7 DEF Lists
    <3>3. i - 3 = j - 3
      BY <3>1, <3>2
    <3> QED BY <3>3
  <2> QED BY <2>1, <2>2, <2>3, <2>4
<1>14. \A n : Function!Named(call, n) = {i \in 1..(m + 3) : Fold[name(i)] = n}
  BY <1>9 DEF Function!Named, name
<1>15. \A i \in DOMAIN call.keys : Fold[call.keys[i].name] \in {p.name : p \in Function!Inputs(f)}
  <2> SUFFICES ASSUME NEW i \in 1..(m + 3)
               PROVE  Fold[name(i)] \in {p.name : p \in inputs}
    BY <1>9 DEF name, inputs
  <2> QED BY <1>12
<1>16. ASSUME NEW p \in inputs
       PROVE  /\ ~(Function!Cardinality(Function!Named(call, p.name)) > 1)
              /\ Function!Named(call, p.name) = {} => p.default # <<>>
  <2> DEFINE named == Function!Named(call, p.name)
  <2>1. named = {i \in 1..(m + 3) : name(i) = p.name}
    BY <1>12, <1>14
  <2> HIDE DEF named
  <2>2. ~(Function!Cardinality(named) > 1)
    <3>1. CASE named = {}
      <4>1. Cardinality({}) = 0
        BY FS_EmptySet
      <4>2. Function!Cardinality(named) = 0
        BY <3>1, <4>1, SameCardinality
      <4> QED BY <4>2
    <3>2. CASE named # {}
      <4>1. PICK i : i \in named
        BY <3>2
      <4>2. named = {i}
        BY <1>13, <2>1, <4>1
      <4>3. Cardinality({i}) = 1
        BY FS_Singleton
      <4>4. Function!Cardinality(named) = 1
        BY <4>2, <4>3, SameCardinality
      <4> QED BY <4>4
    <3> QED BY <3>1, <3>2
  <2>3. ASSUME named = {}, p.default = <<>>
        PROVE  FALSE
    <3>1. p.name \in DOMAIN r.query \cup {"x", "y", "z"}
      BY <2>3
    <3>2. CASE p.name \in {"x", "y", "z"}
      <4>1. \E i \in 1..3 : name(i) = p.name
        BY <1>9, <3>2
      <4>2. \A i \in 1..3 : i \in 1..(m + 3)
        BY <1>m
      <4> QED BY <2>1, <2>3, <4>1, <4>2
    <3>3. CASE p.name \notin {"x", "y", "z"}
      <4>1. p.name \in OwnNames(f)
        <5>1. PICK i \in 1..Len(f.params) : f.params[i] = p
          BY <1>3 DEF inputs
        <5>2. i \notin 1..3
          BY <1>1, <3>3, <5>1
        <5>3. i \in 4..Len(f.params)
          BY <1>1, <5>1, <5>2
        <5> QED BY <5>1, <5>3 DEF OwnNames
      <4>2. p.name \in given
        BY <3>1, <3>3, <4>1 DEF given
      <4>3. PICK i \in 1..m : order[i] = p.name
        BY <1>7, <4>2 DEF Lists
      <4>4. name(i + 3) = p.name /\ i + 3 \in 1..(m + 3)
        BY <1>9, <1>m, <4>3
      <4> QED BY <2>1, <2>3, <4>4
    <3> QED BY <3>2, <3>3
  <2> QED BY <2>2, <2>3 DEF named
<1>17. ~Function!Refused(f, call)
  BY <1>15, <1>16 DEF Function!Refused, inputs
<1> QED BY <1>17 DEF f

-----------------------------------------------------------------------------
(* Statements for tables.                                                  *)

(* The operators of the two instances are those of the library.            *)
LEMMA SameCardinalityTable == ASSUME NEW S PROVE Table!Cardinality(S) = Cardinality(S)
BY Zenon DEF Table!Cardinality, Cardinality

(* The names of the columns of a table: those of its properties and its    *)
(* feature id are among them.                                              *)
ColumnNames(t) == {c.name : c \in Table!ToSet(t.columns)}

LEMMA LayerOfTable ==
    ASSUME NEW t \in Tables
    PROVE  LET lyr == Table!getTableLayer(t)
           IN  /\ DOMAIN lyr.Properties \subseteq ColumnNames(t)
               /\ IsFiniteSet(DOMAIN lyr.Properties)
               /\ lyr.IDColumn # Table!Empty => lyr.IDColumn \in ColumnNames(t)
<1> DEFINE lyr == Table!getTableLayer(t)
           props == {i \in DOMAIN t.columns : ~Table!IsGeometry(t.columns[i])}
           g == [i \in props |-> t.columns[i].name]
<1>1. DOMAIN t.columns = 1..Len(t.columns) /\ Len(t.columns) \in Nat
  <2>1. t.columns \in Seq(Table!ToSet(t.columns))
    BY TablesAssumption
  <2> QED BY <2>1
<1>2. DOMAIN lyr.Properties = {t.columns[i].name : i \in props}
  BY DEF Table!getTableLayer
<1>3. lyr.IDColumn = Table!IDColumn(t)
  BY DEF Table!getTableLayer
<1>4. DOMAIN lyr.Properties \subseteq ColumnNames(t)
  BY <1>2 DEF ColumnNames, Table!ToSet
<1>5. IsFiniteSet(DOMAIN lyr.Properties)
  <2>1. IsFiniteSet(DOMAIN t.columns)
    BY <1>1, UpTo
  <2>2. IsFiniteSet(props)
    BY <2>1, FS_Subset
  <2>3. g \in Surjection(props, DOMAIN lyr.Properties)
    <3> HIDE DEF props, lyr
    <3>1. g \in [props -> DOMAIN lyr.Properties] /\ \A n \in DOMAIN lyr.Properties : \E i \in props : g[i] = n
      BY <1>2
    <3> HIDE DEF g
    <3> QED BY <3>1 DEF Surjection
  <2> HIDE DEF g, props, lyr
  <2> QED BY <2>2, <2>3, FS_Surjection
<1>6. Table!IDColumn(t) # Table!Empty => Table!IDColumn(t) \in ColumnNames(t)
  BY DEF Table!IDColumn, ColumnNames
<1> HIDE DEF lyr
<1> QED BY <1>3, <1>4, <1>5, <1>6 DEF lyr

(* What is decoded is a sequence again.                                    *)
LEMMA DecodedIsASequence ==
    ASSUME NEW v \in Seq(STRING)
    PROVE  \E A : Table!Decoded(v) \in Seq(A)
<1> DEFINE ok == Table!Only(v, DOMAIN Unescape)
           A == {Unescape[ok[i]] : i \in 1..Len(ok)}
<1>1. ok \in Seq(STRING \cap DOMAIN Unescape)
  BY OnlyThose
<1> HIDE DEF ok
<1>2. DOMAIN ok = 1..Len(ok) /\ Len(ok) \in Nat
  BY <1>1
<1>3. [i \in 1..Len(ok) |-> Unescape[ok[i]]] \in Seq(A)
  BY <1>2
<1>4. Table!Decoded(v) = [i \in 1..Len(ok) |-> Unescape[ok[i]]]
  BY <1>2 DEF Table!Decoded, ok
<1> QED BY <1>3, <1>4

(* The feature id is added to the end.                                     *)
LEMMA WithIdAdds ==
    ASSUME NEW S, NEW atts \in Seq(S), NEW lyr
    PROVE  Table!ToSet(Table!WithId(lyr, atts)) =
               Table!ToSet(atts) \cup (IF lyr.IDColumn = Table!Empty THEN {} ELSE {lyr.IDColumn})
<1>1. CASE lyr.IDColumn = Table!Empty
  BY <1>1 DEF Table!WithId
<1>2. CASE lyr.IDColumn # Table!Empty
  <2> DEFINE id == lyr.IDColumn
             more == Append(atts, id)
  <2>1. more = Table!WithId(lyr, atts)
    BY <1>2 DEF Table!WithId
  <2> HIDE DEF id
  <2>2. /\ DOMAIN more = 1..(Len(atts) + 1) /\ DOMAIN atts = 1..Len(atts) /\ Len(atts) \in Nat
        /\ more[Len(atts) + 1] = id /\ \A i \in 1..Len(atts) : more[i] = atts[i]
    <3>1. atts \in Seq(S \cup {id}) /\ id \in S \cup {id}
      OBVIOUS
    <3> QED BY <3>1
  <2> HIDE DEF more
  <2>3. Table!ToSet(more) = Table!ToSet(atts) \cup {id}
    <3>1. ASSUME NEW x \in Table!ToSet(more)
          PROVE  x \in Table!ToSet(atts) \cup {id}
      <4>1. PICK i \in 1..(Len(atts) + 1) : x = more[i]
        BY <2>2 DEF Table!ToSet
      <4>2. i \in 1..Len(atts) \/ i = Len(atts) + 1
        BY <2>2
      <4> QED BY <2>2, <4>1, <4>2 DEF Table!ToSet
    <3>2. ASSUME NEW x \in Table!ToSet(atts)
          PROVE  x \in Table!ToSet(more)
      <4>1. PICK i \in 1..Len(atts) : x = atts[i]
        BY <2>2 DEF Table!ToSet
      <4>2. i \in 1..(Len(atts) + 1) /\ more[i] = x
        BY <2>2, <4>1
      <4> QED BY <2>2, <4>2 DEF Table!ToSet
    <3>3. id \in Table!ToSet(more)
      <4>1. Len(atts) + 1 \in 1..(Len(atts) + 1)
        BY <2>2
      <4> QED BY <2>2, <4>1 DEF Table!ToSet
    <3> QED BY <3>1, <3>2, <3>3
  <2> QED BY <1>2, <2>1, <2>3 DEF id
<1> QED BY <1>1, <1>2

(* The columns selected are the table's, the feature id among them.        *)
LEMMA PropertiesFit ==
    ASSUME NEW t \in Tables, NEW q, \A k \in DOMAIN q : q[k][1] \in Seq(STRING),
           NEW p \in Table!getQueryPropertiesParameter(Table!getTableLayer(t), q)
    PROVE  LET lyr == Table!getTableLayer(t)
           IN  /\ Table!ToSet(p) \subseteq ColumnNames(t)
               /\ lyr.IDColumn # Table!Empty => lyr.IDColumn \in Table!ToSet(p)
<1> DEFINE lyr == Table!getTableLayer(t)
           names == DOMAIN lyr.Properties
           Known(v) == Table!Only(Table!Decoded(v), names)
           asked == {Known(q[k][1]) : k \in Table!Spelled(q, "properties")}
           all == {Table!WithId(lyr, s) : s \in Table!SetToSeqs(names)}
<1>1. /\ names \subseteq ColumnNames(t) /\ IsFiniteSet(names)
      /\ lyr.IDColumn # Table!Empty => lyr.IDColumn \in ColumnNames(t)
  BY LayerOfTable
<1>2. p \in all \/ \E s \in asked : p = IF lyr.IDColumn \in Table!ToSet(s) THEN s ELSE Table!WithId(lyr, s)
  BY DEF Table!getQueryPropertiesParameter
<1> HIDE DEF lyr, names
<1>3. \A s \in asked : s \in Seq(names)
  <2> SUFFICES ASSUME NEW k \in Table!Spelled(q, "properties") PROVE Known(q[k][1]) \in Seq(names)
    OBVIOUS
  <2>1. q[k][1] \in Seq(STRING)
    BY DEF Table!Spelled
  <2>2. PICK A : Table!Decoded(q[k][1]) \in Seq(A)
    BY <2>1, DecodedIsASequence
  <2>3. Known(q[k][1]) \in Seq(A \cap names)
    BY <2>2, OnlyThose
  <2> HIDE DEF Known
  <2> QED BY <2>3
<1>4. \A s \in Table!SetToSeqs(names) : s \in Seq(names)
  <2> SUFFICES ASSUME NEW s \in Table!SetToSeqs(names) PROVE s \in Seq(names)
    OBVIOUS
  <2>1. s \in [1..Cardinality(names) -> names]
    BY SameCardinalityTable DEF Table!SetToSeqs
  <2>2. Cardinality(names) \in Nat
    BY <1>1, FS_CardinalityType
  <2> QED BY <2>1, <2>2
<1>5. ASSUME NEW s \in Seq(names)
      PROVE  Table!ToSet(s) \subseteq names
  BY DEF Table!ToSet
<1> HIDE DEF asked, all
<1>6. ASSUME NEW s \in Seq(names)
      PROVE  /\ Table!ToSet(Table!WithId(lyr, s)) \subseteq ColumnNames(t)
             /\ lyr.IDColumn # Table!Empty => lyr.IDColumn \in Table!ToSet(Table!WithId(lyr, s))
  <2>1. Table!ToSet(Table!WithId(lyr, s)) =
            Table!ToSet(s) \cup (IF lyr.IDColumn = Table!Empty THEN {} ELSE {lyr.IDColumn})
    BY WithIdAdds
  <2> QED BY <1>1, <1>5, <2>1
<1>7. CASE p \in all
  <2>1. PICK s \in Table!SetToSeqs(names) : p = Table!WithId(lyr, s)
    BY <1>7 DEF all
  <2> QED BY <1>4, <1>6, <2>1 DEF lyr
<1>8. CASE \E s \in asked : p = IF lyr.IDColumn \in Table!ToSet(s) THEN s ELSE Table!WithId(lyr, s)
  <2>1. PICK s \in asked : p = IF lyr.IDColumn \in Table!ToSet(s) THEN s ELSE Table!WithId(lyr, s)
    BY <1>8
  <2>2. s \in Seq(names) /\ Table!ToSet(s) \subseteq ColumnNames(t)
    BY <1>1, <1>3, <1>5
  <2>3. /\ Table!ToSet(p) \subseteq ColumnNames(t)
        /\ lyr.IDColumn # Table!Empty => lyr.IDColumn \in Table!ToSet(p)
    BY <1>6, <2>1, <2>2
  <2> QED BY <2>3 DEF lyr
<1> QED BY <1>2, <1>7, <1>8

(* What a request may ask of a table so that its statement is refused.     *)
TableFault(given) ==
    \/ "filter" \in DOMAIN given /\ Transpiled[given["filter"][1]] = "error"
    \/ \E k \in Table!Spelled(given, "resolution") :
          given[k][1] \in DOMAIN Numeral /\ Numeral[given[k][1]] = 0

(* The statement of a request to a table of the registry.                  *)
IsSelect(id, r, stmt) ==
    LET lyr == Table!getTableLayer(TableOf(id))
    IN  \E qp \in Table!getQueryParameters(lyr, r.query) : stmt = Table!requestSQL(lyr, qp)

(* The resolution of the server's configuration is no 0.                   *)
ResolutionIsSet == DefaultResolution # 0

(* Only such a statement is refused.                                       *)
LEMMA StatementRefused ==
    ASSUME ResolutionIsSet, NEW id \in TableIds, NEW r, NEW stmt, IsSelect(id, r, stmt),
           \A k \in DOMAIN r.query : r.query[k][1] \in Seq(STRING),
           Table!Refused(TableOf(id), stmt)
    PROVE  TableFault(r.query)
<1> DEFINE t == TableOf(id)
           lyr == Table!getTableLayer(t)
           q == r.query
<1>1. t \in Tables
  <2>1. \E x \in Tables : x.id = id
    BY DEF TableIds
  <2> QED BY <2>1 DEF TableOf
<1>2. PICK qp \in Table!getQueryParameters(lyr, q) : stmt = Table!requestSQL(lyr, qp)
  BY DEF IsSelect
<1> HIDE DEF t
<1>3. /\ qp.Filter = Table!getQueryStringParameter(q, "filter")
      /\ qp.Properties \in Table!getQueryPropertiesParameter(lyr, q)
      /\ \E n \in Table!getQueryIntParameter(q, "resolution") :
            qp.Resolution = IF n < 0 THEN DefaultResolution ELSE n
  BY DEF Table!getQueryParameters
<1>4. CASE Table!filterSQL(qp) = "error"
  <2>1. qp.Filter # Table!NoText /\ Transpiled[qp.Filter] = "error"
    <3>1. Table!Empty # "error"
      BY DEF Table!Empty
    <3> QED BY <1>4, <3>1 DEF Table!filterSQL
  <2>2. "filter" \in DOMAIN q /\ qp.Filter = q["filter"][1]
    BY <1>3, <2>1 DEF Table!getQueryStringParameter
  <2> QED BY <2>1, <2>2 DEF TableFault
<1>5. CASE Table!filterSQL(qp) # "error"
  <2> HIDE DEF lyr, q
  <2> DEFINE feature == IF PostGISVersion >= 3000000 THEN lyr.IDColumn ELSE Table!Empty
             limit == IF qp.Limit > 0 THEN qp.Limit ELSE 0
  <2>0. stmt = [table |-> lyr.id, columns |-> qp.Properties, geometry |-> lyr.GeometryColumn,
                id |-> feature, filter |-> Table!filterSQL(qp), crs |-> <<qp.FilterCrs, lyr.Srid>>,
                limit |-> limit, resolution |-> qp.Resolution, buffer |-> qp.Buffer]
    BY <1>2, <1>5 DEF Table!requestSQL
  <2>1. /\ stmt.columns = qp.Properties /\ stmt.resolution = qp.Resolution
        /\ stmt.id \in {Table!Empty, lyr.IDColumn} /\ "columns" \in DOMAIN stmt
    <3> HIDE DEF limit
    <3>1. feature \in {Table!Empty, lyr.IDColumn}
      OBVIOUS
    <3> HIDE DEF feature
    <3> QED BY <2>0, <3>1
  <2>2. stmt # Table!NoSQL
    <3>1. "columns" \notin DOMAIN Table!NoSQL
      BY SMT DEF Table!NoSQL
    <3> QED BY SMT, <2>1, <3>1
  <2>3. /\ Table!ToSet(stmt.columns) \subseteq ColumnNames(t)
        /\ lyr.IDColumn # Table!Empty => lyr.IDColumn \in Table!ToSet(stmt.columns)
    BY <1>1, <1>3, <2>1, PropertiesFit DEF lyr, q
  <2>4. stmt.resolution = 0
    <3>1. Table!Refused(t, stmt)
      BY DEF t
    <3> QED BY <2>1, <2>2, <2>3, <3>1 DEF Table!Refused, ColumnNames
  <2>5. 0 \in Table!getQueryIntParameter(q, "resolution")
    <3>1. PICK n \in Table!getQueryIntParameter(q, "resolution") :
            qp.Resolution = IF n < 0 THEN DefaultResolution ELSE n
      BY <1>3
    <3>2. n = 0
      BY <2>1, <2>4, <3>1 DEF ResolutionIsSet
    <3> QED BY <3>2
  <2>6. \E k \in Table!Spelled(q, "resolution") : q[k][1] \in DOMAIN Numeral /\ Numeral[q[k][1]] = 0
    BY <2>5 DEF Table!getQueryIntParameter
  <2> QED BY <2>6 DEF TableFault, q
<1> QED BY <1>4, <1>5

-----------------------------------------------------------------------------
(* The invariant.                                                          *)

(* What is served has been read, functions without a row that panics and   *)
(* tables as they are.                                                     *)
ReadWell ==
    server = "serving" =>
        /\ \A id \in FunctionIds : ~Function!RowPanics(FunctionOf(id))
        /\ \A id \in TableIds \ FunctionIds : globalLayers[id] = Table!getTableLayer(TableOf(id))

(* A handler at a layer has the statement of its request.                  *)
StatementInv(h) ==
    /\ pc[h] = "ask" /\ Source(h) \in FunctionIds => ~Function!RowPanics(FunctionOf(Source(h)))
    /\ pc[h] \in AtLayer /\ Source(h) \notin FunctionIds =>
          Source(h) \in TableIds /\ IsSelect(Source(h), req[h], sql[h])

StatementsInv == ReadWell /\ \A h \in Handlers : StatementInv(h)

LEMMA StatementsInit == Init => StatementsInv
<1> SUFFICES ASSUME Init PROVE StatementsInv
  OBVIOUS
<1>1. ReadWell
  BY DEF Init, ReadWell
<1>2. ASSUME NEW h \in Handlers PROVE StatementInv(h)
  BY DEF Init, StatementInv, AtLayer
<1> QED BY <1>1, <1>2 DEF StatementsInv

(* A step of a handler.                                                    *)
LEMMA StepStatement ==
    ASSUME IInv, CallsInv, StatementsInv, NEW h \in Handlers, Arrive(h) \/ Step(h)
    PROVE  StatementInv(h)'
<1> USE DEF Functional, Goto, handling
<1>0. Functional /\ HandlerInv(h) /\ Loaded /\ ReadWell /\ StatementInv(h)
  BY DEF IInv, CallsInv, StatementsInv
<1>1. CASE CallFunction(h)
  <2>1. /\ server = "serving" /\ pc'[h] = "ask" /\ Source(h) \in DOMAIN globalLayers
        /\ globalLayers[Source(h)].kind = "function"
        /\ req'[h] = req[h] /\ at'[h] = at[h]
    BY <1>0, <1>1 DEF CallFunction, Found, Wanted, More, In
  <2>2. Source(h) \in FunctionIds
    BY <1>0, <2>1 DEF Loaded
  <2>3. Source(h)' = Source(h)
    BY <2>1 DEF Source
  <2> QED BY <1>0, <2>1, <2>2, <2>3 DEF StatementInv, ReadWell
<1>2. CASE SelectTable(h)
  <2>1. /\ server = "serving" /\ pc'[h] \in {"ask", "template"} /\ Source(h) \in DOMAIN globalLayers
        /\ globalLayers[Source(h)].kind = "table"
        /\ req'[h] = req[h] /\ at'[h] = at[h]
    BY <1>0, <1>2 DEF SelectTable, Found, Wanted, More, In
  <2>2. Source(h) \in TableIds \ FunctionIds
    BY <1>0, <2>1 DEF Loaded, Function!getFunctionLayer
  <2>3. globalLayers[Source(h)] = Table!getTableLayer(TableOf(Source(h)))
    BY <1>0, <2>1, <2>2 DEF ReadWell
  <2>4. \E qp \in Table!getQueryParameters(globalLayers[Source(h)], req[h].query) :
            sql'[h] = Table!requestSQL(globalLayers[Source(h)], qp)
    BY <1>0, <1>2 DEF SelectTable
  <2>5. IsSelect(Source(h), req[h], sql'[h])
    BY <2>3, <2>4 DEF IsSelect
  <2>6. Source(h)' = Source(h)
    BY <2>1 DEF Source
  <2> QED BY <2>1, <2>2, <2>5, <2>6 DEF StatementInv
<1>3. CASE TemplateStep(h)
  <2>1. /\ pc[h] \in {"template", "lock", "store", "unlock"} /\ sql'[h] = sql[h]
        /\ req'[h] = req[h] /\ at'[h] = at[h]
    BY <1>0, <1>3 DEF TemplateStep, ReadTemplate, MapRace, LockTemplates, StoreTemplate, UnlockTemplates, In
  <2>2. Source(h)' = Source(h)
    BY <2>1 DEF Source
  <2>3. Source(h) \notin FunctionIds /\ pc[h] \in AtLayer
    BY <2>1 DEF CallsInv, CallInv, AtLayer
  <2> QED BY <1>0, <2>1, <2>2, <2>3 DEF StatementInv
<1>4. CASE Arrive(h)
  <2>1. pc'[h] \in {"layer", "detail", "list"}
    BY <1>0, <1>4, RequestsAssumption DEF Arrive
  <2> QED BY <2>1 DEF StatementInv, AtLayer
<1>5. CASE SkipDuplicate(h) \/ FindNothing(h) \/ InvalidTile(h) \/ FilterPanics(h) \/ Respond(h) \/ RespondFails(h)
  <2>1. pc'[h] \in {"layer", "count", "idle"}
    BY <1>0, <1>5 DEF SkipDuplicate, More, In, FindNothing, InvalidTile, FilterPanics, Respond, RespondFails,
                      Answer, Lost
  <2> QED BY <2>1 DEF StatementInv, AtLayer
<1>6. CASE LastStep(h)
  <2>1. pc'[h] \in {"layer", "count", "idle"}
    BY <1>0, <1>6 DEF LastStep, Ask, AskFails, Ignore, Track, List, Detail, ReadFails, Inform, Answer
  <2> QED BY <2>1 DEF StatementInv, AtLayer
<1> QED BY <1>1, <1>2, <1>3, <1>4, <1>5, <1>6 DEF Step, LayerStep

LEMMA StatementsNext == IInv /\ CallsInv /\ StatementsInv /\ [Next]_vars => StatementsInv'
<1> SUFFICES ASSUME IInv, CallsInv, StatementsInv, [Next]_vars PROVE StatementsInv'
  OBVIOUS
<1>1. CASE Load
  <2>1. UNCHANGED <<pc, req, at, sql>>
    BY <1>1 DEF Load, handling
  <2>2. \A h \in Handlers : StatementInv(h)'
    BY <2>1 DEF StatementsInv, StatementInv, Source
  <2>3. ReadWell'
    <3> SUFFICES ASSUME server' = "serving" PROVE ReadWell'
      BY DEF ReadWell
    <3>1. /\ \A f \in Functions : Function!IsTileFunction(f) => ~Function!RowPanics(f)
          /\ globalLayers' = [id \in TableIds \cup FunctionIds |->
                              IF id \in FunctionIds THEN Function!getFunctionLayer(FunctionOf(id))
                              ELSE Table!getTableLayer(TableOf(id))]
      BY <1>1 DEF Load
    <3>2. \A id \in FunctionIds : ~Function!RowPanics(FunctionOf(id))
      BY <3>1, FunctionOfId
    <3> QED BY <3>1, <3>2 DEF ReadWell
  <2> QED BY <2>2, <2>3 DEF StatementsInv
<1>2. ASSUME NEW h \in Handlers, Arrive(h) \/ Step(h)
      PROVE  StatementsInv'
  <2>1. \A g \in Handlers \ {h} : Unmoved(g)
    BY <1>2, OthersUnmoved DEF IInv
  <2>2. \A g \in Handlers \ {h} : sql'[g] = sql[g]
    BY <1>2 DEF IInv, Functional, Arrive, Step, LayerStep, TemplateStep, LastStep, SkipDuplicate, FindNothing, InvalidTile,
         CallFunction, FilterPanics, SelectTable, Respond, RespondFails, ReadTemplate, MapRace, LockTemplates, StoreTemplate,
         UnlockTemplates, Ask, AskFails, Ignore, Track, List, Detail, ReadFails, Inform, Answer, Lost, Return, handling
  <2>3. globalLayers' = globalLayers
    BY <1>2, HandlersInv DEF IInv
  <2>4. server' \in {server, "down"}
    BY <1>2 DEF Arrive, Step, LayerStep, TemplateStep, LastStep, SkipDuplicate, FindNothing, InvalidTile, CallFunction,
         FilterPanics, SelectTable, Respond, RespondFails, ReadTemplate, MapRace, LockTemplates, StoreTemplate,
         UnlockTemplates, Ask, AskFails, Ignore, Track, List, Detail, ReadFails, Inform, Answer, Lost
  <2>5. ReadWell'
    BY <2>3, <2>4 DEF StatementsInv, ReadWell
  <2>6. \A g \in Handlers \ {h} : StatementInv(g)'
    BY <2>1, <2>2 DEF StatementsInv, StatementInv, Unmoved, Source
  <2>7. StatementInv(h)'
    BY <1>2, StepStatement
  <2> QED BY <2>5, <2>6, <2>7 DEF StatementsInv
<1>3. CASE UNCHANGED vars
  <2>1. UNCHANGED <<server, globalLayers, pc, req, at, sql>>
    BY <1>3 DEF vars, handling
  <2> QED BY <2>1 DEF StatementsInv, ReadWell, StatementInv, Source
<1> QED BY <1>1, <1>2, <1>3 DEF Next, Step

(* Whatever the tables, the functions and the queries, the database only   *)
(* refuses a statement when the request filters badly, makes the extent 0, *)
(* leaves out an argument without default or gives one whose name needs    *)
(* quotes, which the code does not write; in particular the feature id is  *)
(* always selected (getQueryPropertiesParameter, requestSQL).              *)
THEOREM OnlyRefusedForTheRequest ==
    ASSUME ResolutionIsSet PROVE Spec => []RefusedForTheRequest
<1>1. IInv /\ CallsInv /\ StatementsInv => RefusedForTheRequest
  <2> HAVE IInv /\ CallsInv /\ StatementsInv
  <2> SUFFICES ASSUME NEW h \in Handlers, pc[h] = "ask", Refused(Source(h), sql[h])
               PROVE  IF Source(h) \in FunctionIds THEN FunctionFault(Source(h), req[h].query)
                      ELSE TableFault(req[h].query)
    BY DEF RefusedForTheRequest, FunctionFault, TableFault
  <2>1. CallInv(h) /\ StatementInv(h) /\ HandlerInv(h) /\ pc[h] \in AtLayer
    BY DEF CallsInv, StatementsInv, IInv, AtLayer
  <2>2. CASE Source(h) \in FunctionIds
    <3>1. IsCall(Source(h), req[h], sql[h]) /\ ~Function!RowPanics(FunctionOf(Source(h)))
      BY <2>1, <2>2 DEF CallInv, StatementInv
    <3>2. Function!Refused(FunctionOf(Source(h)), sql[h])
      BY <2>2 DEF Refused
    <3>3. FunctionFault(Source(h), req[h].query)
      BY <2>2, <3>1, <3>2, CallRefused
    <3> QED BY <2>2, <3>3
  <2>3. CASE Source(h) \notin FunctionIds
    <3>1. Source(h) \in TableIds /\ IsSelect(Source(h), req[h], sql[h])
      BY <2>1, <2>3 DEF StatementInv
    <3>2. Table!Refused(TableOf(Source(h)), sql[h])
      BY <2>3 DEF Refused
    <3>3. \A k \in DOMAIN req[h].query : req[h].query[k][1] \in Seq(STRING)
      <4>1. req[h] \in Requests /\ req[h].kind = "tile"
        BY <2>1 DEF HandlerInv, Halfway, Working
      <4> QED BY <4>1, RequestsAssumption
    <3>4. TableFault(req[h].query)
      BY <3>1, <3>2, <3>3, StatementRefused
    <3> QED BY <2>3, <3>4
  <2> QED BY <2>2, <2>3
<1> QED BY <1>1, InitInv, NextInv, CallsInit, CallsNext, StatementsInit, StatementsNext, PTL DEF Spec
=============================================================================
