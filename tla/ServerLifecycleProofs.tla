----------------------- MODULE ServerLifecycleProofs -----------------------
(***************************************************************************)
(* Proofs about ServerLifecycle, for any number of requests, connections   *)
(* and any timeout: the type invariant, that timeouts reach the client     *)
(* when a tile request has one layer, and that an HTTP server then shuts   *)
(* down without cutting such a request off.                                *)
(***************************************************************************)
EXTENDS ServerLifecycle, FiniteSetTheorems, TLAPS

(* The connections out of the pool, lost ones included, are within its size. *)
PoolBounded ==
    /\ IsFiniteSet(Holders)
    /\ Cardinality(Holders) + leaked <= MaxConns

-----------------------------------------------------------------------------
(* The connections.                                                        *)

(* A request that gives its connection back or loses it leaves one less.   *)
LEMMA OneHolderLess ==
    ASSUME IsFiniteSet(Holders), NEW r \in Requests, st[r] = "querying",
           NEW s, s # "querying", st' = [st EXCEPT ![r] = s],
           st \in [Requests -> {"new", "waiting", "querying", "writing", "done"}]
    PROVE  /\ IsFiniteSet(Holders')
           /\ Cardinality(Holders') = Cardinality(Holders) - 1
           /\ Cardinality(Holders) \in Nat \ {0}
<1>1. r \in Holders /\ Holders' = Holders \ {r}
  BY DEF Holders
<1>2. Cardinality(Holders) \in Nat /\ Cardinality(Holders') \in Nat /\ IsFiniteSet(Holders')
  BY <1>1, FS_RemoveElement, FS_CardinalityType
<1>3. Cardinality(Holders') = Cardinality(Holders) - 1
  BY <1>1, FS_RemoveElement
<1> QED BY <1>2, <1>3

(* A request that did not hold a connection and does not get one changes   *)
(* nothing.                                                                *)
LEMMA SameHolders ==
    ASSUME NEW r \in Requests, st[r] # "querying",
           NEW s, s # "querying", st' = [st EXCEPT ![r] = s],
           st \in [Requests -> {"new", "waiting", "querying", "writing", "done"}]
    PROVE  Holders' = Holders
BY DEF Holders

-----------------------------------------------------------------------------
(* The type invariant.                                                     *)

(* The server starts with the right types and an unused pool. *)
LEMMA LifecycleInit == Init => TypeOK /\ PoolBounded
<1> SUFFICES ASSUME Init PROVE TypeOK /\ PoolBounded
  OBVIOUS
<1>1. Holders = {}
  BY DEF Init, Holders
<1>2. PoolBounded
  BY <1>1, FS_EmptySet, LifecycleAssumption DEF Init, PoolBounded
<1>3. TypeOK
  BY LifecycleAssumption DEF Init, TypeOK, Ports, writeTimeout, NoKind
<1> QED BY <1>2, <1>3

(* Every step keeps the types. *)
LEMMA TypeNext == TypeOK /\ PoolBounded /\ [Next]_vars => TypeOK'
<1> SUFFICES ASSUME TypeOK, PoolBounded, [Next]_vars PROVE TypeOK'
  OBVIOUS
<1> USE LifecycleAssumption
<1> DEFINE Sts == {"new", "waiting", "querying", "writing", "done"}
<1>ty. /\ st \in [Requests -> Sts]
       /\ leaked \in Nat /\ MaxConns \in Nat
  BY DEF TypeOK
<1>1. ASSUME NEW p \in Ports, Listen(p) PROVE TypeOK'
  BY <1>1 DEF TypeOK, Listen, writeTimeout, Ports
<1>2. ASSUME NEW p \in Ports, ListenFails(p) PROVE TypeOK'
  BY <1>2 DEF TypeOK, ListenFails, EndProcess, Live, writeTimeout, Ports
<1>3. ASSUME NEW r \in Requests, NEW p \in Ports, NEW k \in Kinds, Accept(r, p, k)
      PROVE  TypeOK'
  <2>1. k.queries \in Nat
    BY DEF Kind
  <2> QED BY <1>3, <2>1 DEF TypeOK, Accept, serverVars, writeTimeout, Ports
<1>4. ASSUME NEW r \in Requests, Acquire(r) PROVE TypeOK'
  BY <1>4 DEF TypeOK, Acquire, serverVars, writeTimeout, Ports
<1>5. ASSUME NEW r \in Requests, AcquireRejected(r) PROVE TypeOK'
  BY <1>5 DEF TypeOK, AcquireRejected, Respond, serverVars, writeTimeout, Ports
<1>6. ASSUME NEW r \in Requests, TimesOut(r) PROVE TypeOK'
  BY <1>6 DEF TypeOK, TimesOut, Respond, serverVars, writeTimeout, Ports
<1>7. ASSUME NEW r \in Requests, Write(r) PROVE TypeOK'
  BY <1>7 DEF TypeOK, Write, Finish, serverVars, writeTimeout, Ports
<1>8. ASSUME NEW r \in Requests, LastAnswer(r) PROVE TypeOK'
  BY <1>8 DEF TypeOK, LastAnswer, Respond, serverVars, writeTimeout, Ports
<1>9. ASSUME NEW r \in Requests, NextQuery(r) PROVE TypeOK'
  BY <1>9 DEF TypeOK, NextQuery, serverVars, writeTimeout, Ports
<1>10. ASSUME NEW r \in Requests, QueryFails(r) PROVE TypeOK'
  BY <1>10 DEF TypeOK, QueryFails, Respond, serverVars, writeTimeout, Ports
<1>11. ASSUME NEW r \in Requests, RowPanics(r) PROVE TypeOK'
  <2>1. st[r] = "querying" /\ st' = [st EXCEPT ![r] = "done"] /\ leaked' = leaked + 1
    BY <1>11 DEF RowPanics, Finish
  <2>2. Cardinality(Holders) \in Nat \ {0}
    BY <2>1, <1>ty, OneHolderLess DEF PoolBounded
  <2>3. leaked' \in 0..MaxConns
    BY <2>1, <2>2, <1>ty DEF PoolBounded
  <2> QED BY <1>11, <2>3 DEF TypeOK, RowPanics, Finish, writeTimeout, Ports
<1>12. ASSUME Interrupt PROVE TypeOK'
  BY <1>12 DEF TypeOK, Interrupt, writeTimeout, Ports
<1>13. ASSUME HttpDrained PROVE TypeOK'
  BY <1>13 DEF TypeOK, HttpDrained, writeTimeout, Ports
<1>14. ASSUME HttpsDrained PROVE TypeOK'
  BY <1>14 DEF TypeOK, HttpsDrained, writeTimeout, Ports
<1>15. ASSUME Stop PROVE TypeOK'
  BY <1>15 DEF TypeOK, Stop, EndProcess, Live, writeTimeout, Ports
<1>16. ASSUME Tick PROVE TypeOK'
  <2>1. \A r \in Live : kind[r].timed => clock[r] # DbTimeout
    BY <1>16 DEF Tick, Busy
  <2>2. clock' \in [Requests -> 0..DbTimeout]
    <3>1. ASSUME NEW r \in Requests, r \in Live /\ kind[r].timed
          PROVE  clock[r] + 1 \in 0..DbTimeout
      <4>1. clock[r] # DbTimeout
        BY <3>1, <2>1
      <4> QED BY <4>1 DEF TypeOK
    <3>2. \A r \in Requests : clock[r] \in 0..DbTimeout
      BY DEF TypeOK
    <3> QED BY <1>16, <3>1, <3>2, Zenon DEF Tick
  <2>3. writeTimeout \in Nat
    BY DEF writeTimeout
  <2>4. drain' \in 0..writeTimeout
    BY <1>16, <2>3 DEF Tick, TypeOK, Later
  <2>5. age' \in [Requests -> 0..(writeTimeout + 1)]
    BY <1>16, <2>3 DEF Tick, TypeOK, Later
  <2> QED BY <1>16, <2>2, <2>4, <2>5 DEF Tick, TypeOK, writeTimeout, Ports
<1>17. CASE UNCHANGED vars
  BY <1>17 DEF TypeOK, vars, writeTimeout, Ports
<1> QED
  BY <1>1, <1>2, <1>3, <1>4, <1>5, <1>6, <1>7, <1>8, <1>9, <1>10, <1>11, <1>12,
     <1>13, <1>14, <1>15, <1>16, <1>17 DEF Next, Handler, Database, Shutdown

(* Every step keeps connections in use and lost within the pool. *)
LEMMA PoolNext == TypeOK /\ PoolBounded /\ [Next]_vars => PoolBounded'
<1> SUFFICES ASSUME TypeOK, PoolBounded, [Next]_vars PROVE PoolBounded'
  OBVIOUS
<1> DEFINE Sts == {"new", "waiting", "querying", "writing", "done"}
<1>ty. /\ st \in [Requests -> Sts]
       /\ leaked \in Nat /\ MaxConns \in Nat
       /\ IsFiniteSet(Holders) /\ Cardinality(Holders) \in Nat
  BY LifecycleAssumption, FS_CardinalityType DEF TypeOK, PoolBounded
<1>same. ASSUME Holders' = Holders, leaked' = leaked PROVE PoolBounded'
  BY <1>same DEF PoolBounded
<1>less. ASSUME NEW r \in Requests, NEW s, s # "querying", st[r] = "querying",
                st' = [st EXCEPT ![r] = s], leaked' \in {leaked, leaked + 1}
         PROVE  PoolBounded'
  <2>1. /\ IsFiniteSet(Holders') /\ Cardinality(Holders) \in Nat \ {0}
        /\ Cardinality(Holders') = Cardinality(Holders) - 1
    BY <1>less, <1>ty, OneHolderLess
  <2> QED BY <2>1, <1>less, <1>ty DEF PoolBounded
<1>none. ASSUME NEW how, EndProcess(how) PROVE PoolBounded'
  <2>1. Holders' = {}
    BY <1>none, <1>ty DEF EndProcess, Holders, Live
  <2> QED BY <2>1, <1>none, <1>ty, FS_EmptySet DEF EndProcess, PoolBounded
<1>1. ASSUME NEW p \in Ports, Listen(p) PROVE PoolBounded'
  BY <1>1, <1>same DEF Listen, Holders
<1>2. ASSUME NEW p \in Ports, ListenFails(p) PROVE PoolBounded'
  BY <1>2, <1>none DEF ListenFails
<1>3. ASSUME NEW r \in Requests, NEW p \in Ports, NEW k \in Kinds, Accept(r, p, k)
      PROVE  PoolBounded'
  BY <1>3, <1>same, <1>ty DEF Accept, serverVars, Holders
<1>4. ASSUME NEW r \in Requests, Acquire(r) PROVE PoolBounded'
  <2>1. Holders' = Holders \cup {r} /\ r \notin Holders
    BY <1>4, <1>ty DEF Acquire, Holders
  <2>2. IsFiniteSet(Holders') /\ Cardinality(Holders') = Cardinality(Holders) + 1
    BY <2>1, <1>ty, FS_AddElement
  <2> QED BY <1>4, <2>2, <1>ty DEF Acquire, ConnectionFree, serverVars, PoolBounded
<1>5. ASSUME NEW r \in Requests, AcquireRejected(r) PROVE PoolBounded'
  BY <1>5, <1>same, <1>ty, SameHolders DEF AcquireRejected, Respond, serverVars
<1>6. ASSUME NEW r \in Requests, TimesOut(r) PROVE PoolBounded'
  <2>1. st' = [st EXCEPT ![r] = "writing"] /\ leaked' = leaked
    BY <1>6 DEF TimesOut, Respond, serverVars
  <2>2. CASE st[r] = "querying"
    BY <2>1, <2>2, <1>less
  <2>3. CASE st[r] # "querying"
    BY <2>1, <2>3, <1>same, <1>ty, SameHolders
  <2> QED BY <2>2, <2>3
<1>7. ASSUME NEW r \in Requests, Write(r) PROVE PoolBounded'
  BY <1>7, <1>same, <1>ty, SameHolders DEF Write, Finish, serverVars
<1>8. ASSUME NEW r \in Requests, LastAnswer(r) PROVE PoolBounded'
  BY <1>8, <1>less DEF LastAnswer, Respond, serverVars
<1>9. ASSUME NEW r \in Requests, NextQuery(r) PROVE PoolBounded'
  BY <1>9, <1>less DEF NextQuery, serverVars
<1>10. ASSUME NEW r \in Requests, QueryFails(r) PROVE PoolBounded'
  BY <1>10, <1>less DEF QueryFails, Respond, serverVars
<1>11. ASSUME NEW r \in Requests, RowPanics(r) PROVE PoolBounded'
  BY <1>11, <1>less DEF RowPanics, Finish
<1>12. ASSUME Interrupt \/ HttpDrained \/ HttpsDrained \/ Tick \/ UNCHANGED vars
       PROVE  PoolBounded'
  BY <1>12, <1>same DEF Interrupt, HttpDrained, HttpsDrained, Tick, vars, Holders
<1>13. ASSUME Stop PROVE PoolBounded'
  BY <1>13, <1>none DEF Stop
<1> QED
  BY <1>1, <1>2, <1>3, <1>4, <1>5, <1>6, <1>7, <1>8, <1>9, <1>10, <1>11, <1>12, <1>13
  DEF Next, Handler, Database, Shutdown

(* Every variable has its type, whatever the number of requests; lost      *)
(* connections never outnumber the pool.                                   *)
THEOREM LifecycleTypeCorrect == Spec => [](TypeOK /\ PoolBounded)
<1>1. TypeOK /\ PoolBounded /\ [Next]_vars => (TypeOK /\ PoolBounded)'
  BY TypeNext, PoolNext
<1> QED BY <1>1, LifecycleInit, PTL DEF Spec

-----------------------------------------------------------------------------
(* Timeouts.                                                               *)

(* A tile request under DbTimeout names one layer. *)
SingleLayer == \A k \in Kinds : k.timed => k.queries <= 1

(* While its only query waits or runs, a request is as old as the context  *)
(* of the query; afterwards it is no older than DbTimeout.                 *)
InTime(r) ==
    /\ st[r] = "new" => age[r] = 0 /\ clock[r] = 0
    /\ (st[r] \in {"waiting", "querying"} /\ kind[r].timed) =>
           age[r] = clock[r] /\ left[r] <= 1
    /\ (st[r] = "writing" /\ kind[r].timed) => age[r] <= DbTimeout
    /\ kind[r].timed => answer[r] # "lost"

TimeInv == \A r \in Requests : InTime(r)

(* Before any request there is no age to compare. *)
LEMMA TimeInit == Init => TimeInv
BY DEF Init, TimeInv, InTime, NoKind

(* A step that leaves the requests alone. *)
LEMMA TimeSame ==
    ASSUME TimeInv, UNCHANGED <<st, kind, left, clock, age, answer>>
    PROVE  TimeInv'
BY DEF TimeInv, InTime

(* A response that is not dropped, to a request that is not late. *)
LEMMA TimeRespond ==
    ASSUME TypeOK, TimeInv, NEW r \in Requests, st[r] \in {"waiting", "querying"},
           NEW what, what # "lost", Respond(r, what)
    PROVE  TimeInv'
<1>1. kind[r].timed => age[r] <= DbTimeout
  BY LifecycleAssumption DEF TypeOK, TimeInv, InTime
<1> QED BY <1>1 DEF TypeOK, TimeInv, InTime, Respond

(* The end of the process. *)
LEMMA TimeEnd ==
    ASSUME TypeOK, TimeInv, NEW how, EndProcess(how)
    PROVE  TimeInv'
BY DEF TypeOK, TimeInv, InTime, EndProcess, Live

(* Every step keeps requests as old as the context of their query. *)
LEMMA TimeNext == SingleLayer /\ TypeOK /\ TimeInv /\ [Next]_vars => TimeInv'
<1> SUFFICES ASSUME SingleLayer, TypeOK, TimeInv, [Next]_vars PROVE TimeInv'
  OBVIOUS
<1> USE LifecycleAssumption
<1>1. ASSUME NEW p \in Ports, Listen(p) PROVE TimeInv'
  BY <1>1, TimeSame DEF Listen
<1>2. ASSUME NEW p \in Ports, ListenFails(p) PROVE TimeInv'
  BY <1>2, TimeEnd DEF ListenFails
<1>3. ASSUME NEW r \in Requests, NEW p \in Ports, NEW k \in Kinds, Accept(r, p, k)
      PROVE  TimeInv'
  <2>1. k.queries \in Nat /\ (k.timed => k.queries <= 1)
    BY DEF Kind, SingleLayer
  <2>2. InTime(r)'
    BY <1>3, <2>1 DEF Accept, serverVars, TypeOK, TimeInv, InTime
  <2>3. \A q \in Requests \ {r} : InTime(q)'
    BY <1>3 DEF Accept, serverVars, TypeOK, TimeInv, InTime
  <2> QED BY <2>2, <2>3 DEF TimeInv
<1>4. ASSUME NEW r \in Requests, Acquire(r) PROVE TimeInv'
  BY <1>4 DEF Acquire, serverVars, TypeOK, TimeInv, InTime
<1>5. ASSUME NEW r \in Requests, AcquireRejected(r) PROVE TimeInv'
  BY <1>5, TimeRespond DEF AcquireRejected
<1>6. ASSUME NEW r \in Requests, TimesOut(r) PROVE TimeInv'
  BY <1>6, TimeRespond DEF TimesOut
<1>7. ASSUME NEW r \in Requests, Write(r) PROVE TimeInv'
  <2>1. kind[r].timed => age[r] <= writeTimeout /\ answer[r] # "lost"
    BY <1>7 DEF Write, writeTimeout, TypeOK, TimeInv, InTime
  <2>2. InTime(r)'
    BY <1>7, <2>1 DEF Write, Finish, TypeOK, InTime
  <2>3. \A q \in Requests \ {r} : InTime(q)'
    BY <1>7 DEF Write, Finish, TypeOK, TimeInv, InTime
  <2> QED BY <2>2, <2>3 DEF TimeInv
<1>8. ASSUME NEW r \in Requests, LastAnswer(r) PROVE TimeInv'
  BY <1>8, TimeRespond DEF LastAnswer
<1>9. ASSUME NEW r \in Requests, NextQuery(r) PROVE TimeInv'
  <2>1. ~kind[r].timed
    BY <1>9 DEF NextQuery, TypeOK, TimeInv, InTime
  <2> QED BY <1>9, <2>1 DEF NextQuery, serverVars, TypeOK, TimeInv, InTime
<1>10. ASSUME NEW r \in Requests, QueryFails(r) PROVE TimeInv'
  BY <1>10, TimeRespond DEF QueryFails
<1>11. ASSUME NEW r \in Requests, RowPanics(r) PROVE TimeInv'
  BY <1>11 DEF RowPanics, Finish, TypeOK, TimeInv, InTime
<1>12. ASSUME Interrupt \/ HttpDrained \/ HttpsDrained \/ UNCHANGED vars PROVE TimeInv'
  BY <1>12, TimeSame DEF Interrupt, HttpDrained, HttpsDrained, vars
<1>13. ASSUME Stop PROVE TimeInv'
  BY <1>13, TimeEnd DEF Stop
<1>14. ASSUME Tick PROVE TimeInv'
  <2> SUFFICES ASSUME NEW r \in Requests PROVE InTime(r)'
    BY DEF TimeInv
  <2>0. UNCHANGED <<st, kind, left, answer>> /\ st[r] # "writing"
    BY <1>14 DEF Tick, Busy
  <2>1. CASE st[r] \in {"new", "done"}
    <3>1. r \notin Live
      BY <2>1 DEF Live
    <3>2. clock'[r] = clock[r] /\ age'[r] = age[r]
      BY <1>14, <3>1, Zenon DEF Tick
    <3> QED BY <2>0, <2>1, <3>2 DEF TimeInv, InTime
  <2>2. CASE st[r] \in {"waiting", "querying"} /\ kind[r].timed
    <3>1. r \in Live
      BY <2>2 DEF Live
    <3>2. clock'[r] = clock[r] + 1 /\ age'[r] = Later(age[r], writeTimeout + 1)
      BY <1>14, <2>2, <3>1, Zenon DEF Tick
    <3>3. age[r] = clock[r] /\ age[r] < writeTimeout + 1 /\ age[r] \in Nat
      BY <2>2 DEF TimeInv, InTime, TypeOK, writeTimeout
    <3>4. age'[r] = clock'[r]
      BY <3>2, <3>3 DEF Later
    <3> QED BY <2>0, <2>2, <3>4 DEF TimeInv, InTime
  <2>3. CASE st[r] \in {"waiting", "querying"} /\ ~kind[r].timed
    BY <2>0, <2>3 DEF TimeInv, InTime
  <2> QED BY <2>0, <2>1, <2>2, <2>3 DEF TypeOK
<1> QED
  BY <1>1, <1>2, <1>3, <1>4, <1>5, <1>6, <1>7, <1>8, <1>9, <1>10, <1>11, <1>12,
     <1>13, <1>14 DEF Next, Handler, Database, Shutdown

(* Where tile requests name one layer, the response to one that times out  *)
(* is never dropped: DbTimeout plus any grace period is enough, however    *)
(* long the request waited for a connection.                               *)
THEOREM TimeoutsAlwaysReachTheClient ==
    ASSUME SingleLayer
    PROVE  Spec => []TimeoutsReachTheClient
<1>1. Init => TypeOK /\ PoolBounded /\ TimeInv
  BY LifecycleInit, TimeInit
<1>2. TypeOK /\ PoolBounded /\ TimeInv /\ [Next]_vars => (TypeOK /\ PoolBounded /\ TimeInv)'
  BY SingleLayer, TypeNext, PoolNext, TimeNext
<1>3. TimeInv => TimeoutsReachTheClient
  BY DEF TimeInv, InTime, TimeoutsReachTheClient
<1> QED BY <1>1, <1>2, <1>3, PTL DEF Spec

-----------------------------------------------------------------------------
(* The shutdown of a server without HTTPS.                                 *)

(* A request that was accepted is at least as old as the shutdown, so when *)
(* the time to drain is over none under DbTimeout is left, and when the    *)
(* pool is closed none is served.                                          *)
ShutdownInv ==
    /\ phase = "serving" => drain = 0
    /\ phase # "https"
    /\ \A r \in Requests : port[r] = "http"
    /\ \A r \in Live : (kind[r].timed /\ phase = "http") => drain <= age[r]
    /\ \A r \in Live : phase = "closing" => ~kind[r].timed
    /\ ShutdownServesWhatItAccepted

HttpOnly == Tls = FALSE

(* Nothing shuts down at the start. *)
LEMMA ShutdownInit == Init => ShutdownInv
BY DEF Init, ShutdownInv, ShutdownServesWhatItAccepted, Live, NoKind

(* A step of a request that was live, to an answer a server gives. *)
LEMMA ShutdownStep ==
    ASSUME TypeOK, ShutdownInv, NEW r \in Live, NEW s, NEW what,
           ~kind[r].timed \/ what \notin {"closed", "killed"},
           UNCHANGED <<phase, drain, kind, port, age>>,
           st' = [st EXCEPT ![r] = s], answer' = [answer EXCEPT ![r] = what]
    PROVE  ShutdownInv'
BY DEF TypeOK, ShutdownInv, ShutdownServesWhatItAccepted, Live

(* Every step keeps live requests at least as old as the shutdown. *)
LEMMA ShutdownNext ==
    HttpOnly /\ TypeOK /\ TimeInv /\ ShutdownInv /\ [Next]_vars => ShutdownInv'
<1> SUFFICES ASSUME HttpOnly, TypeOK, TimeInv, ShutdownInv, [Next]_vars PROVE ShutdownInv'
  OBVIOUS
<1> USE LifecycleAssumption
<1>p. Ports = {"http"}
  BY DEF HttpOnly, Ports
<1>young. ASSUME NEW r \in Live, kind[r].timed PROVE age[r] <= DbTimeout
  BY <1>young DEF TypeOK, TimeInv, InTime, Live
<1>same. ASSUME UNCHANGED <<phase, drain, st, kind, port, age, answer>> PROVE ShutdownInv'
  BY <1>same DEF ShutdownInv, ShutdownServesWhatItAccepted, Live
<1>1. ASSUME NEW p \in Ports, Listen(p) PROVE ShutdownInv'
  BY <1>1, <1>same DEF Listen
<1>2. ASSUME NEW p \in Ports, ListenFails(p) PROVE ShutdownInv'
  BY <1>2 DEF ListenFails, EndProcess, ShutdownInv, ShutdownServesWhatItAccepted
<1>3. ASSUME NEW r \in Requests, NEW p \in Ports, NEW k \in Kinds, Accept(r, p, k)
      PROVE  ShutdownInv'
  <2>1. phase = "serving" /\ p = "http"
    BY <1>3, <1>p DEF Accept, ShutDown
  <2>2. phase' = "serving" /\ drain' = 0
    BY <1>3, <2>1 DEF Accept, serverVars, ShutdownInv
  <2>3. \A q \in Requests : port'[q] = "http"
    BY <1>3, <2>1 DEF Accept, TypeOK, ShutdownInv
  <2>4. \A q \in Requests : answer'[q] \notin {"closed", "killed"} \/ (q # r /\ ~kind'[q].timed)
    BY <1>3, <2>1 DEF Accept, TypeOK, ShutdownInv, ShutdownServesWhatItAccepted
  <2> QED BY <2>2, <2>3, <2>4 DEF ShutdownInv, ShutdownServesWhatItAccepted
<1>4. ASSUME NEW r \in Requests, Acquire(r) PROVE ShutdownInv'
  BY <1>4 DEF Acquire, serverVars, TypeOK, ShutdownInv, ShutdownServesWhatItAccepted, Live
<1>5. ASSUME NEW r \in Requests, AcquireRejected(r) PROVE ShutdownInv'
  <2>1. r \in Live /\ phase = "closing"
    BY <1>5 DEF AcquireRejected, PoolClosed, Running, Live
  <2>2. ~kind[r].timed
    BY <2>1 DEF ShutdownInv
  <2> QED BY <1>5, <2>1, <2>2, ShutdownStep DEF AcquireRejected, Respond, serverVars
<1>6. ASSUME NEW r \in Requests, TimesOut(r) PROVE ShutdownInv'
  BY <1>6, ShutdownStep DEF TimesOut, Respond, serverVars, Live
<1>7. ASSUME NEW r \in Requests, Write(r) PROVE ShutdownInv'
  <2>1. r \in Live /\ (~kind[r].timed \/ answer[r] \notin {"closed", "killed"})
    BY <1>7 DEF Write, Running, ShutdownInv, ShutdownServesWhatItAccepted, Live
  <2> QED BY <1>7, <2>1, ShutdownStep DEF Write, Finish, serverVars
<1>8. ASSUME NEW r \in Requests, LastAnswer(r) PROVE ShutdownInv'
  BY <1>8, ShutdownStep DEF LastAnswer, Respond, serverVars, Live
<1>9. ASSUME NEW r \in Requests, NextQuery(r) PROVE ShutdownInv'
  BY <1>9 DEF NextQuery, serverVars, TypeOK, ShutdownInv, ShutdownServesWhatItAccepted, Live
<1>10. ASSUME NEW r \in Requests, QueryFails(r) PROVE ShutdownInv'
  BY <1>10, ShutdownStep DEF QueryFails, Respond, serverVars, Live
<1>11. ASSUME NEW r \in Requests, RowPanics(r) PROVE ShutdownInv'
  BY <1>11, ShutdownStep DEF RowPanics, Finish, Live
<1>12. ASSUME Interrupt PROVE ShutdownInv'
  <2>1. phase' = "http" /\ drain' = 0 /\ UNCHANGED <<st, kind, port, age, answer>>
    BY <1>12 DEF Interrupt, ShutdownInv
  <2>2. \A r \in Requests : 0 <= age[r]
    BY DEF TypeOK
  <2> QED
    BY <1>12, <2>1, <2>2 DEF Interrupt, ShutdownInv, ShutdownServesWhatItAccepted, Live
<1>13. ASSUME HttpDrained PROVE ShutdownInv'
  <2>1. phase = "http" /\ phase' = "closing" /\ UNCHANGED <<drain, st, kind, port, age, answer>>
    BY <1>13 DEF HttpDrained, HttpOnly
  <2>2. ASSUME NEW r \in Live, kind[r].timed PROVE FALSE
    <3>1. r \in Requests /\ port[r] = "http"
      BY DEF Live, ShutdownInv
    <3>2. drain = writeTimeout
      BY <1>13, <3>1 DEF HttpDrained, Drained
    <3>3. drain <= age[r] /\ age[r] <= DbTimeout
      BY <2>1, <2>2, <1>young DEF ShutdownInv
    <3> QED BY <3>1, <3>2, <3>3 DEF TypeOK, writeTimeout
  <2> QED BY <2>1, <2>2 DEF ShutdownInv, ShutdownServesWhatItAccepted, Live
<1>14. ASSUME HttpsDrained PROVE ShutdownInv'
  BY <1>14 DEF HttpsDrained, ShutdownInv
<1>15. ASSUME Stop PROVE ShutdownInv'
  <2>1. \A r \in Live : ~kind[r].timed
    BY <1>15 DEF Stop, ShutdownInv
  <2>2. \A r \in Requests : kind'[r].timed => answer'[r] \notin {"closed", "killed"}
    BY <1>15, <2>1 DEF Stop, EndProcess, TypeOK, ShutdownInv, ShutdownServesWhatItAccepted
  <2> QED BY <1>15, <2>2 DEF Stop, EndProcess, ShutdownInv, ShutdownServesWhatItAccepted
<1>16. ASSUME Tick PROVE ShutdownInv'
  <2>1. UNCHANGED <<phase, st, kind, port, answer>>
    BY <1>16 DEF Tick
  <2>2. phase = "serving" => drain' = 0
    BY <1>16 DEF Tick, ShutdownInv
  <2>3. ASSUME NEW r \in Live, kind[r].timed, phase = "http" PROVE drain' <= age'[r]
    <3>1. r \in Requests
      BY DEF Live
    <3>2. age'[r] = Later(age[r], writeTimeout + 1) /\ drain' = Later(drain, writeTimeout)
      BY <1>16, <2>3, <3>1 DEF Tick
    <3>3. drain <= age[r] /\ age[r] \in Nat /\ drain \in Nat /\ writeTimeout \in Nat
      BY <2>3, <3>1 DEF ShutdownInv, TypeOK, writeTimeout
    <3>4. age[r] <= DbTimeout
      BY <2>3, <1>young
    <3> QED BY <3>2, <3>3, <3>4 DEF Later, writeTimeout
  <2> QED BY <2>1, <2>2, <2>3 DEF ShutdownInv, ShutdownServesWhatItAccepted, Live
<1>17. CASE UNCHANGED vars
  BY <1>17, <1>same DEF vars
<1> QED
  BY <1>1, <1>2, <1>3, <1>4, <1>5, <1>6, <1>7, <1>8, <1>9, <1>10, <1>11, <1>12,
     <1>13, <1>14, <1>15, <1>16, <1>17 DEF Next, Handler, Database, Shutdown

(* Without HTTPS, and with one layer to a request, an orderly shutdown      *)
(* cuts no tile request off, though list requests may outlast the drain.   *)
THEOREM ShutdownAlwaysServes ==
    ASSUME SingleLayer, HttpOnly
    PROVE  Spec => []ShutdownServesWhatItAccepted
<1>1. Init => TypeOK /\ PoolBounded /\ TimeInv /\ ShutdownInv
  BY LifecycleInit, TimeInit, ShutdownInit
<1>2. TypeOK /\ PoolBounded /\ TimeInv /\ ShutdownInv /\ [Next]_vars
          => (TypeOK /\ PoolBounded /\ TimeInv /\ ShutdownInv)'
  BY SingleLayer, HttpOnly, TypeNext, PoolNext, TimeNext, ShutdownNext
<1>3. ShutdownInv => ShutdownServesWhatItAccepted
  BY DEF ShutdownInv
<1> QED BY <1>1, <1>2, <1>3, PTL DEF Spec
=============================================================================
