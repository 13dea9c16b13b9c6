-------------------------- MODULE ServerLifecycle --------------------------
(***************************************************************************)
(* The life of pg_tileserv between handleRequests and "Server stopped."    *)
(* (main.go): requests on two listeners share a pool of database           *)
(* connections (db.go), run against timeouts, and meet an orderly          *)
(* shutdown.                                                               *)
(*                                                                         *)
(* Every layer of a tile request runs one query under a timeout of its     *)
(* own, DbTimeout.  List, detail and preview requests query under          *)
(* context.Background(), without one.  The HTTP server drops a response    *)
(* that is not written within writeTimeout of the request, but it does not *)
(* stop the handler.  An interrupt shuts down the HTTP server, then the    *)
(* HTTPS server, both within one writeTimeout, and then closes the pool,   *)
(* which waits for every connection to come back.                          *)
(*                                                                         *)
(* Time is counted in whole units, passed by Tick.  Only the database      *)
(* takes time: what the process does by itself happens before the next     *)
(* tick.                                                                   *)
(*                                                                         *)
(* An operator X_Something is X with a plausible mistake: replaced by it,  *)
(* a property of this module fails.                                        *)
(***************************************************************************)
EXTENDS Integers, FiniteSets

CONSTANTS
    Requests,       \* the requests clients send, one each
    Kinds,          \* the kinds of requests sent
    Tls,            \* are a certificate and a key configured?
    MaxConns,       \* DbPoolMaxConns
    DbTimeout,      \* the setting of that name
    Grace           \* the 5 seconds writeTimeout adds to it

(* A request runs a number of queries, each under DbTimeout or not; the    *)
(* last may panic while its rows are decoded (getFunctionLayers).          *)
Kind == [queries : Nat, timed : BOOLEAN, panics : BOOLEAN]

ASSUME LifecycleAssumption ==
    /\ Kinds \subseteq Kind
    /\ Tls \in BOOLEAN
    /\ MaxConns \in Nat \ {0}
    /\ DbTimeout \in Nat
    /\ Grace \in Nat \ {0}

(* the grace period shortens the time a response has *)
writeTimeout_Shortened == DbTimeout - Grace
writeTimeout == DbTimeout + Grace

Ports == IF Tls THEN {"http", "https"} ELSE {"http"}
NoKind == [queries |-> 0, timed |-> FALSE, panics |-> FALSE]

VARIABLES
    phase,      \* main: "serving", "http", "https", "closing", "stopped", "exited"
    listening,  \* the ports whose listener is open
    leaked,     \* connections no request will give back
    drain,      \* time since the interrupt, up to writeTimeout
    st,         \* each request: "new", "waiting", "querying", "writing", "done"
    kind,       \* what it asks for
    port,       \* where it came in
    left,       \* queries it has still to run
    clock,      \* time since the context of its query was made
    age,        \* time since the request, up to one more than writeTimeout
    answer      \* what the client gets

serverVars == <<phase, listening, leaked, drain>>
vars == <<phase, listening, leaked, drain, st, kind, port, left, clock, age, answer>>

Init ==
    /\ phase = "serving"
    /\ listening = {}
    /\ leaked = 0
    /\ drain = 0
    /\ st = [r \in Requests |-> "new"]
    /\ kind = [r \in Requests |-> NoKind]
    /\ port = [r \in Requests |-> "http"]
    /\ left = [r \in Requests |-> 0]
    /\ clock = [r \in Requests |-> 0]
    /\ age = [r \in Requests |-> 0]
    /\ answer = [r \in Requests |-> "none"]

Live == {r \in Requests : st[r] \in {"waiting", "querying", "writing"}}
Holders == {r \in Requests : st[r] = "querying"}
Running == phase \notin {"stopped", "exited"}
PoolClosed == phase \in {"closing", "stopped"}
ConnectionFree == Cardinality(Holders) + leaked < MaxConns

(* Shutdown closes the listener of its server first. *)
ShutDown(p) ==
    \/ p = "http" /\ phase # "serving"
    \/ p = "https" /\ phase \notin {"serving", "http"}

-----------------------------------------------------------------------------
(* The listeners *)

Listen(p) ==
    /\ Running /\ ~ShutDown(p) /\ p \notin listening
    /\ listening' = listening \cup {p}
    /\ UNCHANGED <<phase, leaked, drain, st, kind, port, left, clock, age, answer>>

(* The process ends, and with it every request it is serving. *)
EndProcess(how) ==
    /\ phase' = how
    /\ listening' = {}
    /\ st' = [r \in Requests |-> IF r \in Live THEN "done" ELSE st[r]]
    /\ answer' = [r \in Requests |-> IF r \in Live THEN "killed" ELSE answer[r]]
    /\ UNCHANGED <<leaked, drain, kind, port, left, clock, age>>

(* An address in use or a bad certificate is fatal, also to the other port. *)
ListenFails(p) ==
    /\ Running /\ ~ShutDown(p) /\ p \notin listening
    /\ EndProcess("exited")

-----------------------------------------------------------------------------
(* The requests *)

Finish(r, what) ==
    /\ st' = [st EXCEPT ![r] = "done"]
    /\ answer' = [answer EXCEPT ![r] = what]
    /\ clock' = [clock EXCEPT ![r] = 0]
    /\ UNCHANGED <<kind, port, left, age>>

Respond(r, what) ==
    /\ st' = [st EXCEPT ![r] = "writing"]
    /\ answer' = [answer EXCEPT ![r] = what]
    /\ clock' = [clock EXCEPT ![r] = 0]
    /\ UNCHANGED <<kind, port, left, age>>

(* A request comes in, and its first query waits for a connection. *)
Accept(r, p, k) ==
    /\ Running /\ p \in listening /\ ~ShutDown(p)
    /\ st[r] = "new"
    /\ kind' = [kind EXCEPT ![r] = k]
    /\ port' = [port EXCEPT ![r] = p]
    /\ left' = [left EXCEPT ![r] = k.queries]
    /\ st' = [st EXCEPT ![r] = IF k.queries = 0 THEN "writing" ELSE "waiting"]
    /\ answer' = [answer EXCEPT ![r] = IF k.queries = 0 THEN "ok" ELSE "none"]
    /\ UNCHANGED <<serverVars, clock, age>>

(* DbPoolMaxConns is not passed on to the pool *)
Acquire_NoLimit(r) ==
    /\ Running /\ st[r] = "waiting"
    /\ ~PoolClosed
    /\ st' = [st EXCEPT ![r] = "querying"]
    /\ UNCHANGED <<serverVars, kind, port, left, clock, age, answer>>

Acquire(r) ==
    /\ Running /\ st[r] = "waiting"
    /\ ~PoolClosed /\ ConnectionFree
    /\ st' = [st EXCEPT ![r] = "querying"]
    /\ UNCHANGED <<serverVars, kind, port, left, clock, age, answer>>

(* A closed pool hands out nothing. *)
AcquireRejected(r) ==
    /\ Running /\ st[r] = "waiting"
    /\ PoolClosed
    /\ Respond(r, "closed")
    /\ UNCHANGED serverVars

(* The last query is answered, and its connection given back. *)
LastAnswer(r) ==
    /\ Running /\ st[r] = "querying" /\ left[r] = 1
    /\ Respond(r, "ok")
    /\ UNCHANGED serverVars

(* the rows of a query stay open while the next one runs *)
NextQuery_RowsOpen(r) ==
    /\ Running /\ st[r] = "querying" /\ left[r] > 1
    /\ left' = [left EXCEPT ![r] = @ - 1]
    /\ leaked' = leaked + 1
    /\ clock' = [clock EXCEPT ![r] = 0]
    /\ st' = [st EXCEPT ![r] = "waiting"]
    /\ UNCHANGED <<phase, listening, drain, kind, port, age, answer>>

(* A query is answered and another follows: requestTiles calls requestTile *)
(* for the next layer, which makes a context of its own; getTableLayers is *)
(* followed by getFunctionLayers.                                          *)
NextQuery(r) ==
    /\ Running /\ st[r] = "querying" /\ left[r] > 1
    /\ left' = [left EXCEPT ![r] = @ - 1]
    /\ clock' = [clock EXCEPT ![r] = 0]
    /\ st' = [st EXCEPT ![r] = "waiting"]
    /\ UNCHANGED <<serverVars, kind, port, age, answer>>

(* a failed query keeps its connection *)
QueryFails_Leaks(r) ==
    /\ Running /\ st[r] = "querying"
    /\ leaked' = leaked + 1
    /\ Respond(r, "error")
    /\ UNCHANGED <<phase, listening, drain>>

QueryFails(r) ==
    /\ Running /\ st[r] = "querying"
    /\ Respond(r, "error")
    /\ UNCHANGED serverVars

(* The context of the query is over, whether the query was still waiting   *)
(* for a connection or running on one; the connection is dropped.          *)
TimesOut(r) ==
    /\ Running /\ st[r] \in {"waiting", "querying"}
    /\ kind[r].timed /\ clock[r] = DbTimeout
    /\ Respond(r, "timeout")
    /\ UNCHANGED serverVars

(* A panic while the rows are open: net/http ends the connection to the    *)
(* client, and nobody closes the rows.                                     *)
RowPanics(r) ==
    /\ Running /\ st[r] = "querying" /\ left[r] = 1 /\ kind[r].panics
    /\ leaked' = leaked + 1
    /\ Finish(r, "aborted")
    /\ UNCHANGED <<phase, listening, drain>>

(* The response is written in time, or dropped. *)
Write(r) ==
    /\ Running /\ st[r] = "writing"
    /\ Finish(r, IF age[r] <= writeTimeout THEN answer[r] ELSE "lost")
    /\ UNCHANGED serverVars

-----------------------------------------------------------------------------
(* The shutdown *)

(* The first interrupt; later ones are taken from the system and ignored. *)
Interrupt ==
    /\ phase = "serving"
    /\ phase' = "http"
    /\ listening' = listening \ {"http"}
    /\ UNCHANGED <<leaked, drain, st, kind, port, left, clock, age, answer>>

(* Close is called instead of Shutdown *)
Drained_AtOnce(p) == TRUE
Drained(p) == (\A r \in Live : port[r] # p) \/ drain = writeTimeout

HttpDrained ==
    /\ phase = "http" /\ Drained("http")
    /\ phase' = IF Tls THEN "https" ELSE "closing"
    /\ listening' = listening \ {"https"}
    /\ UNCHANGED <<leaked, drain, st, kind, port, left, clock, age, answer>>

HttpsDrained ==
    /\ phase = "https" /\ Drained("https")
    /\ phase' = "closing"
    /\ UNCHANGED <<listening, leaked, drain, st, kind, port, left, clock, age, answer>>

PoolEmpty == Holders = {} /\ leaked = 0

Stop ==
    /\ phase = "closing" /\ PoolEmpty
    /\ EndProcess("stopped")

-----------------------------------------------------------------------------
(* Time *)

(* Something the process does by itself is still to be done. *)
Busy ==
    \/ \E r \in Requests : st[r] = "writing"
    \/ \E r \in Requests : st[r] = "waiting" /\ (PoolClosed \/ ConnectionFree)
    \/ \E r \in Live : kind[r].timed /\ clock[r] = DbTimeout
    \/ phase = "http" /\ Drained("http")
    \/ phase = "https" /\ Drained("https")
    \/ phase = "closing" /\ PoolEmpty

(* The ages stop where a greater one would make no difference. *)
Later(t, top) == IF t < top THEN t + 1 ELSE t

Tick ==
    /\ Running /\ ~Busy
    /\ clock' = [r \in Requests |->
                    IF r \in Live /\ kind[r].timed THEN clock[r] + 1 ELSE clock[r]]
    /\ age' = [r \in Requests |->
                    IF r \in Live THEN Later(age[r], writeTimeout + 1) ELSE age[r]]
    /\ drain' = IF phase = "serving" THEN drain ELSE Later(drain, writeTimeout)
    /\ UNCHANGED <<phase, listening, leaked, st, kind, port, left, answer>>

-----------------------------------------------------------------------------
(* What the database does with a query *)
Database(r) == LastAnswer(r) \/ NextQuery(r) \/ QueryFails(r) \/ RowPanics(r)

(* What the process does for a request by itself *)
Handler(r) == Acquire(r) \/ AcquireRejected(r) \/ TimesOut(r) \/ Write(r)

Shutdown == HttpDrained \/ HttpsDrained \/ Stop

Next ==
    \/ \E p \in Ports : Listen(p) \/ ListenFails(p)
    \/ \E r \in Requests, p \in Ports, k \in Kinds : Accept(r, p, k)
    \/ \E r \in Requests : Handler(r) \/ Database(r)
    \/ Interrupt
    \/ Shutdown
    \/ Tick

Spec == Init /\ [][Next]_vars

(* The scheduler runs every goroutine that can run, time goes on, and the  *)
(* pool serves its waiters in turn.  The database answers queries about    *)
(* its catalogue; a tile query may run for ever.                           *)
FairSpec ==
    /\ Spec
    /\ \A r \in Requests : /\ WF_vars(Handler(r)) /\ SF_vars(Acquire(r))
                           /\ WF_vars(~kind[r].timed /\ Database(r))
    /\ WF_vars(Shutdown)
    /\ WF_vars(Tick)

-----------------------------------------------------------------------------
(* Properties *)

TypeOK ==
    /\ phase \in {"serving", "http", "https", "closing", "stopped", "exited"}
    /\ listening \subseteq Ports
    /\ leaked \in 0..MaxConns
    /\ drain \in 0..writeTimeout
    /\ st \in [Requests -> {"new", "waiting", "querying", "writing", "done"}]
    /\ kind \in [Requests -> Kinds \cup {NoKind}]
    /\ port \in [Requests -> Ports]
    /\ left \in [Requests -> Nat]
    /\ clock \in [Requests -> 0..DbTimeout]
    /\ age \in [Requests -> 0..(writeTimeout + 1)]
    /\ answer \in [Requests ->
           {"none", "ok", "error", "timeout", "closed", "aborted", "lost", "killed"}]

(* "The additional time allows the application to gracefully handle        *)
(* timeouts on its own, canceling outstanding database queries and         *)
(* returning an error to the client" (main.go:526-528): the response of a  *)
(* request whose queries run under DbTimeout is never dropped.             *)
TimeoutsReachTheClient ==
    \A r \in Requests : kind[r].timed => answer[r] # "lost"

(* An orderly shutdown cuts no request off that runs under DbTimeout: none *)
(* finds the pool closed, and none dies with the process (main.go:591-601, *)
(* the pool is closed after the servers have drained).                     *)
ShutdownServesWhatItAccepted ==
    phase # "exited" =>
        \A r \in Requests : kind[r].timed => answer[r] \notin {"closed", "killed"}

(* After an interrupt the process ends (handleRequests). *)
InterruptEndsTheProcess == phase = "http" ~> ~Running

(* Every request is answered, by the database or by its timeout: none that *)
(* runs or fails keeps the pool from those that wait (dBTileRequest).      *)
EveryRequestIsAnswered == \A r \in Requests : (st[r] = "waiting") ~> (st[r] = "done")
=============================================================================
