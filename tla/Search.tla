------------------------------- MODULE Search -------------------------------
(***************************************************************************)
(* POST /api/v1/search: the handler of src/app/api/v1/search.py with its   *)
(* dependencies (authentication, the session of src/app/core/db.py) and    *)
(* the guards of src/app/repositories/search_guards.py, run by concurrent  *)
(* workers over one connection pool.  An ingest takes part as the other    *)
(* user of the pool: it keeps its connection while it embeds.              *)
(*                                                                         *)
(* Time is modelled by what it does.  A call to the embedding backend is   *)
(* long, and so is the hybrid statement where the deployment lets it run   *)
(* as long as the pool waits; every other statement is short.  A wait for  *)
(* a connection can time out only while a holder does something long: that *)
(* many short holders one after the other outlast it is left out.          *)
(***************************************************************************)
EXTENDS Embedding

CONSTANTS
    Workers, Conns,
    Scenarios,     \* what each worker is sent, and how the service is deployed
    NoConn, NoAnswer

MaxTimeout == 60000   \* config.py:169, in milliseconds
PoolWait == 30000     \* QueuePool's own default, which get_engine keeps

Guards == {"iterative_scan", "max_scan_tuples", "statement_timeout"}

ASSUME PoolAssumption == NoConn \notin Conns

ASSUME ScenarioAssumption ==
    \A s \in Scenarios :
        /\ s.deployment.autocommit \in BOOLEAN
        /\ s.deployment.preset \in SUBSET Guards
        /\ s.deployment.vectorWeight \in Nat   \* in units, 0 turns the arm off
        /\ s.deployment.timeout \in 1..MaxTimeout
        /\ \A w \in Workers :
              /\ s.plan[w].kind \in {"none", "search", "ingest"}
              /\ s.plan[w].key \in {"valid", "unknown", "missing"}
              /\ s.plan[w].text \in {"plain", "nul", "invalid"}
              /\ s.plan[w].reply \in Replied

VARIABLES
    plan,        \* the request of each worker, with the backend's reply to it
    deployment,  \* the settings the handler reads, and the database's defaults
    pc,          \* the statement each worker runs next
    conn,        \* the connection each worker's session has checked out
    local,       \* the SET LOCAL settings of each connection's transaction
    answer       \* the response of each worker

vars == <<plan, deployment, pc, conn, local, answer>>

Refusals ==
    {"no_key", "bad_key", "invalid", "backend", "unguarded", "bad_data",
     "canceled", "database", "pool_timeout"}

Marks == {"retry_after", "degraded"}

Init ==
    /\ \E s \in Scenarios : plan = s.plan /\ deployment = s.deployment
    /\ pc = [w \in Workers |-> IF plan[w].kind = "none" THEN "done" ELSE "new"]
    /\ conn = [w \in Workers |-> NoConn]
    /\ local = [c \in Conns |-> {}]
    /\ answer = [w \in Workers |-> NoAnswer]

(* Fault: one session serves every request. *)
FaultShared(c) == TRUE

Idle(c) == \A w \in Workers : conn[w] # c

(* The worker waits for the embedding backend. *)
AwaitsBackend(w) == pc[w] \in {"embed", "ingest"}

(* The worker may keep its connection for as long as the pool waits.       *)
HoldsLong(w) ==
    /\ conn[w] # NoConn
    /\ \/ AwaitsBackend(w)
       \/ pc[w] = "hybrid" /\ deployment.timeout >= PoolWait

Goto(w, l) == pc' = [pc EXCEPT ![w] = l]

(* Every outcome goes through get_db's finally clause. *)
Answer(w, status, marks, why) ==
    /\ answer' = [answer EXCEPT ![w] = [status |-> status, marks |-> marks,
                                        why |-> why]]
    /\ Goto(w, "close")

(* A transaction begins with nothing set locally. *)
CheckOut(w, c) ==
    /\ Idle(c)
    /\ conn' = [conn EXCEPT ![w] = c]

(* The end of a transaction ends its SET LOCALs and returns the connection. *)
GiveBack(w) ==
    /\ conn' = [conn EXCEPT ![w] = NoConn]
    /\ local' = [c \in Conns |-> IF c = conn[w] THEN {} ELSE local[c]]

-----------------------------------------------------------------------------
(* get_current_client *)

Receive(w) ==
    /\ pc[w] = "new"
    /\ IF plan[w].key = "missing"
       THEN Answer(w, 401, {}, "no_key")
       ELSE Goto(w, "auth") /\ UNCHANGED answer
    /\ UNCHANGED <<plan, deployment, conn, local>>

(* The body has been parsed before, but FastAPI reports an invalid one     *)
(* only after the dependencies have run.                                   *)
Authenticate(w) ==
    /\ pc[w] = "auth"
    /\ \E c \in Conns : CheckOut(w, c)
    /\ \/ plan[w].key = "unknown" /\ Answer(w, 401, {}, "bad_key")
       \/ /\ plan[w].key = "valid" /\ plan[w].text = "invalid"
          /\ Answer(w, 422, {}, "invalid")
       \/ /\ plan[w].key = "valid" /\ plan[w].text # "invalid"
          /\ Goto(w, IF plan[w].kind = "ingest" THEN "ingest" ELSE "route")
          /\ UNCHANGED answer
    /\ UNCHANGED <<plan, deployment, local>>

(* QueuePool gives up after its timeout; no handler of errors.py matches. *)
PoolTimeout(w) ==
    /\ pc[w] \in {"auth", "guards"}
    /\ \A c \in Conns : ~Idle(c)
    /\ \E v \in Workers : HoldsLong(v)
    /\ Answer(w, 500, {}, "pool_timeout")
    /\ UNCHANGED <<plan, deployment, conn, local>>

-----------------------------------------------------------------------------
(* search_passages *)

(* Fault: the transaction of the authentication is left open. *)
FaultNoCommit(w) ==
    /\ pc[w] = "route"
    /\ Goto(w, IF deployment.vectorWeight > 0 THEN "embed" ELSE "guards")
    /\ UNCHANGED <<plan, deployment, conn, local, answer>>

EndAuthRead(w) ==
    /\ pc[w] = "route"
    /\ GiveBack(w)
    /\ Goto(w, IF deployment.vectorWeight > 0 THEN "embed" ELSE "guards")
    /\ UNCHANGED <<plan, deployment, answer>>

(* Fault: every class of embedding error degrades the search. *)
FaultDegradesAlways(r) == Outcome(r) # "vector"

(* Only the base class of the embedding errors degrades the search. *)
Degrades(r) == Outcome(r) = "unavailable"

EmbedQuery(w) ==
    /\ pc[w] = "embed"
    /\ LET r == plan[w].reply IN
       IF Outcome(r) = "vector" \/ Degrades(r)
       THEN Goto(w, "guards") /\ UNCHANGED answer
       ELSE Answer(w, BackendFailure(Outcome(r)).status,
                   BackendFailure(Outcome(r)).marks, "backend")
    /\ UNCHANGED <<plan, deployment, conn, local>>

(* set_config(..., true): for the transaction, or, where every statement   *)
(* is a transaction of its own, for that statement.                        *)
ApplyGuards(w) ==
    /\ pc[w] = "guards"
    /\ \E c \in Conns :
          /\ CheckOut(w, c)
          /\ local' = [local EXCEPT ![c] = IF deployment.autocommit THEN {}
                                           ELSE Guards]
    /\ Goto(w, "readback")
    /\ UNCHANGED <<plan, deployment, answer>>

(* What holds on a connection: its transaction's own settings over those   *)
(* the database or the role has been given.                                *)
Effective(c) == local[c] \union deployment.preset

UnitSizes == {1000, 60000, 3600000}    \* s, min, h

(* A shown duration is a number of units and the size of the unit; the     *)
(* size 0 stands for no unit, which PostgreSQL writes after a zero.        *)
(* It takes the largest unit that divides the value.                       *)
Dividing(ms) == {u \in UnitSizes : ms % u = 0}

Largest(sizes) == CHOOSE x \in sizes : \A y \in sizes : y <= x

Shown(ms) ==
    IF ms = 0 THEN <<0, 0>>
    ELSE IF Dividing(ms) = {} THEN <<ms, 1>>
    ELSE <<ms \div Largest(Dividing(ms)), Largest(Dividing(ms))>>

TimeoutSpellings(ms) ==
    IF ms = 0 THEN {<<0, 0>>, <<0, 1>>}
    ELSE {<<ms, 1>>} \union {<<ms \div u, u>> : u \in Dividing(ms)}

(* Fault: the settings are read back by the statement that sets them. *)
FaultTookEffect(c) == TRUE

TookEffect(c) ==
    /\ Guards \subseteq Effective(c)
    /\ Shown(deployment.timeout) \in TimeoutSpellings(deployment.timeout)

ReadBack(w) ==
    /\ pc[w] = "readback"
    /\ IF TookEffect(conn[w])
       THEN Goto(w, "hybrid") /\ UNCHANGED answer
       ELSE Answer(w, 500, {}, "unguarded")
    /\ UNCHANGED <<plan, deployment, conn, local>>

(* A NUL in the query text is refused when the parameter is adapted. *)
RunHybrid(w) ==
    /\ pc[w] = "hybrid"
    /\ \/ plan[w].text = "nul" /\ Answer(w, 400, {}, "bad_data")
       \/ /\ plan[w].text # "nul"
          /\ \/ Answer(w, 200,
                       IF deployment.vectorWeight > 0 /\ Degrades(plan[w].reply)
                       THEN {"degraded"} ELSE {}, "results")
             \/ Answer(w, 503, {}, "canceled")
    /\ UNCHANGED <<plan, deployment, conn, local>>

(* The ingest handler, as far as the pool sees it. *)
EndIngest(w) ==
    /\ pc[w] = "ingest"
    /\ LET outcome == Outcome(plan[w].reply) IN
       IF outcome = "vector" THEN Answer(w, 200, {}, "results")
       ELSE Answer(w, BackendFailure(outcome).status,
                   BackendFailure(outcome).marks, "backend")
    /\ UNCHANGED <<plan, deployment, conn, local>>

(* The database cannot be reached, or drops the connection, at a statement *)
(* or at a commit; the connection goes back with the session.              *)
DatabaseFails(w) ==
    /\ pc[w] \in {"auth", "route", "guards", "readback", "hybrid", "ingest"}
    /\ Answer(w, 503, {"retry_after"}, "database")
    /\ UNCHANGED <<plan, deployment, conn, local>>

(* Fault: the session is not closed. *)
FaultClose(w) ==
    /\ pc[w] = "close"
    /\ Goto(w, "done")
    /\ UNCHANGED <<plan, deployment, conn, local, answer>>

(* get_db: rollback, and back to the pool. *)
Close(w) ==
    /\ pc[w] = "close"
    /\ GiveBack(w)
    /\ Goto(w, "done")
    /\ UNCHANGED <<plan, deployment, answer>>

Serve(w) ==
    \/ Authenticate(w) \/ PoolTimeout(w) \/ EndAuthRead(w) \/ EmbedQuery(w)
    \/ ApplyGuards(w) \/ ReadBack(w) \/ RunHybrid(w) \/ EndIngest(w)
    \/ DatabaseFails(w) \/ Close(w)

Next == \E w \in Workers : Receive(w) \/ Serve(w)

Spec == Init /\ [][Next]_vars

-----------------------------------------------------------------------------
PCs == {"new", "auth", "route", "embed", "guards", "readback", "hybrid",
        "ingest", "close", "done"}

Codes == {200, 400, 401, 422, 500, 503}

Response ==
    [status: Codes, marks: SUBSET Marks,
     why: Refusals \union {"results"}]

(* Every variable has its type, and the workers' connections are distinct. *)
TypeOK ==
    /\ pc \in [Workers -> PCs]
    /\ conn \in [Workers -> Conns \union {NoConn}]
    /\ local \in [Conns -> SUBSET Guards]
    /\ answer \in [Workers -> Response \union {NoAnswer}]
    /\ \A v, w \in Workers : conn[v] = conn[w] /\ conn[v] # NoConn => v = w

(* No number of searches that wait for a slow backend makes a request time *)
(* out on the connection pool (search.py:59-74).  Only an ingest can,      *)
(* which keeps its connection while it embeds, or a deployment that lets   *)
(* the hybrid statement itself run as long as the pool waits.              *)
SearchesDoNotStarveSearches ==
    (\E w \in Workers : answer[w] # NoAnswer /\ answer[w].why = "pool_timeout")
        => \/ \E v \in Workers : plan[v].kind = "ingest"
           \/ deployment.timeout >= PoolWait

(* The hybrid statement only ever runs with all three guards in effect;    *)
(* they reach neither the connections in the pool nor another request's    *)
(* statements; and a setting that did take effect is never refused         *)
(* (search_guards.py:51-128).                                              *)
GuardsCoverSearchOnly ==
    /\ \A w \in Workers :
          pc[w] = "hybrid" => Guards \subseteq Effective(conn[w])
    /\ \A c \in Conns : Idle(c) => local[c] = {}
    /\ \A w \in Workers :
          pc[w] \in {"route", "ingest"} => local[conn[w]] = {}
    /\ \A w \in Workers :
          answer[w] # NoAnswer /\ answer[w].why = "unguarded"
              => deployment.autocommit

(* A backend that may recover: no answer, a fault of the running model, or *)
(* a status that says so.  501 and 505 are permanent.                      *)
MayRecover(r) ==
    \/ r.ending \in {"transport", "runtime_fault"}
    \/ r.ending = "status" /\ r.code \in ({408, 429} \union (500..504)) \ {501}

(* A search is answered degraded exactly when the backend may recover; a   *)
(* wrong answer or a misconfiguration is never hidden behind a 200, and    *)
(* one that no retry can mend does not advertise a retry (search.py:80-89, *)
(* errors.py:49-65).                                                       *)
DegradedMeansTransient ==
    \A w \in Workers : answer[w] # NoAnswer /\ plan[w].kind = "search" =>
        LET r == plan[w].reply IN
        /\ answer[w].why = "results" =>
              /\ "degraded" \in answer[w].marks
                    <=> deployment.vectorWeight > 0 /\ MayRecover(r)
              /\ deployment.vectorWeight > 0 =>
                    MayRecover(r) \/ r.ending = "vectors"
        /\ answer[w].why = "backend" =>
              /\ ~MayRecover(r)
              /\ "retry_after" \in answer[w].marks
                    => r.ending \in {"unreadable", "vectors"}

(* A vector that was taken for the query, or stored by an ingest, has the  *)
(* width of the column, only components float4 can hold, and a norm that   *)
(* pgvector computes as other than zero: no cosine distance to it is NaN   *)
(* for want of a norm (embedding_validation.py:99-170).  Several comments  *)
(* still say otherwise: see UnderflowPassesValidation.                     *)
AcceptedVectorsAreStorable ==
    \A w \in Workers :
        LET r == plan[w].reply IN
        /\ answer[w] # NoAnswer
        /\ answer[w].why = "results" /\ "degraded" \notin answer[w].marks
        /\ plan[w].kind = "ingest" \/ deployment.vectorWeight > 0
        => /\ Len(r.vectors) = 1 /\ Len(r.vectors[1]) = EmbeddingDimension
           /\ \A i \in 1..EmbeddingDimension :
                 r.vectors[1][i].kind \in {"power", "zero"}
           /\ \A i \in 1..EmbeddingDimension :
                 r.vectors[1][i].kind = "power" =>
                     r.vectors[1][i].exp <= MaxExponent
           /\ ~StoredNormIsZero(r.vectors[1])

(* What comments of the repository say of Python's validation: that it is  *)
(* done in float64 and accepts a vector whose components are subnormal, or *)
(* whose squares underflow float32, and which therefore has no norm once   *)
(* stored (passage_search.py:116-119, models/passage.py:64-67).  So such a *)
(* vector, usable component by component and not zero itself, should not   *)
(* be what a request fails on.                                             *)
UnderflowPassesValidation ==
    \A w \in Workers :
        LET v == plan[w].reply.vectors[1] IN
        /\ answer[w] # NoAnswer
        /\ plan[w].reply.ending = "vectors" /\ Len(plan[w].reply.vectors) = 1
        /\ Len(v) = EmbeddingDimension
        /\ \A i \in 1..EmbeddingDimension : ~ComponentFault(v[i])
        /\ \E i \in 1..EmbeddingDimension : v[i].kind = "power"
        /\ StoredNormIsZero(v)
        => answer[w].why # "backend"

=============================================================================
