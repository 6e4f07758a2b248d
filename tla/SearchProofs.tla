---------------------------- MODULE SearchProofs ----------------------------
(***************************************************************************)
(* Theorems about Search and SearchService, for every pool of connections, *)
(* every set of workers and every choice of requests, replies and          *)
(* deployments and bodies within ScenarioAssumption and BodiesAssumption.  *)
(***************************************************************************)
EXTENDS SearchService, SequenceTheorems, WellFoundedInduction, TLAPS

-----------------------------------------------------------------------------
(* Replies of the embedding backend. *)

(* Only a reply that may turn out better later is "unavailable", and only  *)
(* vectors become one.                                                     *)
LEMMA OutcomeOfReply ==
    ASSUME NEW r \in Replied
    PROVE  /\ Outcome(r) \in {"vector", "unavailable", "bad_response", "misconfigured"}
           /\ Outcome(r) = "unavailable" <=> MayRecover(r)
           /\ Outcome(r) = "vector" =>
                 r.ending = "vectors" /\ Len(r.vectors) = 1 /\ Validated(r.vectors[1])
           /\ Outcome(r) = "bad_response" => r.ending \in {"unreadable", "vectors"}
  <1>1. CASE r.ending \in {"missing_extra", "unloadable", "invalid_url"}
    BY <1>1 DEF Outcome, MayRecover
  <1>2. CASE r.ending = "status"
    <2>1. r.code \in Nat
      BY DEF Replied
    <2>2. r.code \in TransientStatuses
            <=> r.code \in ({408, 429} \union (500..504)) \ {501}
      BY <2>1 DEF TransientStatuses
    <2>3. Outcome(r) = IF r.code \in TransientStatuses THEN "unavailable"
                                                       ELSE "misconfigured"
      BY <1>2 DEF Outcome
    <2> QED BY <1>2, <2>2, <2>3 DEF MayRecover
  <1>3. CASE r.ending \in {"transport", "runtime_fault"}
    BY <1>3 DEF Outcome, MayRecover
  <1>4. CASE r.ending = "unreadable"
    BY <1>4 DEF Outcome, MayRecover
  <1>5. CASE r.ending = "vectors"
    <2>1. Outcome(r) = IF Len(r.vectors) = 1 /\ Validated(r.vectors[1])
                       THEN "vector" ELSE "bad_response"
      BY <1>5 DEF Outcome
    <2> QED BY <1>5, <2>1 DEF MayRecover
  <1>6. r.ending \in Endings
    BY DEF Replied
  <1> QED BY <1>1, <1>2, <1>3, <1>4, <1>5, <1>6 DEF Endings

(* Flushing subnormals before they are squared changes no verdict that     *)
(* pgvector's own arithmetic would reach: their squares underflow anyway.  *)
LEMMA NormSurvivesStorage ==
    ASSUME NEW v \in Seq(Component), ~ZeroNorm(v)
    PROVE  ~StoredNormIsZero(v)
  <1>1. PICK i \in 1..Len(v) :
            AsFloat32(SquareOf(Flushed32(AsFloat32(v[i])))).kind # "zero"
    BY DEF ZeroNorm
  <1> DEFINE x == AsFloat32(v[i])
  <1>2. Flushed32(x) = x
    <2>1. SUFFICES ASSUME Flushed32(x) # x PROVE FALSE
      OBVIOUS
    <2>2. Flushed32(x) = Zero
      BY <2>1 DEF Flushed32
    <2>3. AsFloat32(SquareOf(Zero)).kind = "zero"
      BY DEF AsFloat32, SquareOf, Zero
    <2> QED BY <1>1, <2>2, <2>3
  <1> QED BY <1>1, <1>2 DEF StoredNormIsZero

LEMMA ValidatedIsStorable ==
    ASSUME NEW v \in Seq(Component), Validated(v)
    PROVE  /\ Len(v) = EmbeddingDimension
           /\ \A i \in 1..EmbeddingDimension : v[i].kind \in {"power", "zero"}
           /\ \A i \in 1..EmbeddingDimension :
                 v[i].kind = "power" => v[i].exp <= MaxExponent
           /\ ~StoredNormIsZero(v)
  <1>1. /\ Len(v) = EmbeddingDimension
        /\ \A i \in 1..Len(v) : ~ComponentFault(v[i])
        /\ ~ZeroNorm(v)
    BY DEF Validated
  <1>2. ASSUME NEW i \in 1..EmbeddingDimension
        PROVE  /\ v[i].kind \in {"power", "zero"}
               /\ v[i].kind = "power" => v[i].exp <= MaxExponent
    <2>1. v[i] \in Component
      BY <1>1
    <2>2. ~ComponentFault(v[i])
      BY <1>1
    <2>3. v[i].exp \in Int /\ MaxExponent \in Int
      BY <2>1 DEF Component, MaxExponent
    <2> QED BY <2>1, <2>2, <2>3 DEF Component, ComponentFault
  <1>3. ~StoredNormIsZero(v)
    BY <1>1, NormSurvivesStorage
  <1> QED BY <1>1, <1>2, <1>3

LEMMA LargestIsOne ==
    ASSUME NEW D, \E x \in D : \A y \in D : y <= x
    PROVE  Largest(D) \in D
  BY DEF Largest

(* The read-back knows the spelling PostgreSQL gives to any timeout. *)
LEMMA ShownIsSpelled ==
    ASSUME NEW ms \in 1..MaxTimeout
    PROVE  Shown(ms) \in TimeoutSpellings(ms)
  <1>0. ms # 0 /\ ms \in Nat
    BY DEF MaxTimeout
  <1>1. CASE Dividing(ms) = {}
    BY <1>0, <1>1 DEF Shown, TimeoutSpellings
  <1>2. CASE Dividing(ms) # {}
    <2>1. Dividing(ms) \subseteq {1000, 60000, 3600000}
      BY DEF Dividing, UnitSizes
    <2>2. ASSUME NEW D, D # {}, D \subseteq {1000, 60000, 3600000}
          PROVE  \E x \in D : \A y \in D : y <= x
      <3>1. CASE 3600000 \in D
        BY <2>2, <3>1
      <3>2. CASE 3600000 \notin D /\ 60000 \in D
        BY <2>2, <3>2
      <3>3. CASE 3600000 \notin D /\ 60000 \notin D
        <4>1. ASSUME NEW y \in D PROVE y = 1000
          BY <2>2, <3>3
        <4>2. \E d : d \in D
          BY <2>2
        <4>3. 1000 \in D
          BY <4>1, <4>2
        <4> QED BY <4>1, <4>3
      <3> QED BY <3>1, <3>2, <3>3
    <2>3. Largest(Dividing(ms)) \in Dividing(ms)
      BY <1>2, <2>1, <2>2, LargestIsOne
    <2>4. Shown(ms) = <<ms \div Largest(Dividing(ms)), Largest(Dividing(ms))>>
      BY <1>0, <1>2 DEF Shown
    <2> QED BY <1>0, <2>3, <2>4 DEF TimeoutSpellings
  <1> QED BY <1>1, <1>2

-----------------------------------------------------------------------------
(* The inductive invariant, in three parts. *)

Chosen == \E s \in Scenarios : plan = s.plan /\ deployment = s.deployment

Querying == {"route", "embed", "guards", "readback", "hybrid"}

(* Who has a connection where, and who has answered. *)
ShapeAt(w) ==
    /\ pc[w] \in {"route", "ingest", "readback", "hybrid"} => conn[w] \in Conns
    /\ pc[w] \in {"new", "auth", "embed", "guards"} => conn[w] = NoConn
    /\ pc[w] = "ingest" => plan[w].kind = "ingest"
    /\ pc[w] \in Querying => plan[w].kind # "ingest"
    /\ pc[w] \notin {"close", "done"} => answer[w] = NoAnswer

ShapeInv ==
    /\ TypeOK
    /\ Chosen
    /\ \A w \in Workers : ShapeAt(w)

(* Where the guards are set. *)
Clean == \A c \in Conns : Idle(c) => local[c] = {}

GuardAt(w) ==
    /\ pc[w] = "hybrid" => Guards \subseteq Effective(conn[w])
    /\ pc[w] \in {"route", "ingest"} => local[conn[w]] = {}
    /\ pc[w] = "readback" =>
          local[conn[w]] = IF deployment.autocommit THEN {} ELSE Guards
    /\ answer[w] # NoAnswer /\ answer[w].why = "unguarded"
          => deployment.autocommit

GuardInv == Clean /\ \A w \in Workers : GuardAt(w)

(* What became of the query's embedding. *)
Taken(w) == Outcome(plan[w].reply) \in {"vector", "unavailable"}

AnswerAt(w) ==
    /\ pc[w] \in {"guards", "readback", "hybrid"} /\ deployment.vectorWeight > 0
          => Taken(w)
    /\ answer[w] # NoAnswer /\ answer[w].why = "results" =>
          IF plan[w].kind = "ingest"
          THEN Outcome(plan[w].reply) = "vector"
          ELSE /\ "degraded" \in answer[w].marks <=>
                     /\ deployment.vectorWeight > 0
                     /\ Outcome(plan[w].reply) = "unavailable"
               /\ deployment.vectorWeight > 0 => Taken(w)
    /\ answer[w] # NoAnswer /\ answer[w].why = "backend"
          /\ plan[w].kind # "ingest" =>
          /\ ~Taken(w)
          /\ "retry_after" \in answer[w].marks =>
                Outcome(plan[w].reply) # "misconfigured"

AnswerInv == \A w \in Workers : AnswerAt(w)

PoolInv == SearchesDoNotStarveSearches

-----------------------------------------------------------------------------
LEMMA ChosenFacts ==
    ASSUME Chosen, NEW w \in Workers
    PROVE  /\ plan[w].reply \in Replied
           /\ plan[w].kind \in {"none", "search", "ingest"}
           /\ plan[w].key \in {"valid", "unknown", "missing"}
           /\ plan[w].text \in {"plain", "nul", "invalid"}
           /\ deployment.vectorWeight \in Nat
           /\ deployment.timeout \in 1..MaxTimeout
           /\ deployment.preset \in SUBSET Guards
  <1>1. PICK s \in Scenarios : plan = s.plan /\ deployment = s.deployment
    BY DEF Chosen
  <1> QED BY <1>1, ScenarioAssumption

(* What an answer does to the variables. *)
LEMMA AnswerStep ==
    ASSUME TypeOK, NEW w \in Workers, NEW s \in Codes,
           NEW m \in SUBSET Marks, NEW y \in Refusals \union {"results"},
           Answer(w, s, m, y)
    PROVE  /\ pc' \in [Workers -> PCs] /\ pc'[w] = "close"
           /\ answer' \in [Workers -> Response \union {NoAnswer}]
           /\ \A v \in Workers : v # w => pc'[v] = pc[v] /\ answer'[v] = answer[v]
  <1>1. "close" \in PCs
    BY DEF PCs
  <1>2. [status |-> s, marks |-> m, why |-> y] \in Response
    BY DEF Response
  <1> QED BY <1>1, <1>2 DEF Answer, Goto, TypeOK

LEMMA GotoStep ==
    ASSUME TypeOK, NEW w \in Workers, NEW l \in PCs, Goto(w, l)
    PROVE  /\ pc' \in [Workers -> PCs]
           /\ pc'[w] = l
           /\ \A v \in Workers \ {w} : pc'[v] = pc[v]
  BY DEF Goto, TypeOK

LEMMA CheckOutStep ==
    ASSUME TypeOK, NEW w \in Workers, NEW c \in Conns, CheckOut(w, c)
    PROVE  /\ conn' \in [Workers -> Conns \union {NoConn}]
           /\ conn'[w] = c
           /\ \A v \in Workers \ {w} : conn'[v] = conn[v] /\ conn[v] # c
           /\ \A u, v \in Workers : conn'[u] = conn'[v] /\ conn'[u] # NoConn => u = v
           /\ \A b \in Conns : Idle(b)' => Idle(b) \/ b = conn[w]
  BY DEF CheckOut, TypeOK, Idle

LEMMA GiveBackStep ==
    ASSUME TypeOK, NEW w \in Workers, GiveBack(w)
    PROVE  /\ conn' \in [Workers -> Conns \union {NoConn}]
           /\ conn'[w] = NoConn
           /\ \A v \in Workers \ {w} : conn'[v] = conn[v]
           /\ \A u, v \in Workers : conn'[u] = conn'[v] /\ conn'[u] # NoConn => u = v
           /\ local' \in [Conns -> SUBSET Guards]
           /\ \A c \in Conns : c = conn[w] => local'[c] = {}
           /\ \A c \in Conns : c # conn[w] => local'[c] = local[c]
  BY DEF GiveBack, TypeOK

-----------------------------------------------------------------------------
LEMMA ShapeInit == Init => ShapeInv
  <1> SUFFICES ASSUME Init PROVE ShapeInv
    OBVIOUS
  <1>1. TypeOK
    BY PoolAssumption DEF Init, TypeOK, PCs
  <1> QED BY <1>1 DEF Init, ShapeInv, ShapeAt, Chosen, Querying

LEMMA BackendFailureType ==
    ASSUME NEW o
    PROVE  /\ BackendFailure(o).status \in Codes
           /\ BackendFailure(o).marks \in SUBSET Marks
           /\ "retry_after" \in BackendFailure(o).marks => o # "misconfigured"
  BY DEF BackendFailure, Marks, Codes

(* A step of one worker that leaves the connections alone and answers. *)
LEMMA ShapeAnswer ==
    ASSUME ShapeInv, plan' = plan, deployment' = deployment, conn' = conn,
           local' = local, NEW w \in Workers,
           NEW s \in Codes, NEW m \in SUBSET Marks,
           NEW y \in Refusals \union {"results"}, Answer(w, s, m, y)
    PROVE  ShapeInv'
  <1>1. TypeOK /\ Chosen'
    BY DEF ShapeInv, Chosen
  <1>2. /\ pc' \in [Workers -> PCs] /\ pc'[w] = "close"
        /\ answer' \in [Workers -> Response \union {NoAnswer}]
        /\ \A v \in Workers : v # w => pc'[v] = pc[v] /\ answer'[v] = answer[v]
    BY <1>1, AnswerStep
  <1>3. TypeOK'
    BY <1>1, <1>2 DEF TypeOK
  <1>4. ShapeAt(w)'
    BY <1>2 DEF ShapeAt, Querying
  <1>5. ASSUME NEW v \in Workers \ {w} PROVE ShapeAt(v)'
    <2>1. ShapeAt(v)
      BY DEF ShapeInv
    <2> QED BY <1>2, <2>1 DEF ShapeAt
  <1> QED BY <1>1, <1>3, <1>4, <1>5 DEF ShapeInv

(* A step of one worker to another statement, without an answer. *)
LEMMA ShapeGoto ==
    ASSUME ShapeInv, plan' = plan, deployment' = deployment, answer' = answer,
           NEW w \in Workers, NEW l \in PCs, Goto(w, l),
           conn' \in [Workers -> Conns \union {NoConn}],
           \A v \in Workers \ {w} : conn'[v] = conn[v],
           \A u, v \in Workers : conn'[u] = conn'[v] /\ conn'[u] # NoConn => u = v,
           local' \in [Conns -> SUBSET Guards],
           ShapeAt(w)'
    PROVE  ShapeInv'
  <1>1. TypeOK /\ Chosen'
    BY DEF ShapeInv, Chosen
  <1>2. pc' \in [Workers -> PCs] /\ \A v \in Workers \ {w} : pc'[v] = pc[v]
    BY <1>1, GotoStep
  <1>3. TypeOK'
    BY <1>1, <1>2 DEF TypeOK
  <1>4. ASSUME NEW v \in Workers \ {w} PROVE ShapeAt(v)'
    <2>1. ShapeAt(v)
      BY DEF ShapeInv
    <2> QED BY <1>2, <2>1 DEF ShapeAt
  <1> QED BY <1>1, <1>3, <1>4 DEF ShapeInv

LEMMA ShapeNext == ShapeInv /\ [Next]_vars => ShapeInv'
  <1> SUFFICES ASSUME ShapeInv, [Next]_vars PROVE ShapeInv'
    OBVIOUS
  <1>0. TypeOK /\ \A w \in Workers : ShapeAt(w)
    BY DEF ShapeInv
  <1>1. ASSUME NEW w \in Workers, Receive(w) PROVE ShapeInv'
    <2>1. CASE Answer(w, 401, {}, "no_key")
      BY <1>1, <2>1, ShapeAnswer DEF Receive, Refusals, Codes
    <2>2. CASE Goto(w, "auth") /\ UNCHANGED answer
      <3>1. "auth" \in PCs
        BY DEF PCs
      <3>2. pc'[w] = "auth"
        BY <1>0, <2>2, <3>1, GotoStep
      <3>3. ShapeAt(w)'
        BY <1>0, <1>1, <2>2, <3>2 DEF ShapeAt, Receive, Querying
      <3> QED BY <1>0, <1>1, <2>2, <3>1, <3>3, ShapeGoto DEF Receive, TypeOK
    <2> QED BY <1>1, <2>1, <2>2 DEF Receive
  <1>2. ASSUME NEW w \in Workers, Authenticate(w) PROVE ShapeInv'
    <2>1. PICK c \in Conns : CheckOut(w, c)
      BY <1>2 DEF Authenticate
    <2>2. /\ conn' \in [Workers -> Conns \union {NoConn}]
          /\ conn'[w] = c
          /\ \A v \in Workers \ {w} : conn'[v] = conn[v]
          /\ \A u, v \in Workers : conn'[u] = conn'[v] /\ conn'[u] # NoConn => u = v
      BY <1>0, <2>1, CheckOutStep
    <2>3. plan' = plan /\ deployment' = deployment /\ local' = local /\ pc[w] = "auth"
      BY <1>2 DEF Authenticate
    <2>4. ASSUME NEW s \in Codes, NEW m \in SUBSET Marks,
                 NEW y \in Refusals \union {"results"}, Answer(w, s, m, y)
          PROVE  ShapeInv'
      <3>2. /\ pc' \in [Workers -> PCs] /\ pc'[w] = "close"
            /\ answer' \in [Workers -> Response \union {NoAnswer}]
            /\ \A v \in Workers : v # w => pc'[v] = pc[v] /\ answer'[v] = answer[v]
        BY <1>0, <2>4, AnswerStep
      <3>3. TypeOK'
        BY <1>0, <2>2, <2>3, <3>2 DEF TypeOK
      <3>4. Chosen'
        BY <2>3 DEF ShapeInv, Chosen
      <3>5. ASSUME NEW v \in Workers PROVE ShapeAt(v)'
        <4>1. CASE v = w
          BY <3>2, <4>1 DEF ShapeAt, Querying
        <4>2. CASE v # w
          BY <1>0, <2>2, <2>3, <3>2, <4>2 DEF ShapeAt
        <4> QED BY <4>1, <4>2
      <3> QED BY <3>3, <3>4, <3>5 DEF ShapeInv
    <2>5. ASSUME Goto(w, IF plan[w].kind = "ingest" THEN "ingest" ELSE "route"),
                 answer' = answer
          PROVE  ShapeInv'
      <3>1. PICK l \in {"ingest", "route"} :
                Goto(w, l) /\ (l = "ingest" <=> plan[w].kind = "ingest")
        BY <2>5
      <3>2. l \in PCs
        BY DEF PCs
      <3>3. pc'[w] = l
        BY <1>0, <3>1, <3>2, GotoStep
      <3>4. ShapeAt(w)'
        BY <1>0, <2>2, <2>3, <2>5, <3>1, <3>3 DEF ShapeAt, Querying
      <3>5. local' \in [Conns -> SUBSET Guards]
        BY <1>0, <2>3 DEF TypeOK
      <3> QED BY <2>2, <2>3, <2>5, <3>1, <3>2, <3>4, <3>5, ShapeGoto
    <2> QED BY <1>2, <2>4, <2>5 DEF Authenticate, Codes, Refusals
  <1>3. ASSUME NEW w \in Workers, PoolTimeout(w) PROVE ShapeInv'
    BY <1>3, ShapeAnswer DEF PoolTimeout, Refusals, Codes
  <1>4. ASSUME NEW w \in Workers, EndAuthRead(w) PROVE ShapeInv'
    <2>1. PICK l \in {"embed", "guards"} : Goto(w, l)
      BY <1>4 DEF EndAuthRead
    <2>2. l \in PCs
      BY DEF PCs
    <2>3. pc'[w] = l
      BY <1>0, <2>1, <2>2, GotoStep
    <2>4. /\ conn' \in [Workers -> Conns \union {NoConn}]
          /\ conn'[w] = NoConn
          /\ \A v \in Workers \ {w} : conn'[v] = conn[v]
          /\ \A u, v \in Workers : conn'[u] = conn'[v] /\ conn'[u] # NoConn => u = v
          /\ local' \in [Conns -> SUBSET Guards]
      BY <1>0, <1>4, GiveBackStep DEF EndAuthRead
    <2>5. /\ plan' = plan /\ deployment' = deployment /\ answer' = answer
          /\ pc[w] = "route"
      BY <1>4 DEF EndAuthRead
    <2>6. ShapeAt(w)'
      BY <1>0, <2>3, <2>4, <2>5 DEF ShapeAt, Querying
    <2> QED BY <2>1, <2>2, <2>4, <2>5, <2>6, ShapeGoto
  <1>5. ASSUME NEW w \in Workers, EmbedQuery(w) PROVE ShapeInv'
    <2> DEFINE o == Outcome(plan[w].reply)
    <2>1. CASE Goto(w, "guards") /\ UNCHANGED answer
      <3>1. "guards" \in PCs
        BY DEF PCs
      <3>2. pc'[w] = "guards"
        BY <1>0, <2>1, <3>1, GotoStep
      <3>3. ShapeAt(w)'
        BY <1>0, <1>5, <2>1, <3>2 DEF ShapeAt, EmbedQuery, Querying
      <3> QED BY <1>0, <1>5, <2>1, <3>1, <3>3, ShapeGoto DEF EmbedQuery, TypeOK
    <2>2. CASE Answer(w, BackendFailure(o).status, BackendFailure(o).marks, "backend")
      <3>1. BackendFailure(o).status \in Codes /\ BackendFailure(o).marks \in SUBSET Marks
        BY BackendFailureType
      <3>2. plan' = plan /\ deployment' = deployment /\ conn' = conn /\ local' = local
        BY <1>5 DEF EmbedQuery
      <3> HIDE DEF o
      <3> QED BY <2>2, <3>1, <3>2, ShapeAnswer DEF Refusals, Codes
    <2> QED BY <1>5, <2>1, <2>2 DEF EmbedQuery
  <1>6. ASSUME NEW w \in Workers, ApplyGuards(w) PROVE ShapeInv'
    <2>1. PICK c \in Conns :
              /\ CheckOut(w, c)
              /\ local' = [local EXCEPT ![c] = IF deployment.autocommit THEN {}
                                               ELSE Guards]
      BY <1>6 DEF ApplyGuards
    <2>2. Goto(w, "readback") /\ "readback" \in PCs
      BY <1>6 DEF ApplyGuards, PCs
    <2>3. local' \in [Conns -> SUBSET Guards]
      BY <1>0, <2>1 DEF TypeOK
    <2>4. pc'[w] = "readback"
      BY <1>0, <2>2, GotoStep
    <2>5. /\ conn' \in [Workers -> Conns \union {NoConn}]
          /\ conn'[w] = c
          /\ \A v \in Workers \ {w} : conn'[v] = conn[v]
          /\ \A u, v \in Workers : conn'[u] = conn'[v] /\ conn'[u] # NoConn => u = v
      BY <1>0, <2>1, CheckOutStep
    <2>6. /\ plan' = plan /\ deployment' = deployment /\ answer' = answer
          /\ pc[w] = "guards"
      BY <1>6 DEF ApplyGuards
    <2>7. ShapeAt(w)'
      BY <1>0, <2>4, <2>5, <2>6 DEF ShapeAt, Querying
    <2> QED BY <2>2, <2>3, <2>5, <2>6, <2>7, ShapeGoto
  <1>7. ASSUME NEW w \in Workers, ReadBack(w) PROVE ShapeInv'
    <2>1. CASE Goto(w, "hybrid") /\ UNCHANGED answer
      <3>1. "hybrid" \in PCs
        BY DEF PCs
      <3>2. pc'[w] = "hybrid"
        BY <1>0, <2>1, <3>1, GotoStep
      <3>3. ShapeAt(w)'
        BY <1>0, <1>7, <2>1, <3>2 DEF ShapeAt, ReadBack, Querying
      <3> QED BY <1>0, <1>7, <2>1, <3>1, <3>3, ShapeGoto DEF ReadBack, TypeOK
    <2>2. CASE Answer(w, 500, {}, "unguarded")
      BY <1>7, <2>2, ShapeAnswer DEF ReadBack, Refusals, Codes
    <2> QED BY <1>7, <2>1, <2>2 DEF ReadBack
  <1>8. ASSUME NEW w \in Workers, RunHybrid(w) PROVE ShapeInv'
    <2>1. \/ Answer(w, 400, {}, "bad_data")
          \/ Answer(w, 200, {"degraded"}, "results")
          \/ Answer(w, 200, {}, "results")
          \/ Answer(w, 503, {}, "canceled")
      BY <1>8 DEF RunHybrid
    <2>2. plan' = plan /\ deployment' = deployment /\ conn' = conn /\ local' = local
      BY <1>8 DEF RunHybrid
    <2> QED BY <2>1, <2>2, ShapeAnswer DEF Refusals, Marks, Codes
  <1>9. ASSUME NEW w \in Workers, EndIngest(w) PROVE ShapeInv'
    <2> DEFINE o == Outcome(plan[w].reply)
    <2>1. \/ Answer(w, 200, {}, "results")
          \/ Answer(w, BackendFailure(o).status, BackendFailure(o).marks, "backend")
      BY <1>9 DEF EndIngest
    <2>2. BackendFailure(o).status \in Codes /\ BackendFailure(o).marks \in SUBSET Marks
      BY BackendFailureType
    <2>3. plan' = plan /\ deployment' = deployment /\ conn' = conn /\ local' = local
      BY <1>9 DEF EndIngest
    <2> HIDE DEF o
    <2> QED BY <2>1, <2>2, <2>3, ShapeAnswer DEF Refusals, Codes
  <1>10. ASSUME NEW w \in Workers, DatabaseFails(w) PROVE ShapeInv'
    BY <1>10, ShapeAnswer DEF DatabaseFails, Refusals, Marks, Codes
  <1>11. ASSUME NEW w \in Workers, Close(w) PROVE ShapeInv'
    <2>1. Goto(w, "done") /\ "done" \in PCs
      BY <1>11 DEF Close, PCs
    <2>2. pc'[w] = "done"
      BY <1>0, <2>1, GotoStep
    <2>3. /\ conn' \in [Workers -> Conns \union {NoConn}]
          /\ \A v \in Workers \ {w} : conn'[v] = conn[v]
          /\ \A u, v \in Workers : conn'[u] = conn'[v] /\ conn'[u] # NoConn => u = v
          /\ local' \in [Conns -> SUBSET Guards]
      BY <1>0, <1>11, GiveBackStep DEF Close
    <2>4. plan' = plan /\ deployment' = deployment /\ answer' = answer
      BY <1>11 DEF Close
    <2>5. ShapeAt(w)'
      BY <2>2 DEF ShapeAt, Querying
    <2> QED BY <2>1, <2>3, <2>4, <2>5, ShapeGoto
  <1>12. CASE UNCHANGED vars
    BY <1>12 DEF vars, ShapeInv, ShapeAt, TypeOK, Chosen
  <1> QED BY <1>1, <1>2, <1>3, <1>4, <1>5, <1>6, <1>7, <1>8, <1>9, <1>10, <1>11,
             <1>12 DEF Next, Serve

(* Every variable of Search keeps its type, and no two workers share a     *)
(* connection.                                                             *)
THEOREM SearchTypes == Spec => []TypeOK
  <1>1. Spec => []ShapeInv
    BY ShapeInit, ShapeNext, PTL DEF Spec
  <1>2. ShapeInv => TypeOK
    BY DEF ShapeInv
  <1> QED BY <1>1, <1>2, PTL

-----------------------------------------------------------------------------
LEMMA AnswerValue ==
    ASSUME TypeOK, NEW w \in Workers, NEW s, NEW m, NEW y, Answer(w, s, m, y)
    PROVE  answer'[w].status = s /\ answer'[w].marks = m /\ answer'[w].why = y
  BY DEF Answer, TypeOK

(* A worker that does not move keeps what the guards mean to it: its       *)
(* connection is its own.                                                  *)
LEMMA GuardFrame ==
    ASSUME ShapeInv, GuardInv, deployment' = deployment, NEW w \in Workers,
           pc'[w] = pc[w], conn'[w] = conn[w], answer'[w] = answer[w],
           conn[w] \in Conns => local'[conn[w]] = local[conn[w]]
    PROVE  GuardAt(w)'
  <1>1. ShapeAt(w) /\ GuardAt(w)
    BY DEF ShapeInv, GuardInv
  <1> QED BY <1>1 DEF ShapeAt, GuardAt, Effective

(* One worker moves and touches no connection. *)
LEMMA GuardMove ==
    ASSUME ShapeInv, GuardInv, deployment' = deployment, conn' = conn,
           local' = local, NEW w \in Workers, GuardAt(w)',
           \A v \in Workers : v # w => pc'[v] = pc[v] /\ answer'[v] = answer[v]
    PROVE  GuardInv'
  <1>1. Clean'
    BY DEF GuardInv, Clean, Idle
  <1>2. ASSUME NEW v \in Workers, v # w PROVE GuardAt(v)'
    BY <1>2, GuardFrame
  <1> QED BY <1>1, <1>2 DEF GuardInv

(* One worker answers and touches no connection. *)
LEMMA GuardAnswer ==
    ASSUME ShapeInv, GuardInv, deployment' = deployment, conn' = conn,
           local' = local, NEW w \in Workers, NEW s \in Codes,
           NEW m \in SUBSET Marks, NEW y \in Refusals \union {"results"},
           Answer(w, s, m, y), y = "unguarded" => deployment.autocommit
    PROVE  GuardInv'
  <1>1. TypeOK
    BY DEF ShapeInv
  <1>2. /\ pc'[w] = "close"
        /\ \A v \in Workers : v # w => pc'[v] = pc[v] /\ answer'[v] = answer[v]
    BY <1>1, AnswerStep
  <1>3. answer'[w].why = y
    BY <1>1, AnswerValue
  <1>4. GuardAt(w)'
    BY <1>2, <1>3 DEF GuardAt
  <1> QED BY <1>2, <1>4, GuardMove

(* One worker gives its connection back. *)
LEMMA GuardGiveBack ==
    ASSUME ShapeInv, GuardInv, deployment' = deployment, answer' = answer,
           NEW w \in Workers, GiveBack(w), NEW l \in PCs, Goto(w, l),
           l \notin {"hybrid", "readback", "route", "ingest"}
    PROVE  GuardInv'
  <1>1. TypeOK
    BY DEF ShapeInv
  <1>2. /\ pc'[w] = l
        /\ \A v \in Workers : v # w => pc'[v] = pc[v]
    BY <1>1, GotoStep
  <1>3. /\ \A v \in Workers : v # w => conn'[v] = conn[v]
        /\ conn'[w] = NoConn
        /\ \A c \in Conns : c = conn[w] => local'[c] = {}
        /\ \A c \in Conns : c # conn[w] => local'[c] = local[c]
    BY <1>1, GiveBackStep
  <1>4. Clean'
    <2>1. ASSUME NEW c \in Conns, Idle(c)', c # conn[w] PROVE local'[c] = {}
      <3>1. Idle(c)
        BY <1>3, <2>1 DEF Idle
      <3> QED BY <1>3, <2>1, <3>1 DEF GuardInv, Clean
    <2> QED BY <1>3, <2>1 DEF Clean
  <1>5. GuardAt(w)'
    <2>1. GuardAt(w)
      BY DEF GuardInv
    <2> QED BY <1>2, <2>1 DEF GuardAt
  <1>6. ASSUME NEW v \in Workers, v # w PROVE GuardAt(v)'
    <2>1. conn[v] \in Conns => conn[v] # conn[w]
      BY <1>1, <1>6, PoolAssumption DEF TypeOK
    <2> QED BY <1>2, <1>3, <1>6, <2>1, GuardFrame
  <1> QED BY <1>4, <1>5, <1>6 DEF GuardInv

LEMMA GuardInit == Init => GuardInv
  BY DEF Init, GuardInv, Clean, GuardAt

LEMMA GuardNext == ShapeInv /\ GuardInv /\ [Next]_vars => GuardInv'
  <1> SUFFICES ASSUME ShapeInv, GuardInv, [Next]_vars PROVE GuardInv'
    OBVIOUS
  <1>0. /\ TypeOK
        /\ \A w \in Workers : ShapeAt(w) /\ GuardAt(w)
    BY DEF ShapeInv, GuardInv
  <1>1. ASSUME NEW w \in Workers, Receive(w) PROVE GuardInv'
    <2>1. CASE Answer(w, 401, {}, "no_key")
      BY <1>1, <2>1, GuardAnswer DEF Receive, Refusals, Codes
    <2>2. CASE Goto(w, "auth") /\ UNCHANGED answer
      <3>1. "auth" \in PCs
        BY DEF PCs
      <3>2. pc'[w] = "auth" /\ \A v \in Workers : v # w => pc'[v] = pc[v]
        BY <1>0, <2>2, <3>1, GotoStep
      <3>3. GuardAt(w)'
        BY <1>0, <1>1, <2>2, <3>2 DEF GuardAt, Receive
      <3> QED BY <1>1, <2>2, <3>2, <3>3, GuardMove DEF Receive
    <2> QED BY <1>1, <2>1, <2>2 DEF Receive
  <1>2. ASSUME NEW w \in Workers, Authenticate(w) PROVE GuardInv'
    <2>1. PICK c \in Conns : CheckOut(w, c)
      BY <1>2 DEF Authenticate
    <2>2. /\ conn'[w] = c
          /\ \A v \in Workers : v # w => conn'[v] = conn[v]
          /\ \A b \in Conns : Idle(b)' => Idle(b) \/ b = conn[w]
      BY <1>0, <2>1, CheckOutStep
    <2>3. /\ plan' = plan /\ deployment' = deployment /\ local' = local
          /\ pc[w] = "auth" /\ conn[w] = NoConn
      BY <1>0, <1>2 DEF Authenticate, ShapeAt
    <2>4. local[c] = {}
      BY <2>1 DEF GuardInv, Clean, CheckOut
    <2>5. Clean'
      BY <2>2, <2>3, PoolAssumption DEF GuardInv, Clean
    <2>6. \/ \E y \in {"bad_key", "invalid"}, s \in Codes : Answer(w, s, {}, y)
          \/ /\ answer' = answer
             /\ \E l \in {"ingest", "route"} : Goto(w, l)
      BY <1>2 DEF Authenticate, Codes
    <2>7. /\ \A v \in Workers : v # w => pc'[v] = pc[v] /\ answer'[v] = answer[v]
          /\ GuardAt(w)'
      <3>1. CASE \E y \in {"bad_key", "invalid"}, s \in Codes : Answer(w, s, {}, y)
        <4>1. PICK y \in {"bad_key", "invalid"}, s \in Codes : Answer(w, s, {}, y)
          BY <3>1
        <4>2. {} \in SUBSET Marks /\ y \in Refusals \union {"results"}
          BY DEF Refusals
        <4>3. /\ pc'[w] = "close"
              /\ \A v \in Workers : v # w => pc'[v] = pc[v] /\ answer'[v] = answer[v]
          BY <1>0, <4>1, <4>2, AnswerStep
        <4>4. answer'[w].why = y
          BY <1>0, <4>1, AnswerValue
        <4> QED BY <4>3, <4>4 DEF GuardAt
      <3>2. CASE answer' = answer /\ \E l \in {"ingest", "route"} : Goto(w, l)
        <4>1. PICK l \in {"ingest", "route"} : Goto(w, l)
          BY <3>2
        <4>2. l \in PCs
          BY DEF PCs
        <4>3. pc'[w] = l /\ \A v \in Workers : v # w => pc'[v] = pc[v]
          BY <1>0, <4>1, <4>2, GotoStep
        <4> QED BY <1>0, <2>2, <2>3, <2>4, <3>2, <4>3 DEF GuardAt
      <3> QED BY <2>6, <3>1, <3>2
    <2>8. ASSUME NEW v \in Workers, v # w PROVE GuardAt(v)'
      BY <2>2, <2>3, <2>7, <2>8, GuardFrame
    <2> QED BY <2>5, <2>7, <2>8 DEF GuardInv
  <1>3. ASSUME NEW w \in Workers, PoolTimeout(w) PROVE GuardInv'
    BY <1>3, GuardAnswer DEF PoolTimeout, Refusals, Codes
  <1>4. ASSUME NEW w \in Workers, EndAuthRead(w) PROVE GuardInv'
    <2>1. PICK l \in {"embed", "guards"} : Goto(w, l)
      BY <1>4 DEF EndAuthRead
    <2>2. l \in PCs
      BY DEF PCs
    <2>3. deployment' = deployment /\ answer' = answer /\ GiveBack(w)
      BY <1>4 DEF EndAuthRead
    <2> QED BY <2>1, <2>2, <2>3, GuardGiveBack
  <1>5. ASSUME NEW w \in Workers, EmbedQuery(w) PROVE GuardInv'
    <2> DEFINE o == Outcome(plan[w].reply)
    <2>1. deployment' = deployment /\ conn' = conn /\ local' = local
      BY <1>5 DEF EmbedQuery
    <2>2. CASE Goto(w, "guards") /\ UNCHANGED answer
      <3>1. "guards" \in PCs
        BY DEF PCs
      <3>2. pc'[w] = "guards" /\ \A v \in Workers : v # w => pc'[v] = pc[v]
        BY <1>0, <2>2, <3>1, GotoStep
      <3>3. GuardAt(w)'
        BY <1>0, <2>1, <2>2, <3>2 DEF GuardAt
      <3> QED BY <2>1, <2>2, <3>2, <3>3, GuardMove
    <2>3. CASE Answer(w, BackendFailure(o).status, BackendFailure(o).marks, "backend")
      <3>1. BackendFailure(o).status \in Codes /\ BackendFailure(o).marks \in SUBSET Marks
        BY BackendFailureType
      <3> HIDE DEF o
      <3> QED BY <2>1, <2>3, <3>1, GuardAnswer DEF Refusals
    <2> QED BY <1>5, <2>2, <2>3 DEF EmbedQuery
  <1>6. ASSUME NEW w \in Workers, ApplyGuards(w) PROVE GuardInv'
    <2>1. PICK c \in Conns :
              /\ CheckOut(w, c)
              /\ local' = [local EXCEPT ![c] = IF deployment.autocommit THEN {}
                                               ELSE Guards]
      BY <1>6 DEF ApplyGuards
    <2>2. /\ conn'[w] = c
          /\ \A v \in Workers : v # w => conn'[v] = conn[v] /\ conn[v] # c
          /\ \A b \in Conns : Idle(b)' => Idle(b) \/ b = conn[w]
      BY <1>0, <2>1, CheckOutStep
    <2>3. deployment' = deployment /\ answer' = answer /\ conn[w] = NoConn
      BY <1>0, <1>6 DEF ApplyGuards, ShapeAt
    <2>4. /\ local'[c] = IF deployment.autocommit THEN {} ELSE Guards
          /\ \A b \in Conns : b # c => local'[b] = local[b]
      BY <1>0, <2>1 DEF TypeOK
    <2>5. Goto(w, "readback") /\ "readback" \in PCs
      BY <1>6 DEF ApplyGuards, PCs
    <2>6. pc'[w] = "readback" /\ \A v \in Workers : v # w => pc'[v] = pc[v]
      BY <1>0, <2>5, GotoStep
    <2>7. Clean'
      <3>1. \A b \in Conns : Idle(b)' => b # c
        BY <2>2 DEF Idle
      <3> QED BY <2>2, <2>3, <2>4, <3>1, PoolAssumption DEF GuardInv, Clean
    <2>8. GuardAt(w)'
      BY <1>0, <2>2, <2>3, <2>4, <2>6 DEF GuardAt
    <2>9. ASSUME NEW v \in Workers, v # w PROVE GuardAt(v)'
      BY <2>2, <2>3, <2>4, <2>6, <2>9, GuardFrame
    <2> QED BY <2>7, <2>8, <2>9 DEF GuardInv
  <1>7. ASSUME NEW w \in Workers, ReadBack(w) PROVE GuardInv'
    <2>1. /\ deployment' = deployment /\ conn' = conn /\ local' = local
          /\ pc[w] = "readback"
      BY <1>7 DEF ReadBack
    <2>2. CASE TookEffect(conn[w]) /\ Goto(w, "hybrid") /\ UNCHANGED answer
      <3>1. "hybrid" \in PCs
        BY DEF PCs
      <3>2. pc'[w] = "hybrid" /\ \A v \in Workers : v # w => pc'[v] = pc[v]
        BY <1>0, <2>2, <3>1, GotoStep
      <3>3. GuardAt(w)'
        BY <1>0, <2>1, <2>2, <3>2 DEF GuardAt, TookEffect, Effective
      <3> QED BY <2>1, <2>2, <3>2, <3>3, GuardMove
    <2>3. CASE ~TookEffect(conn[w]) /\ Answer(w, 500, {}, "unguarded")
      <3>1. deployment.autocommit
        <4>1. SUFFICES ASSUME ~deployment.autocommit PROVE TookEffect(conn[w])
          BY <2>3
        <4>2. local[conn[w]] = Guards
          BY <1>0, <2>1, <4>1 DEF GuardAt
        <4>3. deployment.timeout \in 1..MaxTimeout
          BY ChosenFacts DEF ShapeInv
        <4>4. Shown(deployment.timeout) \in TimeoutSpellings(deployment.timeout)
          BY <4>3, ShownIsSpelled
        <4> QED BY <4>2, <4>4 DEF TookEffect, Effective
      <3>2. 500 \in Codes /\ {} \in SUBSET Marks /\ "unguarded" \in Refusals
        BY DEF Codes, Refusals
      <3> QED BY <2>1, <2>3, <3>1, <3>2, GuardAnswer
    <2> QED BY <1>7, <2>2, <2>3 DEF ReadBack
  <1>8. ASSUME NEW w \in Workers, RunHybrid(w) PROVE GuardInv'
    <2>1. \/ Answer(w, 400, {}, "bad_data")
          \/ Answer(w, 200, {"degraded"}, "results")
          \/ Answer(w, 200, {}, "results")
          \/ Answer(w, 503, {}, "canceled")
      BY <1>8 DEF RunHybrid
    <2>2. deployment' = deployment /\ conn' = conn /\ local' = local
      BY <1>8 DEF RunHybrid
    <2> QED BY <2>1, <2>2, GuardAnswer DEF Refusals, Marks, Codes
  <1>9. ASSUME NEW w \in Workers, EndIngest(w) PROVE GuardInv'
    <2> DEFINE o == Outcome(plan[w].reply)
    <2>1. \/ Answer(w, 200, {}, "results")
          \/ Answer(w, BackendFailure(o).status, BackendFailure(o).marks, "backend")
      BY <1>9 DEF EndIngest
    <2>2. BackendFailure(o).status \in Codes /\ BackendFailure(o).marks \in SUBSET Marks
      BY BackendFailureType
    <2>3. deployment' = deployment /\ conn' = conn /\ local' = local
      BY <1>9 DEF EndIngest
    <2> HIDE DEF o
    <2> QED BY <2>1, <2>2, <2>3, GuardAnswer DEF Refusals, Codes
  <1>10. ASSUME NEW w \in Workers, DatabaseFails(w) PROVE GuardInv'
    BY <1>10, GuardAnswer DEF DatabaseFails, Refusals, Marks, Codes
  <1>11. ASSUME NEW w \in Workers, Close(w) PROVE GuardInv'
    <2>1. Goto(w, "done") /\ "done" \in PCs
      BY <1>11 DEF Close, PCs
    <2>2. deployment' = deployment /\ answer' = answer /\ GiveBack(w)
      BY <1>11 DEF Close
    <2> QED BY <2>1, <2>2, GuardGiveBack
  <1>12. CASE UNCHANGED vars
    BY <1>12 DEF vars, GuardInv, Clean, Idle, GuardAt, Effective
  <1> QED BY <1>1, <1>2, <1>3, <1>4, <1>5, <1>6, <1>7, <1>8, <1>9, <1>10, <1>11,
             <1>12 DEF Next, Serve

(* The hybrid statement only runs under all three guards, the guards never *)
(* reach another statement, and a guard that took effect is never refused. *)
THEOREM SearchGuards == Spec => []GuardsCoverSearchOnly
  <1>1. Init => ShapeInv /\ GuardInv
    BY ShapeInit, GuardInit
  <1>2. ShapeInv /\ GuardInv /\ [Next]_vars => (ShapeInv /\ GuardInv)'
    BY ShapeNext, GuardNext
  <1>3. ShapeInv /\ GuardInv => GuardsCoverSearchOnly
    BY DEF GuardInv, GuardAt, Clean, GuardsCoverSearchOnly
  <1> QED BY <1>1, <1>2, <1>3, PTL DEF Spec

-----------------------------------------------------------------------------
(* A pool timeout needs a holder that waits for the backend, and an        *)
(* embedding search holds nothing, or a statement as long as the wait.     *)
LEMMA PoolNext ==
    ASSUME ShapeInv, PoolInv, [Next]_vars
    PROVE  PoolInv'
  <1>0. TypeOK /\ \A w \in Workers : ShapeAt(w)
    BY DEF ShapeInv
  <1>1. plan' = plan /\ deployment' = deployment
    BY DEF Next, Serve, vars, Receive, Authenticate, PoolTimeout,
           EndAuthRead, EmbedQuery, ApplyGuards, ReadBack, RunHybrid,
           EndIngest, DatabaseFails, Close
  <1>2. ASSUME NEW w \in Workers, PoolTimeout(w) PROVE PoolInv'
    <2>1. PICK v \in Workers : HoldsLong(v)
      BY <1>2 DEF PoolTimeout
    <2>2. plan'[v].kind = "ingest" \/ deployment'.timeout >= PoolWait
      BY <1>0, <1>1, <2>1 DEF HoldsLong, AwaitsBackend, ShapeAt
    <2> QED BY <2>2 DEF PoolInv, SearchesDoNotStarveSearches
  <1>3. ASSUME NEW w \in Workers, NEW s, NEW m, NEW y, Answer(w, s, m, y),
               y # "pool_timeout"
        PROVE  PoolInv'
    <2>1. answer'[w].why = y /\ \A v \in Workers : v # w => answer'[v] = answer[v]
      BY <1>0, <1>3, AnswerValue DEF Answer, TypeOK
    <2> QED BY <1>1, <1>3, <2>1 DEF PoolInv, SearchesDoNotStarveSearches
  <1>4. CASE answer' = answer
    BY <1>1, <1>4 DEF PoolInv, SearchesDoNotStarveSearches
  <1>5. ASSUME NEW w \in Workers, Receive(w) \/ Serve(w), ~PoolTimeout(w)
        PROVE  \/ answer' = answer
               \/ \E s, m, y : Answer(w, s, m, y) /\ y # "pool_timeout"
    BY <1>5 DEF Serve, Receive, Authenticate, EndAuthRead, EmbedQuery,
           ApplyGuards, ReadBack, RunHybrid, EndIngest, DatabaseFails, Close
  <1>6. CASE UNCHANGED vars
    BY <1>4, <1>6 DEF vars
  <1> QED BY <1>2, <1>3, <1>4, <1>5, <1>6 DEF Next

(* Searches that wait for the backend never make another request time out  *)
(* on the pool: an ingest does, or a statement_timeout of half a minute or *)
(* more (search.py:59-74).                                                 *)
THEOREM SearchPool == Spec => []SearchesDoNotStarveSearches
  <1>1. Init => ShapeInv /\ PoolInv
    BY ShapeInit DEF Init, PoolInv, SearchesDoNotStarveSearches
  <1>2. ShapeInv /\ PoolInv /\ [Next]_vars => (ShapeInv /\ PoolInv)'
    BY ShapeNext, PoolNext
  <1> QED BY <1>1, <1>2, PTL DEF Spec, PoolInv

-----------------------------------------------------------------------------
LEMMA AnswerMove ==
    ASSUME AnswerInv, plan' = plan, deployment' = deployment, NEW w \in Workers,
           AnswerAt(w)',
           \A v \in Workers : v # w => pc'[v] = pc[v] /\ answer'[v] = answer[v]
    PROVE  AnswerInv'
  <1>1. ASSUME NEW v \in Workers, v # w PROVE AnswerAt(v)'
    BY <1>1 DEF AnswerInv, AnswerAt, Taken
  <1> QED BY <1>1 DEF AnswerInv

(* An answer that says nothing of the embedding. *)
LEMMA AnswerOther ==
    ASSUME TypeOK, AnswerInv, plan' = plan, deployment' = deployment,
           NEW w \in Workers, NEW s, NEW m, NEW y, Answer(w, s, m, y),
           y \notin {"results", "backend"}
    PROVE  AnswerInv'
  <1>1. /\ pc'[w] = "close" /\ answer'[w].why = y
        /\ \A v \in Workers : v # w => pc'[v] = pc[v] /\ answer'[v] = answer[v]
    BY DEF Answer, Goto, TypeOK
  <1>2. AnswerAt(w)'
    BY <1>1 DEF AnswerAt
  <1> QED BY <1>1, <1>2, AnswerMove

(* A step to another statement, before the query is embedded or after. *)
LEMMA AnswerGoto ==
    ASSUME TypeOK, AnswerInv, plan' = plan, deployment' = deployment,
           answer' = answer, NEW w \in Workers, NEW l, Goto(w, l),
           l \in {"guards", "readback", "hybrid"} /\ deployment.vectorWeight > 0
               => Taken(w)
    PROVE  AnswerInv'
  <1>1. pc'[w] = l /\ \A v \in Workers : v # w => pc'[v] = pc[v]
    BY DEF Goto, TypeOK
  <1>2. AnswerAt(w)'
    BY <1>1 DEF AnswerInv, AnswerAt, Taken
  <1> QED BY <1>1, <1>2, AnswerMove

LEMMA AnswerNext ==
    ASSUME ShapeInv, AnswerInv, [Next]_vars
    PROVE  AnswerInv'
  <1>0. /\ TypeOK
        /\ \A w \in Workers : ShapeAt(w) /\ AnswerAt(w)
    BY DEF ShapeInv, AnswerInv
  <1>00. plan' = plan /\ deployment' = deployment
    BY DEF Next, Serve, vars, Receive, Authenticate, PoolTimeout,
           EndAuthRead, EmbedQuery, ApplyGuards, ReadBack, RunHybrid,
           EndIngest, DatabaseFails, Close
  <1>000. ASSUME NEW w \in Workers
          PROVE  /\ Outcome(plan[w].reply) \in {"vector", "unavailable",
                                                "bad_response", "misconfigured"}
                 /\ deployment.vectorWeight \in Nat
    <2>1. plan[w].reply \in Replied /\ deployment.vectorWeight \in Nat
      BY ChosenFacts DEF ShapeInv
    <2> QED BY <2>1, OutcomeOfReply
  <1>1. ASSUME NEW w \in Workers, Receive(w) PROVE AnswerInv'
    BY <1>0, <1>00, <1>1, AnswerOther, AnswerGoto DEF Receive
  <1>2. ASSUME NEW w \in Workers, Authenticate(w) PROVE AnswerInv'
    BY <1>0, <1>00, <1>2, AnswerOther, AnswerGoto DEF Authenticate
  <1>3. ASSUME NEW w \in Workers, PoolTimeout(w) PROVE AnswerInv'
    BY <1>0, <1>00, <1>3, AnswerOther DEF PoolTimeout
  <1>4. ASSUME NEW w \in Workers, EndAuthRead(w) PROVE AnswerInv'
    <2>1. CASE deployment.vectorWeight > 0
      <3>1. Goto(w, "embed") /\ answer' = answer
        BY <1>4, <2>1 DEF EndAuthRead
      <3> QED BY <1>0, <1>00, <3>1, AnswerGoto
    <2>2. CASE ~(deployment.vectorWeight > 0)
      <3>1. Goto(w, "guards") /\ answer' = answer
        BY <1>4, <2>2 DEF EndAuthRead
      <3> QED BY <1>0, <1>00, <2>2, <3>1, AnswerGoto
    <2> QED BY <2>1, <2>2
  <1>5. ASSUME NEW w \in Workers, EmbedQuery(w) PROVE AnswerInv'
    <2> DEFINE o == Outcome(plan[w].reply)
    <2>1. CASE Taken(w) /\ Goto(w, "guards") /\ UNCHANGED answer
      BY <1>0, <1>00, <2>1, AnswerGoto
    <2>2. CASE /\ ~Taken(w)
               /\ Answer(w, BackendFailure(o).status, BackendFailure(o).marks,
                         "backend")
      <3> DEFINE m == BackendFailure(o).marks
                 s == BackendFailure(o).status
      <3>1. "retry_after" \in m => o # "misconfigured"
        BY BackendFailureType
      <3> HIDE DEF m, s
      <3>2. Answer(w, s, m, "backend")
        BY <2>2 DEF m, s
      <3>3. /\ pc'[w] = "close" /\ answer'[w].why = "backend" /\ answer'[w].marks = m
            /\ \A v \in Workers : v # w => pc'[v] = pc[v] /\ answer'[v] = answer[v]
        BY <1>0, <3>2 DEF Answer, Goto, TypeOK
      <3>4. AnswerAt(w)'
        BY <1>00, <2>2, <3>1, <3>3 DEF AnswerAt, Taken
      <3> QED BY <1>00, <3>3, <3>4, AnswerMove DEF AnswerInv
    <2>3. o = "vector" \/ Degrades(plan[w].reply) <=> Taken(w)
      BY DEF Degrades, Taken
    <2> QED BY <1>5, <2>1, <2>2, <2>3 DEF EmbedQuery
  <1>6. ASSUME NEW w \in Workers, ApplyGuards(w) PROVE AnswerInv'
    <2>1. /\ Goto(w, "readback") /\ answer' = answer
          /\ deployment.vectorWeight > 0 => Taken(w)
      BY <1>0, <1>6 DEF ApplyGuards, AnswerAt
    <2> QED BY <1>0, <1>00, <2>1, AnswerGoto
  <1>7. ASSUME NEW w \in Workers, ReadBack(w) PROVE AnswerInv'
    <2>1. deployment.vectorWeight > 0 => Taken(w)
      BY <1>0, <1>7 DEF ReadBack, AnswerAt
    <2>2. \/ Goto(w, "hybrid") /\ answer' = answer
          \/ Answer(w, 500, {}, "unguarded")
      BY <1>7 DEF ReadBack
    <2> QED BY <1>0, <1>00, <2>1, <2>2, AnswerGoto, AnswerOther
  <1>8. ASSUME NEW w \in Workers, RunHybrid(w) PROVE AnswerInv'
    <2>1. deployment.vectorWeight > 0 => Taken(w)
      BY <1>0, <1>8 DEF RunHybrid, AnswerAt
    <2>2. plan[w].kind # "ingest"
      BY <1>0, <1>8 DEF RunHybrid, ShapeAt, Querying
    <2> DEFINE m == IF deployment.vectorWeight > 0 /\ Degrades(plan[w].reply)
                    THEN {"degraded"} ELSE {}
    <2>3. CASE Answer(w, 200, m, "results")
      <3>1. "degraded" \in m <=> /\ deployment.vectorWeight > 0
                                 /\ Outcome(plan[w].reply) = "unavailable"
        BY DEF Degrades
      <3> HIDE DEF m
      <3>2. /\ pc'[w] = "close" /\ answer'[w].why = "results" /\ answer'[w].marks = m
            /\ \A v \in Workers : v # w => pc'[v] = pc[v] /\ answer'[v] = answer[v]
        BY <1>0, <2>3 DEF Answer, Goto, TypeOK
      <3>3. AnswerAt(w)'
        BY <1>00, <2>1, <2>2, <3>1, <3>2 DEF AnswerAt, Taken
      <3> QED BY <1>00, <3>2, <3>3, AnswerMove
    <2>4. CASE Answer(w, 400, {}, "bad_data") \/ Answer(w, 503, {}, "canceled")
      BY <1>0, <1>00, <2>4, AnswerOther
    <2> QED BY <1>8, <2>3, <2>4 DEF RunHybrid
  <1>9. ASSUME NEW w \in Workers, EndIngest(w) PROVE AnswerInv'
    <2>1. plan[w].kind = "ingest"
      BY <1>0, <1>9 DEF EndIngest, ShapeAt
    <2>2. PICK s, m, y : /\ Answer(w, s, m, y)
                         /\ y = "backend" \/ (/\ y = "results"
                                              /\ Outcome(plan[w].reply) = "vector")
      BY <1>9 DEF EndIngest
    <2>3. /\ pc'[w] = "close" /\ answer'[w].why = y
          /\ \A v \in Workers : v # w => pc'[v] = pc[v] /\ answer'[v] = answer[v]
      BY <1>0, <2>2 DEF Answer, Goto, TypeOK
    <2>4. AnswerAt(w)'
      BY <1>00, <2>1, <2>2, <2>3 DEF AnswerAt
    <2> QED BY <1>00, <2>3, <2>4, AnswerMove
  <1>10. ASSUME NEW w \in Workers, DatabaseFails(w) PROVE AnswerInv'
    BY <1>0, <1>00, <1>10, AnswerOther DEF DatabaseFails
  <1>11. ASSUME NEW w \in Workers, Close(w) PROVE AnswerInv'
    BY <1>0, <1>00, <1>11, AnswerGoto DEF Close
  <1>12. CASE UNCHANGED vars
    BY <1>12 DEF vars, AnswerInv, AnswerAt, Taken
  <1> QED BY <1>1, <1>2, <1>3, <1>4, <1>5, <1>6, <1>7, <1>8, <1>9, <1>10, <1>11,
             <1>12 DEF Next, Serve

LEMMA AnswerAlways == Spec => [](ShapeInv /\ AnswerInv)
  <1>1. Init => ShapeInv /\ AnswerInv
    BY ShapeInit DEF Init, AnswerInv, AnswerAt
  <1>2. ShapeInv /\ AnswerInv /\ [Next]_vars => (ShapeInv /\ AnswerInv)'
    BY ShapeNext, AnswerNext
  <1> QED BY <1>1, <1>2, PTL DEF Spec

(* A search degrades exactly when the backend may recover, and no other    *)
(* failure of it is answered 200 or with a promise.                        *)
THEOREM SearchDegrades == Spec => []DegradedMeansTransient
  <1>1. ASSUME ShapeInv, AnswerInv PROVE DegradedMeansTransient
    <2>1. ASSUME NEW w \in Workers
          PROVE  /\ plan[w].reply \in Replied
                 /\ Outcome(plan[w].reply) \in {"vector", "unavailable",
                                                "bad_response", "misconfigured"}
                 /\ Outcome(plan[w].reply) = "unavailable" <=> MayRecover(plan[w].reply)
                 /\ Outcome(plan[w].reply) = "vector" => plan[w].reply.ending = "vectors"
                 /\ Outcome(plan[w].reply) = "bad_response" =>
                       plan[w].reply.ending \in {"unreadable", "vectors"}
      <3>1. plan[w].reply \in Replied
        BY <1>1, ChosenFacts DEF ShapeInv
      <3> QED BY <3>1, OutcomeOfReply
    <2> QED BY <1>1, <2>1 DEF AnswerInv, AnswerAt, Taken, DegradedMeansTransient
  <1> QED BY <1>1, AnswerAlways, PTL

(* What is stored, or searched by, has the column's width, fits float4 and *)
(* has a norm.                                                             *)
THEOREM SearchVectors == Spec => []AcceptedVectorsAreStorable
  <1>1. ASSUME ShapeInv, AnswerInv PROVE AcceptedVectorsAreStorable
    <2>1. SUFFICES ASSUME NEW w \in Workers, answer[w] # NoAnswer,
                          answer[w].why = "results",
                          "degraded" \notin answer[w].marks,
                          plan[w].kind = "ingest" \/ deployment.vectorWeight > 0
                   PROVE  /\ Len(plan[w].reply.vectors) = 1
                          /\ plan[w].reply.vectors[1] \in Seq(Component)
                          /\ Validated(plan[w].reply.vectors[1])
      BY ValidatedIsStorable DEF AcceptedVectorsAreStorable
    <2>2. plan[w].reply \in Replied
      BY <1>1, ChosenFacts DEF ShapeInv
    <2>3. Outcome(plan[w].reply) = "vector"
      BY <1>1, <2>1 DEF AnswerInv, AnswerAt, Taken
    <2>4. plan[w].reply.vectors \in Seq(Seq(Component))
      BY <2>2 DEF Replied
    <2>5. /\ Len(plan[w].reply.vectors) = 1
          /\ Validated(plan[w].reply.vectors[1])
      BY <2>2, <2>3, OutcomeOfReply
    <2> QED BY <2>4, <2>5
  <1> QED BY <1>1, AnswerAlways, PTL

-----------------------------------------------------------------------------
(* Behind the body limit the handlers behave as Search says: every theorem *)
(* above is one about SearchService.                                       *)
THEOREM ServiceImplementsSearch == ServiceSpec => Spec
  <1>1. ServiceInit => Init
    BY DEF ServiceInit
  <1>2. [ServiceNext]_serviceVars => [Next]_vars
    BY DEF ServiceNext, serviceVars, Middleware, Handlers, HandOver, Next
  <1> QED BY <1>1, <1>2, PTL DEF ServiceSpec, Spec

-----------------------------------------------------------------------------
(* The length of a body, by the least number that a claim fails for. *)

LEMMA Least ==
    ASSUME NEW S \in SUBSET Nat, S # {}
    PROVE  \E n \in S : \A m \in S : n <= m
  <1>1. IsWellFoundedOn(OpToRel(<, Nat), Nat)
    BY NatLessThanWellFounded
  <1>2. PICK n \in S : \A m \in S : ~(<<m, n>> \in OpToRel(<, Nat))
    BY <1>1, WFMin
  <1>3. \A m \in S : ~(m < n)
    BY <1>2 DEF OpToRel
  <1> QED BY <1>3

(* The lengths of the first k parts of s. *)
IsSum(f, s, k) ==
    f = [n \in 0..k |-> IF n = 0 THEN 0 ELSE f[n - 1] + s[n].bytes]

LEMMA SumExists == ASSUME NEW s, NEW k \in Nat PROVE \E f : IsSum(f, s, k)
  <1> DEFINE S == {i \in Nat : ~\E f : IsSum(f, s, i)}
  <1> SUFFICES ASSUME S # {} PROVE FALSE
    OBVIOUS
  <1>1. PICK n \in S : \A m \in S : n <= m
    BY Least
  <1>2. CASE n = 0
    <2>1. IsSum([i \in 0..0 |-> 0], s, 0)
      BY DEF IsSum
    <2> QED BY <1>2, <2>1
  <1>3. CASE n # 0
    <2>1. n - 1 \in Nat /\ n \in Nat
      BY <1>3
    <2>2. n - 1 \notin S
      BY <1>1, <2>1
    <2>3. PICK f : IsSum(f, s, n - 1)
      BY <2>1, <2>2
    <2>4. PICK g : g = [i \in 0..n |-> IF i = n THEN f[n - 1] + s[n].bytes ELSE f[i]]
      OBVIOUS
    <2>5. ASSUME NEW i \in 0..n
          PROVE  g[i] = IF i = 0 THEN 0 ELSE g[i - 1] + s[i].bytes
      <3>1. CASE i = n
        BY <1>3, <2>1, <2>4, <3>1
      <3>2. CASE i # n
        <4>1. i \in 0..(n - 1) /\ (i # 0 => i - 1 \in 0..(n - 1) /\ i - 1 \in 0..n /\ i - 1 # n)
          BY <2>1, <3>2
        <4>2. g[i] = f[i] /\ (i # 0 => g[i - 1] = f[i - 1])
          BY <2>4, <3>2, <4>1
        <4>3. f[i] = IF i = 0 THEN 0 ELSE f[i - 1] + s[i].bytes
          BY <2>3, <4>1 DEF IsSum
        <4> QED BY <4>2, <4>3
      <3> QED BY <3>1, <3>2
    <2>6. g = [i \in 0..n |-> g[i]]
      BY <2>4
    <2>7. IsSum(g, s, n)
      BY <2>5, <2>6 DEF IsSum
    <2> QED BY <2>7
  <1> QED BY <1>2, <1>3

SameUpTo(k, s, t) == \A i \in 1..k : s[i] = t[i]

LEMMA SumsAgree ==
    ASSUME NEW s, NEW t, NEW k \in Nat, NEW l \in Nat, k <= l, SameUpTo(k, s, t),
           NEW f, IsSum(f, s, k), NEW g, IsSum(g, t, l)
    PROVE  f[k] = g[k]
  <1> DEFINE S == {i \in 0..k : f[i] # g[i]}
  <1>1. SUFFICES ASSUME S # {} PROVE FALSE
    BY <1>1
  <1>0. S \in SUBSET Nat /\ S # {}
    BY <1>1
  <1>2. PICK n \in S : \A m \in S : n <= m
    <2> HIDE DEF S
    <2> QED BY <1>0, Least
  <1>3. n \in 0..k /\ n \in 0..l /\ f[n] # g[n]
    OBVIOUS
  <1>4. /\ f[n] = IF n = 0 THEN 0 ELSE f[n - 1] + s[n].bytes
        /\ g[n] = IF n = 0 THEN 0 ELSE g[n - 1] + t[n].bytes
    BY <1>3 DEF IsSum
  <1>5. n # 0 => n - 1 \in 0..k /\ n - 1 \notin S /\ n \in 1..k
    BY <1>2, <1>3
  <1> QED BY <1>3, <1>4, <1>5 DEF SameUpTo

LEMMA BytesIsSum ==
    ASSUME NEW s, Len(s) \in Nat, NEW f, IsSum(f, s, Len(s))
    PROVE  Bytes(s) = f[Len(s)]
  <1>1. PICK g : g = CHOOSE sum : sum = [n \in 0..Len(s) |->
                         IF n = 0 THEN 0 ELSE sum[n - 1] + s[n].bytes]
    OBVIOUS
  <1>2. IsSum(g, s, Len(s))
    BY <1>1 DEF IsSum
  <1>3. Bytes(s) = g[Len(s)]
    BY <1>1 DEF Bytes
  <1>4. g[Len(s)] = f[Len(s)]
    BY <1>2, SumsAgree DEF SameUpTo
  <1> QED BY <1>3, <1>4

(* A longer part of a body is no shorter in bytes. *)
LEMMA BytesOfParts ==
    ASSUME NEW M, \A m \in M : m.bytes \in Nat, NEW s \in Seq(M)
    PROVE  /\ \A n \in 0..Len(s) : Bytes(SubSeq(s, 1, n)) \in Nat
           /\ Bytes(SubSeq(s, 1, 0)) = 0
           /\ \A n \in 1..Len(s) :
                 Bytes(SubSeq(s, 1, n)) = Bytes(SubSeq(s, 1, n - 1)) + s[n].bytes
           /\ \A n, m \in 0..Len(s) :
                 n <= m => Bytes(SubSeq(s, 1, n)) <= Bytes(SubSeq(s, 1, m))
  <1> DEFINE L == Len(s)
  <1>1. L \in Nat /\ \A i \in 1..L : s[i].bytes \in Nat
    OBVIOUS
  <1> HIDE DEF L
  <1>2. PICK f : IsSum(f, s, L)
    BY <1>1, SumExists
  <1>3. \A n \in 0..L : f[n] = IF n = 0 THEN 0 ELSE f[n - 1] + s[n].bytes
    BY <1>2 DEF IsSum
  <1>4. ASSUME NEW n \in 0..L PROVE Bytes(SubSeq(s, 1, n)) = f[n]
    <2>1. PICK t : t = SubSeq(s, 1, n)
      OBVIOUS
    <2>2. Len(t) = n /\ \A i \in 1..n : t[i] = s[i]
      BY <1>1, <2>1, SubSeqProperties DEF L
    <2>3. SameUpTo(n, t, s)
      BY <2>2 DEF SameUpTo
    <2>4. n \in Nat /\ n <= L
      BY <1>1
    <2>5. PICK g : IsSum(g, t, n)
      BY <2>4, SumExists
    <2>6. Bytes(t) = g[n]
      BY <2>2, <2>4, <2>5, BytesIsSum
    <2>7. g[n] = f[n]
      BY <1>1, <1>2, <2>3, <2>4, <2>5, SumsAgree
    <2> QED BY <2>1, <2>6, <2>7
  <1>5. \A n \in 0..L : f[n] \in Nat
    <2> DEFINE S == {i \in 0..L : f[i] \notin Nat}
    <2>1. SUFFICES ASSUME S # {} PROVE FALSE
      BY <2>1
    <2>0. S \in SUBSET Nat /\ S # {}
      BY <1>1, <2>1
    <2>2. PICK n \in S : \A m \in S : n <= m
      <3> HIDE DEF S
      <3> QED BY <2>0, Least
    <2>3. n \in 0..L /\ f[n] \notin Nat
      OBVIOUS
    <2>4. n # 0
      BY <1>3, <2>3
    <2>5. n - 1 \in 0..L /\ n - 1 \notin S /\ n \in 1..L
      BY <1>1, <2>2, <2>3, <2>4
    <2>6. f[n - 1] \in Nat /\ s[n].bytes \in Nat
      BY <1>1, <2>5
    <2>7. f[n] = f[n - 1] + s[n].bytes
      BY <1>3, <2>3, <2>4
    <2> QED BY <2>3, <2>6, <2>7
  <1>6. \A n \in 1..L : n - 1 \in 0..L /\ n \in 0..L /\ f[n] = f[n - 1] + s[n].bytes
    BY <1>1, <1>3
  <1>7. ASSUME NEW n \in 0..L, NEW m \in 0..L, n <= m PROVE f[n] <= f[m]
    <2> DEFINE S == {i \in 0..L : n <= i /\ ~(f[n] <= f[i])}
    <2>1. SUFFICES ASSUME S # {} PROVE FALSE
      BY <1>7, <2>1
    <2>0. S \in SUBSET Nat /\ S # {}
      BY <1>1, <2>1
    <2>2. PICK i \in S : \A j \in S : i <= j
      <3> HIDE DEF S
      <3> QED BY <2>0, Least
    <2>3. i \in 0..L /\ n <= i /\ ~(f[n] <= f[i]) /\ i # n
      BY <1>5
    <2>4. i - 1 \in 0..L /\ n <= i - 1 /\ i \in 1..L
      BY <1>1, <2>3
    <2>5. f[n] <= f[i - 1]
      BY <1>1, <2>2, <2>4
    <2>6. f[i] = f[i - 1] + s[i].bytes /\ s[i].bytes \in Nat
      BY <1>1, <1>6, <2>4
    <2> QED BY <1>5, <2>3, <2>4, <2>5, <2>6
  <1>8. 0 \in 0..L /\ f[0] = 0
    BY <1>1, <1>3
  <1> QED BY <1>4, <1>5, <1>6, <1>7, <1>8 DEF L

-----------------------------------------------------------------------------
(* The body limit in front of the handlers. *)

Message == [type : {"request", "disconnect"}, bytes : Nat, more : BOOLEAN]

Body(w) == sent[w].messages
Received(w) == SubSeq(Body(w), 1, pulled[w])

Phases == {"check", "buffer", "app", "complete", "gone", "refused", "outside"}

(* What has been received is buffered, what the application has read is a  *)
(* first part of it, and no message but the last ends the buffering.       *)
BufferAt(w) ==
    /\ phase[w] \in Phases
    /\ pulled[w] \in 0..Len(Body(w))
    /\ buffered[w] = Received(w)
    /\ Len(got[w]) \in 0..pulled[w]
    /\ got[w] = SubSeq(Body(w), 1, Len(got[w]))
    /\ \A i \in 1..(pulled[w] - 1) : ~BufferEnds(Body(w)[i])

(* How far each phase has come. *)
PhaseAt(w) ==
    /\ phase[w] \in {"check", "outside"} => pulled[w] = 0
    /\ phase[w] = "buffer" => \A i \in 1..pulled[w] : ~BufferEnds(Body(w)[i])
    /\ phase[w] \in {"check", "outside", "buffer", "refused"} => got[w] = <<>>
    /\ phase[w] = "app" => Len(got[w]) < pulled[w]
    /\ phase[w] \in {"app", "complete", "gone"} =>
          pulled[w] > 0 /\ BufferEnds(Body(w)[pulled[w]])
    /\ phase[w] = "complete" =>
          Len(got[w]) = pulled[w] /\ ~Body(w)[pulled[w]].more

(* Only the message that a request is refused for may pass the limit. *)
LimitAt(w) ==
    /\ phase[w] # "refused" => Bytes(Received(w)) <= MaxBytes
    /\ phase[w] = "refused" /\ pulled[w] > 0 =>
          Bytes(SubSeq(Body(w), 1, pulled[w] - 1)) <= MaxBytes

BodyAt(w) == BufferAt(w) /\ PhaseAt(w) /\ LimitAt(w)

(* Who has responded: the middleware, or the handlers once the body is     *)
(* complete; they run for no other request.                                *)
ResponseAt(w) ==
    /\ started[w] = (IF phase[w] \in {"refused", "gone"} THEN 1 ELSE 0)
                       + (IF answer[w] # NoAnswer THEN 1 ELSE 0)
    /\ phase[w] # "complete" => pc[w] \in {"new", "done"} /\ answer[w] = NoAnswer

SentInv == sent = [w \in Workers |-> plan[w].body]

BodyTables ==
    /\ DOMAIN phase = Workers /\ DOMAIN pulled = Workers
    /\ DOMAIN buffered = Workers /\ DOMAIN got = Workers
    /\ DOMAIN started = Workers

ServiceInv ==
    /\ ShapeInv /\ SentInv /\ BodyTables
    /\ \A w \in Workers : BodyAt(w) /\ ResponseAt(w)

LEMMA PartGrows ==
    ASSUME NEW M, NEW s \in Seq(M), NEW n \in 0..(Len(s) - 1)
    PROVE  /\ Append(SubSeq(s, 1, n), s[n + 1]) = SubSeq(s, 1, n + 1)
           /\ Len(SubSeq(s, 1, n)) = n
           /\ Len(SubSeq(s, 1, n + 1)) = n + 1
  <1>1. /\ SubSeq(s, 1, n) \in Seq(M) /\ Len(SubSeq(s, 1, n)) = n
        /\ \A i \in 1..n : SubSeq(s, 1, n)[i] = s[i]
    BY SubSeqProperties
  <1>2. /\ SubSeq(s, 1, n + 1) \in Seq(M) /\ Len(SubSeq(s, 1, n + 1)) = n + 1
        /\ \A i \in 1..(n + 1) : SubSeq(s, 1, n + 1)[i] = s[i]
    BY SubSeqProperties
  <1>3. PICK a : a = Append(SubSeq(s, 1, n), s[n + 1])
    OBVIOUS
  <1>4. /\ a \in Seq(M) /\ Len(a) = n + 1
        /\ \A i \in 1..(n + 1) : a[i] = s[i]
    <2>1. s[n + 1] \in M
      OBVIOUS
    <2> QED BY <1>1, <1>3, <2>1
  <1>5. a = SubSeq(s, 1, n + 1)
    BY <1>2, <1>4, SeqEqual
  <1> QED BY <1>1, <1>2, <1>3, <1>5

LEMMA BodyFacts ==
    ASSUME Chosen, SentInv, NEW w \in Workers
    PROVE  /\ Body(w) \in Seq(Message)
           /\ Len(Body(w)) \in Nat \ {0}
           /\ BufferEnds(Body(w)[Len(Body(w))])
  <1>1. PICK s \in Scenarios : plan = s.plan
    BY DEF Chosen
  <1>2. Body(w) = s.plan[w].body.messages
    BY <1>1 DEF Body, SentInv
  <1>3. /\ Body(w) \in Seq(Message) /\ Body(w) # <<>>
        /\ Body(w)[Len(Body(w))].type = "disconnect"
    BY <1>2, BodiesAssumption DEF Message, Last
  <1> QED BY <1>3 DEF BufferEnds

LEMMA ServiceStarts == ServiceInit => ServiceInv
  <1> SUFFICES ASSUME ServiceInit PROVE ServiceInv
    OBVIOUS
  <1>1. ShapeInv
    BY ShapeInit DEF ServiceInit
  <1>2. SentInv /\ BodyTables
    BY SendersAssumption DEF ServiceInit, BodyInit, SentInv, BodyTables
  <1>3. ASSUME NEW w \in Workers PROVE BodyAt(w) /\ ResponseAt(w)
    <2>1. /\ phase[w] = "check" /\ pulled[w] = 0 /\ buffered[w] = <<>> /\ got[w] = <<>>
          /\ started[w] = 0 /\ pc[w] \in {"new", "done"} /\ answer[w] = NoAnswer
      BY SendersAssumption DEF ServiceInit, BodyInit, Init
    <2>2. Body(w) \in Seq(Message) /\ Len(Body(w)) \in Nat
      BY <1>1, <1>2, BodyFacts DEF ShapeInv
    <2>3. SubSeq(Body(w), 1, 0) = <<>> /\ Len(<<>>) = 0
      BY SubSeqEmpty
    <2>4. \A m \in Message : m.bytes \in Nat
      BY DEF Message
    <2>5. Bytes(<<>>) = 0
      BY <2>2, <2>3, <2>4, BytesOfParts
    <2>6. BufferAt(w)
      BY <2>1, <2>2, <2>3 DEF BufferAt, Received, Phases
    <2>7. PhaseAt(w)
      BY <2>1 DEF PhaseAt
    <2>8. LimitAt(w)
      <3>1. Received(w) = <<>>
        BY <2>1, <2>3 DEF Received
      <3>2. Bytes(Received(w)) <= MaxBytes
        BY <2>5, <3>1, MaxBytesAssumption
      <3>3. ~(pulled[w] > 0)
        BY <2>1
      <3> QED BY <3>2, <3>3 DEF LimitAt
    <2>9. ResponseAt(w)
      BY <2>1 DEF ResponseAt
    <2> QED BY <2>6, <2>7, <2>8, <2>9 DEF BodyAt
  <1> QED BY <1>1, <1>2, <1>3 DEF ServiceInv

(* A worker whose columns stay as they are keeps what holds of it. *)
LEMMA BodyStands ==
    ASSUME NEW w \in Workers, BodyAt(w), sent' = sent,
           phase'[w] = phase[w], pulled'[w] = pulled[w],
           buffered'[w] = buffered[w], got'[w] = got[w]
    PROVE  BodyAt(w)'
  <1>1. Body(w)' = Body(w) /\ Received(w)' = Received(w)
    BY DEF Body, Received
  <1>2. BufferAt(w)'
    BY <1>1 DEF BodyAt, BufferAt
  <1>3. PhaseAt(w)'
    BY <1>1 DEF BodyAt, PhaseAt
  <1>4. LimitAt(w)'
    BY <1>1 DEF BodyAt, LimitAt
  <1> QED BY <1>2, <1>3, <1>4 DEF BodyAt

LEMMA ResponseStands ==
    ASSUME NEW w \in Workers, ResponseAt(w), phase'[w] = phase[w],
           started'[w] = started[w], pc'[w] = pc[w], answer'[w] = answer[w]
    PROVE  ResponseAt(w)'
  BY DEF ResponseAt

(* One step of the middleware for w, and what it leaves alone. *)
LEMMA OneSender ==
    ASSUME BodyTables, NEW w \in Workers, BodyStep(w)
    PROVE  /\ sent' = sent /\ BodyTables'
           /\ \A v \in Workers \ {w} :
                 /\ phase'[v] = phase[v] /\ pulled'[v] = pulled[v]
                 /\ buffered'[v] = buffered[v] /\ got'[v] = got[v]
                 /\ started'[v] = started[v]
  <1> USE DEF BodyTables, Enter, Respond
  <1>1. CASE PassOutside(w)
    BY <1>1 DEF PassOutside
  <1>2. CASE CheckLength(w)
    BY <1>2 DEF CheckLength
  <1>3. CASE BufferMessage(w)
    BY <1>3 DEF BufferMessage
  <1>4. CASE ReplayMessage(w)
    BY <1>4 DEF ReplayMessage
  <1> QED BY <1>1, <1>2, <1>3, <1>4 DEF BodyStep

LEMMA NotYetBuffered ==
    ASSUME ServiceInv, NEW w \in Workers, PassOutside(w) \/ CheckLength(w),
           UNCHANGED vars
    PROVE  BodyAt(w)' /\ ResponseAt(w)'
  <1>1. /\ BodyTables /\ BufferAt(w) /\ PhaseAt(w) /\ LimitAt(w) /\ ResponseAt(w)
        /\ pulled[w] = 0 /\ got[w] = <<>> /\ phase[w] = "check"
    BY DEF ServiceInv, BodyAt, PhaseAt, PassOutside, CheckLength
  <1>2. /\ sent' = sent /\ pulled' = pulled /\ buffered' = buffered /\ got' = got
        /\ \/ phase'[w] \in {"outside", "buffer"} /\ started'[w] = started[w]
           \/ phase'[w] = "refused" /\ started'[w] = started[w] + 1
    BY <1>1 DEF BodyTables, PassOutside, CheckLength, Enter, Respond
  <1>3. pc' = pc /\ answer' = answer
    BY DEF vars
  <1>4. Body(w)' = Body(w) /\ Received(w)' = Received(w)
    BY <1>2 DEF Body, Received
  <1>5. BufferAt(w)'
    BY <1>1, <1>2, <1>4 DEF BufferAt, Phases
  <1>6. PhaseAt(w)'
    BY <1>1, <1>2, <1>4 DEF PhaseAt
  <1>7. LimitAt(w)'
    BY <1>1, <1>2, <1>4 DEF LimitAt
  <1>8. ResponseAt(w)'
    BY <1>1, <1>2, <1>3 DEF ResponseAt
  <1> QED BY <1>5, <1>6, <1>7, <1>8 DEF BodyAt

LEMMA OneMoreBuffered ==
    ASSUME ServiceInv, NEW w \in Workers, BufferMessage(w), UNCHANGED vars
    PROVE  BodyAt(w)' /\ ResponseAt(w)'
  <1> DEFINE B == Body(w)
             n == pulled[w]
             m == B[n + 1]
  <1>1. /\ BodyTables /\ BufferAt(w) /\ PhaseAt(w) /\ LimitAt(w) /\ ResponseAt(w)
        /\ phase[w] = "buffer" /\ got[w] = <<>>
    BY DEF ServiceInv, BodyAt, PhaseAt, BufferMessage
  <1>2. /\ B \in Seq(Message) /\ Len(B) \in Nat \ {0} /\ BufferEnds(B[Len(B)])
    BY BodyFacts DEF ServiceInv, ShapeInv
  <1>3. n \in 0..Len(B) /\ \A i \in 1..n : ~BufferEnds(B[i])
    BY <1>1 DEF BufferAt, PhaseAt
  <1>4. n \in 0..(Len(B) - 1)
    <2>1. n # Len(B)
      BY <1>2, <1>3
    <2> QED BY <1>2, <1>3, <2>1
  <1>5. buffered[w] = SubSeq(B, 1, n)
    BY <1>1 DEF BufferAt, Received
  <1>6. Delivered(w) = m
    BY DEF Delivered, Body
  <1>7. /\ sent' = sent /\ got' = got
        /\ pulled'[w] = n + 1
        /\ buffered'[w] = Append(buffered[w], m)
        /\ \/ TotalTooLarge(w) /\ phase'[w] = "refused" /\ started'[w] = started[w] + 1
           \/ /\ ~TotalTooLarge(w) /\ started'[w] = started[w]
              /\ phase'[w] = IF BufferEnds(m) THEN "app" ELSE "buffer"
    BY <1>1, <1>6 DEF BodyTables, BufferMessage, Enter, Respond
  <1>8. pc' = pc /\ answer' = answer
    BY DEF vars
  <1>9. Body(w)' = B
    BY <1>7 DEF Body
  <1>10. Received(w)' = SubSeq(B, 1, n + 1)
    BY <1>7, <1>9 DEF Received
  <1>11. buffered'[w] = SubSeq(B, 1, n + 1)
    BY <1>2, <1>4, <1>5, <1>7, PartGrows
  <1>12. /\ Bytes(SubSeq(B, 1, n)) \in Nat /\ Bytes(SubSeq(B, 1, n)) <= MaxBytes
         /\ Bytes(SubSeq(B, 1, n + 1)) = Bytes(SubSeq(B, 1, n)) + m.bytes
         /\ m.bytes \in Nat
    <2>1. \A x \in Message : x.bytes \in Nat
      BY DEF Message
    <2>2. /\ \A i \in 0..Len(B) : Bytes(SubSeq(B, 1, i)) \in Nat
          /\ \A i \in 1..Len(B) :
                Bytes(SubSeq(B, 1, i)) = Bytes(SubSeq(B, 1, i - 1)) + B[i].bytes
      BY <1>2, <2>1, BytesOfParts
    <2>3. n + 1 \in 1..Len(B) /\ n \in 0..Len(B) /\ (n + 1) - 1 = n /\ m \in Message
      BY <1>2, <1>4
    <2>4. Bytes(SubSeq(B, 1, n + 1)) = Bytes(SubSeq(B, 1, (n + 1) - 1)) + m.bytes
      BY <2>2, <2>3
    <2>5. Bytes(SubSeq(B, 1, n)) <= MaxBytes
      BY <1>1 DEF LimitAt, Received
    <2> QED BY <2>1, <2>2, <2>3, <2>4, <2>5
  <1>13. TotalTooLarge(w) <=> Bytes(SubSeq(B, 1, n + 1)) > MaxBytes
    BY <1>5, <1>6, <1>12 DEF TotalTooLarge
  <1> HIDE DEF B, n, m
  <1>14. BufferAt(w)'
    <2>1. phase'[w] \in Phases
      BY <1>7 DEF Phases
    <2>2. n + 1 \in 0..Len(B) /\ (n + 1) - 1 = n
      BY <1>2, <1>4
    <2>3. Len(got'[w]) = 0 /\ 0 \in 0..(n + 1) /\ got'[w] = SubSeq(B, 1, 0)
      <3>1. got'[w] = <<>>
        BY <1>1, <1>7
      <3>2. Len(<<>>) = 0 /\ SubSeq(B, 1, 0) = <<>>
        BY SubSeqEmpty
      <3>3. 0 \in 0..(n + 1)
        BY <1>4
      <3> QED BY <3>1, <3>2, <3>3
    <2> QED BY <1>3, <1>7, <1>9, <1>10, <1>11, <2>1, <2>2, <2>3 DEF BufferAt
  <1>15. PhaseAt(w)'
    <2>1. n + 1 > 0 /\ B[n + 1] = m
      BY <1>4 DEF m
    <2>2. ~BufferEnds(m) => \A i \in 1..(n + 1) : ~BufferEnds(B[i])
      BY <1>3, <1>4, <2>1
    <2>3. got'[w] = <<>> /\ Len(got'[w]) = 0
      BY <1>1, <1>7
    <2> QED BY <1>7, <1>9, <2>1, <2>2, <2>3 DEF PhaseAt
  <1>16. LimitAt(w)'
    <2>1. (n + 1) - 1 = n /\ MaxBytes \in Nat
      BY <1>4, MaxBytesAssumption
    <2>2. ~TotalTooLarge(w) => Bytes(SubSeq(B, 1, n + 1)) <= MaxBytes
      BY <1>12, <1>13, <2>1
    <2> QED BY <1>7, <1>9, <1>10, <1>12, <2>1, <2>2 DEF LimitAt
  <1>17. ResponseAt(w)'
    BY <1>1, <1>7, <1>8 DEF ResponseAt
  <1> QED BY <1>14, <1>15, <1>16, <1>17 DEF BodyAt

LEMMA OneMoreReplayed ==
    ASSUME ServiceInv, NEW w \in Workers, ReplayMessage(w), UNCHANGED vars
    PROVE  BodyAt(w)' /\ ResponseAt(w)'
  <1> DEFINE B == Body(w)
             n == pulled[w]
             g == Len(got[w])
             m == B[g + 1]
  <1>1. /\ BodyTables /\ BufferAt(w) /\ PhaseAt(w) /\ LimitAt(w) /\ ResponseAt(w)
        /\ phase[w] = "app"
    BY DEF ServiceInv, BodyAt, ReplayMessage
  <1>2. B \in Seq(Message) /\ Len(B) \in Nat \ {0}
    BY BodyFacts DEF ServiceInv, ShapeInv
  <1>3. /\ n \in 0..Len(B) /\ g \in 0..n /\ g < n /\ n > 0
        /\ buffered[w] = SubSeq(B, 1, n) /\ got[w] = SubSeq(B, 1, g)
        /\ \A i \in 1..(n - 1) : ~BufferEnds(B[i])
        /\ BufferEnds(B[n])
    BY <1>1 DEF BufferAt, PhaseAt, Received
  <1>4. g \in 0..(Len(B) - 1) /\ g + 1 \in 1..n /\ n \in 0..Len(B)
    BY <1>2, <1>3
  <1>5. buffered[w][g + 1] = m
    BY <1>2, <1>3, <1>4
  <1>6. /\ sent' = sent /\ pulled' = pulled /\ buffered' = buffered
        /\ got'[w] = Append(got[w], m)
        /\ \/ m.type # "request" /\ phase'[w] = "gone" /\ started'[w] = started[w] + 1
           \/ /\ m.type = "request" /\ started'[w] = started[w]
              /\ phase'[w] = IF m.more THEN "app" ELSE "complete"
    BY <1>1, <1>5 DEF BodyTables, ReplayMessage, Enter, Respond
  <1>7. pc' = pc /\ answer' = answer
    BY DEF vars
  <1>8. Body(w)' = B /\ Received(w)' = Received(w)
    BY <1>6 DEF Body, Received
  <1>9. got'[w] = SubSeq(B, 1, g + 1) /\ Len(got'[w]) = g + 1
    BY <1>2, <1>3, <1>4, <1>6, PartGrows
  <1>10. m.type = "request" => (m.more <=> g + 1 < n)
    <2>1. CASE g + 1 < n
      <3>1. g + 1 \in 1..(n - 1)
        BY <1>3, <1>4, <2>1
      <3> QED BY <1>3, <2>1, <3>1 DEF BufferEnds
    <2>2. CASE ~(g + 1 < n)
      <3>1. g + 1 = n
        BY <1>3, <1>4, <2>2
      <3> QED BY <1>3, <2>2, <3>1 DEF BufferEnds
    <2> QED BY <2>1, <2>2
  <1> HIDE DEF B, n, g, m
  <1>11. BufferAt(w)'
    <2>1. phase'[w] \in Phases
      BY <1>6 DEF Phases
    <2>2. g + 1 \in 0..n
      BY <1>3, <1>4
    <2> QED BY <1>1, <1>6, <1>8, <1>9, <2>1, <2>2 DEF BufferAt, n, B
  <1>12. PhaseAt(w)'
    <2>1. pulled'[w] = n /\ n > 0 /\ BufferEnds(B[n])
      BY <1>3, <1>6 DEF n
    <2>2. phase'[w] = "app" => g + 1 < n
      BY <1>6, <1>10
    <2>3. phase'[w] = "complete" => g + 1 = n /\ ~B[n].more
      <3>1. phase'[w] = "complete" => ~m.more /\ ~(g + 1 < n)
        BY <1>6, <1>10
      <3>2. ~(g + 1 < n) => g + 1 = n
        BY <1>3, <1>4
      <3> QED BY <3>1, <3>2 DEF m
    <2>4. phase'[w] \in {"app", "complete", "gone"}
      BY <1>6
    <2> QED BY <1>8, <1>9, <2>1, <2>2, <2>3, <2>4 DEF PhaseAt
  <1>13. LimitAt(w)'
    BY <1>1, <1>6, <1>8 DEF LimitAt
  <1>14. ResponseAt(w)'
    BY <1>1, <1>6, <1>7 DEF ResponseAt
  <1> QED BY <1>11, <1>12, <1>13, <1>14 DEF BodyAt

LEMMA MiddlewareKeeps ==
    ASSUME ServiceInv, NEW w \in Workers, BodyStep(w), UNCHANGED vars
    PROVE  ServiceInv'
  <1>1. ShapeInv'
    BY ShapeNext DEF ServiceInv
  <1>2. /\ sent' = sent /\ BodyTables'
        /\ \A v \in Workers \ {w} :
              /\ phase'[v] = phase[v] /\ pulled'[v] = pulled[v]
              /\ buffered'[v] = buffered[v] /\ got'[v] = got[v]
              /\ started'[v] = started[v]
    BY OneSender DEF ServiceInv
  <1>3. SentInv'
    BY <1>2 DEF ServiceInv, SentInv, vars
  <1>4. BodyAt(w)' /\ ResponseAt(w)'
    BY NotYetBuffered, OneMoreBuffered, OneMoreReplayed DEF BodyStep
  <1>5. ASSUME NEW v \in Workers \ {w} PROVE BodyAt(v)' /\ ResponseAt(v)'
    <2>1. BodyAt(v) /\ ResponseAt(v) /\ pc'[v] = pc[v] /\ answer'[v] = answer[v]
      BY DEF ServiceInv, vars
    <2> QED BY <1>2, <2>1, BodyStands, ResponseStands
  <1> QED BY <1>1, <1>2, <1>3, <1>4, <1>5 DEF ServiceInv

(* A handler's step answers at most once, and moves no other worker. *)
LEMMA OneHandler ==
    ASSUME ShapeInv, NEW w \in Workers, Receive(w) \/ Serve(w)
    PROVE  /\ plan' = plan /\ pc[w] # "done" /\ (Serve(w) => pc[w] # "new")
           /\ \A v \in Workers \ {w} : pc'[v] = pc[v] /\ answer'[v] = answer[v]
           /\ answer[w] # NoAnswer => answer'[w] = answer[w]
  <1>1. ShapeAt(w) /\ TypeOK
    BY DEF ShapeInv
  <1>2. \/ answer' = answer
        \/ \E r : answer' = [answer EXCEPT ![w] = r]
    BY DEF Serve, Receive, Authenticate, PoolTimeout, EndAuthRead, EmbedQuery,
           ApplyGuards, ReadBack, RunHybrid, EndIngest, DatabaseFails, Close, Answer
  <1>3. \E l : pc' = [pc EXCEPT ![w] = l]
    BY DEF Serve, Receive, Authenticate, PoolTimeout, EndAuthRead, EmbedQuery,
           ApplyGuards, ReadBack, RunHybrid, EndIngest, DatabaseFails, Close, Answer,
           Goto
  <1>4. /\ plan' = plan /\ pc[w] # "done" /\ (Serve(w) => pc[w] # "new")
        /\ pc[w] = "close" => answer' = answer
    BY DEF Serve, Receive, Authenticate, PoolTimeout, EndAuthRead, EmbedQuery,
           ApplyGuards, ReadBack, RunHybrid, EndIngest, DatabaseFails, Close
  <1>5. answer[w] # NoAnswer => answer'[w] = answer[w]
    BY <1>1, <1>4 DEF ShapeAt
  <1>6. ASSUME NEW v \in Workers \ {w} PROVE pc'[v] = pc[v] /\ answer'[v] = answer[v]
    BY <1>1, <1>2, <1>3 DEF TypeOK
  <1> QED BY <1>4, <1>5, <1>6

LEMMA HandlersKeep ==
    ASSUME ServiceInv, NEW w \in Workers, Handlers(w)
    PROVE  ServiceInv'
  <1>1. Receive(w) \/ Serve(w)
    BY DEF Handlers, HandOver
  <1>2. ShapeInv'
    BY <1>1, ShapeNext DEF ServiceInv, Next
  <1>3. /\ plan' = plan /\ pc[w] # "done" /\ (Serve(w) => pc[w] # "new")
        /\ \A v \in Workers \ {w} : pc'[v] = pc[v] /\ answer'[v] = answer[v]
        /\ answer[w] # NoAnswer => answer'[w] = answer[w]
    BY <1>1, OneHandler DEF ServiceInv
  <1>4. /\ sent' = sent /\ phase' = phase /\ pulled' = pulled
        /\ buffered' = buffered /\ got' = got
        /\ DOMAIN started' = Workers
        /\ \A v \in Workers :
              started'[v] = started[v] + IF answer'[v] # answer[v] THEN 1 ELSE 0
    BY DEF Handlers, StartsResponse
  <1>5. SentInv' /\ BodyTables'
    BY <1>3, <1>4 DEF ServiceInv, SentInv, BodyTables
  <1>6. phase[w] = "complete"
    BY <1>3 DEF Handlers, HandOver, ServiceInv, ResponseAt
  <1>7. ASSUME NEW v \in Workers PROVE BodyAt(v)'
    BY <1>4, BodyStands DEF ServiceInv
  <1>8. ResponseAt(w)'
    <2>1. started[w] = IF answer[w] # NoAnswer THEN 1 ELSE 0
      BY <1>6 DEF ServiceInv, ResponseAt
    <2>2. started'[w] = IF answer'[w] # NoAnswer THEN 1 ELSE 0
      BY <1>3, <1>4, <2>1
    <2> QED BY <1>4, <1>6, <2>2 DEF ResponseAt
  <1>9. ASSUME NEW v \in Workers \ {w} PROVE ResponseAt(v)'
    <2>1. ResponseAt(v) /\ pc'[v] = pc[v] /\ answer'[v] = answer[v]
      BY <1>3 DEF ServiceInv
    <2>2. started[v] \in {0, 1, 2}
      BY <2>1 DEF ResponseAt
    <2>3. started'[v] = started[v]
      BY <1>4, <2>1, <2>2
    <2> QED BY <1>4, <2>1, <2>3, ResponseStands
  <1> QED BY <1>2, <1>5, <1>7, <1>8, <1>9 DEF ServiceInv

LEMMA ServiceStep == ServiceInv /\ [ServiceNext]_serviceVars => ServiceInv'
  <1> SUFFICES ASSUME ServiceInv, [ServiceNext]_serviceVars PROVE ServiceInv'
    OBVIOUS
  <1>1. ASSUME NEW w \in Workers, Middleware(w) PROVE ServiceInv'
    BY <1>1, MiddlewareKeeps DEF Middleware
  <1>2. ASSUME NEW w \in Workers, Handlers(w) PROVE ServiceInv'
    BY <1>2, HandlersKeep
  <1>3. CASE UNCHANGED serviceVars
    <2>1. /\ sent' = sent /\ phase' = phase /\ pulled' = pulled
          /\ buffered' = buffered /\ got' = got /\ started' = started
          /\ UNCHANGED vars
      BY <1>3 DEF serviceVars, bodyVars
    <2>2. ShapeInv'
      BY <2>1, ShapeNext DEF ServiceInv
    <2>3. plan' = plan /\ pc' = pc /\ answer' = answer
      BY <2>1 DEF vars
    <2>4. SentInv' /\ BodyTables'
      BY <2>1, <2>3 DEF ServiceInv, SentInv, BodyTables
    <2>5. ASSUME NEW v \in Workers PROVE BodyAt(v)' /\ ResponseAt(v)'
      BY <2>1, <2>3, BodyStands, ResponseStands DEF ServiceInv
    <2> QED BY <2>2, <2>4, <2>5 DEF ServiceInv
  <1> QED BY <1>1, <1>2, <1>3 DEF ServiceNext

LEMMA ServiceAlways == ServiceSpec => []ServiceInv
  BY ServiceStarts, ServiceStep, PTL DEF ServiceSpec

(* Whatever body a request has, and wherever its reading stops, it is sent *)
(* at most one response: the refusal of the middleware excludes that of    *)
(* the handlers, and they answer once (body_limit.py:83-120).              *)
THEOREM OneResponseEach == ServiceSpec => []OneResponse
  <1>1. ServiceInv => OneResponse
    <2> SUFFICES ASSUME ServiceInv, NEW w \in Workers PROVE started[w] <= 1
      BY SendersAssumption DEF OneResponse
    <2>1. ResponseAt(w)
      BY DEF ServiceInv
    <2> QED BY <2>1 DEF ResponseAt
  <1> QED BY <1>1, ServiceAlways, PTL

(* The application reads the client's messages in order and from the first,*)
(* to the end or to a disconnect, and never more bytes than the limit; of  *)
(* a refused body it reads nothing, and nothing is received after the      *)
(* message that passed the limit (body_limit.py:90-120).                   *)
THEOREM BodyIsWholeAndBounded == ServiceSpec => []AppSeesWholeBody
  <1>1. ASSUME ServiceInv, NEW w \in Workers
        PROVE  LET taken == SubSeq(sent[w].messages, 1, pulled[w]) IN
               /\ IsPrefix(got[w], sent[w].messages)
               /\ Bytes(got[w]) <= MaxBytes
               /\ phase[w] = "refused" => got[w] = <<>>
               /\ phase[w] = "complete" => ~Last(got[w]).more
               /\ taken # <<>> => Bytes(Front(taken)) <= MaxBytes
    <2> DEFINE B == sent[w].messages
               n == pulled[w]
               g == Len(got[w])
    <2>1. B \in Seq(Message) /\ Len(B) \in Nat
      BY <1>1, BodyFacts DEF ServiceInv, ShapeInv, Body
    <2>2. /\ n \in 0..Len(B) /\ g \in 0..n /\ got[w] = SubSeq(B, 1, g)
          /\ PhaseAt(w) /\ LimitAt(w)
      BY <1>1 DEF ServiceInv, BodyAt, BufferAt, Body
    <2>3. \A m \in Message : m.bytes \in Nat
      BY DEF Message
    <2>4. /\ \A i \in 0..Len(B) : Bytes(SubSeq(B, 1, i)) \in Nat
          /\ Bytes(SubSeq(B, 1, 0)) = 0
          /\ \A i, j \in 0..Len(B) :
                i <= j => Bytes(SubSeq(B, 1, i)) <= Bytes(SubSeq(B, 1, j))
      BY <2>1, <2>3, BytesOfParts
    <2>5. /\ phase[w] # "refused" => Bytes(SubSeq(B, 1, n)) <= MaxBytes
          /\ phase[w] = "refused" /\ n > 0 => Bytes(SubSeq(B, 1, n - 1)) <= MaxBytes
          /\ phase[w] = "refused" => got[w] = <<>>
          /\ phase[w] = "complete" => g = n /\ ~B[n].more /\ n > 0
      BY <2>2 DEF LimitAt, PhaseAt, Received, Body
    <2> HIDE DEF B, n, g
    <2>6. MaxBytes \in Nat
      BY MaxBytesAssumption
    <2>7. g \in 0..Len(B) /\ n \in Nat /\ g <= n
      BY <2>1, <2>2
    <2>8. IsPrefix(got[w], B)
      <3>1. got[w] \in Seq(Message) /\ SubSeq(got[w], 1, g) = got[w]
        <4>1. /\ got[w] \in Seq(Message) /\ Len(got[w]) = g
              /\ \A i \in 1..g : got[w][i] = B[i]
          BY <2>1, <2>2, <2>7, SubSeqProperties DEF g
        <4>2. /\ SubSeq(got[w], 1, g) \in Seq(Message) /\ Len(SubSeq(got[w], 1, g)) = g
              /\ \A i \in 1..g : SubSeq(got[w], 1, g)[i] = got[w][i]
          BY <2>1, <2>7, <4>1, SubSeqProperties
        <4> QED BY <4>1, <4>2, SeqEqual
      <3>2. g <= Len(B)
        BY <2>1, <2>7
      <3> QED BY <2>2, <3>1, <3>2 DEF IsPrefix, g
    <2>9. Bytes(got[w]) <= MaxBytes
      <3>1. CASE phase[w] = "refused"
        <4>1. SubSeq(B, 1, 0) = <<>>
          BY SubSeqEmpty
        <4>2. got[w] = <<>>
          BY <2>5, <3>1
        <4>3. Bytes(<<>>) = 0
          BY <2>4, <4>1
        <4>4. 0 <= MaxBytes
          BY <2>6
        <4> QED BY <4>2, <4>3, <4>4
      <3>2. CASE phase[w] # "refused"
        <4>1. Bytes(SubSeq(B, 1, g)) <= Bytes(SubSeq(B, 1, n))
          BY <2>2, <2>4, <2>7
        <4>2. Bytes(SubSeq(B, 1, g)) \in Nat /\ Bytes(SubSeq(B, 1, n)) \in Nat
          BY <2>2, <2>4, <2>7
        <4> QED BY <2>2, <2>5, <2>6, <3>2, <4>1, <4>2
      <3> QED BY <3>1, <3>2
    <2>10. phase[w] = "complete" => ~Last(got[w]).more
      <3> SUFFICES ASSUME phase[w] = "complete" PROVE ~Last(got[w]).more
        OBVIOUS
      <3>1. g = n /\ ~B[n].more /\ n > 0
        BY <2>5
      <3>2. Last(got[w]) = got[w][n]
        BY <3>1 DEF Last, g
      <3>3. got[w][n] = B[n]
        BY <2>1, <2>2, <2>7, <3>1
      <3> QED BY <3>1, <3>2, <3>3
    <2>11. SubSeq(B, 1, n) # <<>> => Bytes(Front(SubSeq(B, 1, n))) <= MaxBytes
      <3> SUFFICES ASSUME SubSeq(B, 1, n) # <<>> PROVE Bytes(Front(SubSeq(B, 1, n))) <= MaxBytes
        OBVIOUS
      <3>1. n > 0
        <4>1. SubSeq(B, 1, 0) = <<>>
          BY SubSeqEmpty
        <4> QED BY <2>7, <4>1
      <3>2. Front(SubSeq(B, 1, n)) = SubSeq(B, 1, n - 1)
        <4>1. n - 1 \in 0..(Len(B) - 1) /\ (n - 1) + 1 = n
          BY <2>1, <2>2, <3>1
        <4>2. PICK t : t = SubSeq(B, 1, n)
          OBVIOUS
        <4>3. t \in Seq(Message) /\ Len(t) = n /\ \A i \in 1..n : t[i] = B[i]
          BY <2>1, <2>2, <2>7, <4>2, SubSeqProperties
        <4>4. /\ SubSeq(t, 1, n - 1) \in Seq(Message) /\ Len(SubSeq(t, 1, n - 1)) = n - 1
              /\ \A i \in 1..(n - 1) : SubSeq(t, 1, n - 1)[i] = t[i]
          BY <2>7, <3>1, <4>3, SubSeqProperties
        <4>5. /\ SubSeq(B, 1, n - 1) \in Seq(Message) /\ Len(SubSeq(B, 1, n - 1)) = n - 1
              /\ \A i \in 1..(n - 1) : SubSeq(B, 1, n - 1)[i] = B[i]
          BY <2>1, <2>2, <2>7, <3>1, SubSeqProperties
        <4>6. SubSeq(t, 1, n - 1) = SubSeq(B, 1, n - 1)
          BY <2>7, <3>1, <4>3, <4>4, <4>5, SeqEqual
        <4> QED BY <4>2, <4>3, <4>6 DEF Front
      <3>3. Bytes(SubSeq(B, 1, n - 1)) <= MaxBytes
        <4>1. CASE phase[w] = "refused"
          BY <2>5, <3>1, <4>1
        <4>2. CASE phase[w] # "refused"
          <5>1. n - 1 \in 0..Len(B) /\ n - 1 <= n
            BY <2>1, <2>2, <3>1
          <5>2. /\ Bytes(SubSeq(B, 1, n - 1)) <= Bytes(SubSeq(B, 1, n))
                /\ Bytes(SubSeq(B, 1, n - 1)) \in Nat /\ Bytes(SubSeq(B, 1, n)) \in Nat
            BY <2>2, <2>4, <5>1
          <5> QED BY <2>5, <2>6, <4>2, <5>2
        <4> QED BY <4>1, <4>2
      <3> QED BY <3>2, <3>3
    <2> QED BY <2>5, <2>8, <2>9, <2>10, <2>11 DEF B, n
  <1>2. ServiceInv => AppSeesWholeBody
    BY <1>1, SendersAssumption DEF AppSeesWholeBody
  <1> QED BY <1>2, ServiceAlways, PTL
=============================================================================
