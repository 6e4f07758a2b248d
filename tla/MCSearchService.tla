-------------------------- MODULE MCSearchService ---------------------------
(***************************************************************************)
(* Scenarios for SearchService.  Alone: one request against every reply of *)
(* the backend, every shape of body, every key and text, and every         *)
(* deployment.  Together: three requests on two connections.               *)
(***************************************************************************)
EXTENDS SearchService, TLC

CONSTANTS w1, w2, w3, k1, k2

-----------------------------------------------------------------------------
(* Replies *)

Failed(ending) == [ending |-> ending, code |-> 0, vectors |-> <<>>]
Status(code) == [ending |-> "status", code |-> code, vectors |-> <<>>]
Vectors(vs) == [ending |-> "vectors", code |-> 200, vectors |-> vs]

Components ==
    {Power(0), Power(-74), Power(-75), Power(-126), Power(-127), Power(-150),
     Power(127), Power(128), Zero, Infinite, NotNumber, HugeInt, NonNumber}

Good == Vectors(<<<<Power(0), Zero>>>>)

Replies ==
    {Failed(e) : e \in Endings \ {"status", "vectors"}}
    \union {Status(c) : c \in {404, 429, 500, 501, 503, 307}}
    \union {Vectors(<<v>>) : v \in Components \X Components}
    \union {Vectors(<<>>), Vectors(<<<<Power(0)>>>>),
            Vectors(<<<<Power(0), Power(0), Power(0)>>>>),
            Vectors(<<<<Power(0), Zero>>, <<Power(0), Zero>>>>)}

-----------------------------------------------------------------------------
(* Bodies *)

Message(n, more) == [type |-> "request", bytes |-> n, more |-> more]
Gone == [type |-> "disconnect", bytes |-> 0, more |-> FALSE]

(* After the body the server has only the disconnect to deliver. *)
Bodies ==
    {<<Message(m, FALSE), Gone>> : m \in 0..4}
    \union {<<Message(m, TRUE), Message(n, FALSE), Gone>> : m, n \in 0..4}
    \union {<<Message(m, TRUE), Message(n, TRUE), Gone>> : m, n \in 0..4}
    \union {<<Message(m, TRUE), Message(n, TRUE), Message(1, FALSE), Gone>> :
                m, n \in 0..4}

Declared ==
    {[declared |-> "absent", length |-> 0], [declared |-> "garbage", length |-> 0]}
    \union {[declared |-> "number", length |-> n] : n \in {-1, 0, 3, 4}}

Body(api, d, messages) ==
    [api |-> api, declared |-> d.declared, length |-> d.length,
     messages |-> messages]

Plain == Body(TRUE, [declared |-> "number", length |-> 1],
              <<Message(1, FALSE), Gone>>)

-----------------------------------------------------------------------------
(* Requests, deployments and scenarios *)

Sends(kind, key, text, reply, body) ==
    [kind |-> kind, key |-> key, text |-> text, reply |-> reply, body |-> body]

Nothing == Sends("none", "missing", "plain", Failed("transport"), Plain)

Deployed(autocommit, preset, weight, timeout) ==
    [autocommit |-> autocommit, preset |-> preset, vectorWeight |-> weight,
     timeout |-> timeout]

Default == Deployed(FALSE, {}, 1, 5000)

Deployments ==
    {Deployed(a, p, v, t) :
        a \in BOOLEAN, p \in {{}, {"statement_timeout"}, Guards}, v \in {0, 1},
        t \in {1, 4321, 5000, 60000}}

Alone(r) == [w \in Workers |-> IF w = w1 THEN r ELSE Nothing]

Search1(reply) == Sends("search", "valid", "plain", reply, Plain)
Ingest1(reply) == Sends("ingest", "valid", "plain", reply, Plain)

MCScenarios ==
    {[plan |-> Alone(r), deployment |-> d] :
        r \in {Search1(x) : x \in Replies}, d \in {Default, Deployed(FALSE, {}, 0, 5000)}}
    \union {[plan |-> Alone(Ingest1(x)), deployment |-> Default] : x \in Replies}
    \union {[plan |-> Alone(Search1(Good)), deployment |-> d] : d \in Deployments}
    \union {[plan |-> Alone(Sends("search", k, t, Good, Plain)),
             deployment |-> Default] :
                k \in {"valid", "unknown", "missing"},
                t \in {"plain", "nul", "invalid"}}
    \union {[plan |-> Alone(Sends("search", "valid", "plain", Good, Body(a, l, b))),
             deployment |-> Default] : a \in BOOLEAN, l \in Declared, b \in Bodies}
    \union {[plan |-> (w1 :> a @@ w2 :> b @@ w3 :> Search1(Good)),
             deployment |-> d] :
                a \in {Search1(Good), Ingest1(Good)},
                b \in {Search1(Failed("transport")), Ingest1(Good)},
                d \in {Default, Deployed(TRUE, {}, 1, 5000),
                       Deployed(FALSE, {}, 1, 60000)}}
=============================================================================
