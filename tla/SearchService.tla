--------------------------- MODULE SearchService ----------------------------
(***************************************************************************)
(* The search endpoint behind the body limit: BodySizeLimitMiddleware      *)
(* hands a request to the handlers only when its body is complete, and     *)
(* the handlers' answer is the response the middleware lets through.       *)
(***************************************************************************)
EXTENDS Search, BodyLimit

ASSUME SendersAssumption == Senders = Workers

(* What a server delivers of a request ends with a disconnect, which       *)
(* carries no bytes.                                                       *)
ASSUME BodiesAssumption ==
    \A s \in Scenarios, w \in Workers :
        LET messages == s.plan[w].body.messages IN
        /\ messages \in Seq([type : {"request", "disconnect"}, bytes : Nat,
                             more : BOOLEAN])
        /\ messages # <<>> /\ Last(messages).type = "disconnect"
        /\ \A i \in DOMAIN messages :
              messages[i].type = "disconnect" => messages[i].bytes = 0

serviceVars == <<vars, bodyVars>>

ServiceInit ==
    /\ Init
    /\ BodyInit([w \in Workers |-> plan[w].body])

(* FastAPI calls the dependencies once the body is parsed. *)
HandOver(w) ==
    /\ phase[w] = "complete"
    /\ Receive(w)

(* An answer of a handler, or of errors.py, starts the response. *)
StartsResponse ==
    started' = [w \in Workers |->
                   started[w] + IF answer'[w] # answer[w] THEN 1 ELSE 0]

Middleware(w) ==
    /\ plan[w].kind # "none"
    /\ BodyStep(w)
    /\ UNCHANGED vars

Handlers(w) ==
    /\ HandOver(w) \/ Serve(w)
    /\ StartsResponse
    /\ UNCHANGED <<sent, phase, pulled, buffered, got>>

ServiceNext == \E w \in Workers : Middleware(w) \/ Handlers(w)

ServiceSpec ==
    /\ ServiceInit
    /\ [][ServiceNext]_serviceVars
    /\ \A w \in Workers : WF_serviceVars(Middleware(w) \/ Handlers(w))

(* The sequence of events of a request, whatever the other requests and    *)
(* the backend do, ends with its one response and with its connection back *)
(* in the pool.                                                            *)
EverySearchAnswered ==
    \A w \in Workers :
        plan[w].kind # "none" /\ sent[w].api
            ~> started[w] = 1 /\ conn[w] = NoConn
               /\ (phase[w] = "complete" => pc[w] = "done")
=============================================================================
