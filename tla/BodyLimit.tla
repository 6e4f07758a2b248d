----------------------------- MODULE BodyLimit ------------------------------
(***************************************************************************)
(* BodySizeLimitMiddleware (src/app/core/body_limit.py) between the ASGI   *)
(* server, which delivers the messages of a request body, and the          *)
(* application, which reads the body again from what was buffered.  One    *)
(* request per worker.                                                     *)
(***************************************************************************)
EXTENDS Integers, Sequences, SequencesExt

CONSTANTS
    Senders,   \* the workers
    MaxBytes   \* MAX_BODY_BYTES

ASSUME MaxBytesAssumption == MaxBytes \in Nat

VARIABLES
    sent,      \* the client's request: path, declared length, messages
    phase,     \* check, buffer, app, complete, gone, refused, outside
    pulled,    \* how many messages have been received
    buffered,  \* the messages the middleware has kept
    got,       \* the messages the application has read
    started    \* how many responses have been started

bodyVars == <<sent, phase, pulled, buffered, got, started>>

Bytes(messages) ==
    LET sum[n \in 0..Len(messages)] ==
            IF n = 0 THEN 0 ELSE sum[n - 1] + messages[n].bytes
    IN  sum[Len(messages)]

BodyInit(s) ==
    /\ sent = s
    /\ phase = [w \in Senders |-> "check"]
    /\ pulled = [w \in Senders |-> 0]
    /\ buffered = [w \in Senders |-> <<>>]
    /\ got = [w \in Senders |-> <<>>]
    /\ started = [w \in Senders |-> 0]

Enter(w, p) == phase' = [phase EXCEPT ![w] = p]

Respond(w, p) ==
    /\ Enter(w, p)
    /\ started' = [started EXCEPT ![w] = @ + 1]

(* The paths outside /api/v1 are not limited. *)
PassOutside(w) ==
    /\ phase[w] = "check"
    /\ ~sent[w].api
    /\ Enter(w, "outside")
    /\ UNCHANGED <<sent, pulled, buffered, got, started>>

(* 400 for a length that is no length, 413 for one over the limit. *)
LengthRefused(w) ==
    \/ sent[w].declared = "garbage"
    \/ sent[w].declared = "number" /\ sent[w].length < 0
    \/ sent[w].declared = "number" /\ sent[w].length > MaxBytes

(* Fault: no return after the refusal has been sent. *)
FaultCheckLength(w) ==
    /\ phase[w] = "check"
    /\ sent[w].api
    /\ IF LengthRefused(w) THEN Respond(w, "buffer")
       ELSE Enter(w, "buffer") /\ UNCHANGED started
    /\ UNCHANGED <<sent, pulled, buffered, got>>

CheckLength(w) ==
    /\ phase[w] = "check"
    /\ sent[w].api
    /\ IF LengthRefused(w) THEN Respond(w, "refused")
       ELSE Enter(w, "buffer") /\ UNCHANGED started
    /\ UNCHANGED <<sent, pulled, buffered, got>>

(* receive() waits for the next message. *)
Delivered(w) == sent[w].messages[pulled[w] + 1]

(* Fault: a declared length within the limit is believed. *)
FaultTotalTooLarge(w) ==
    /\ sent[w].declared = "absent"
    /\ Bytes(buffered[w]) + Delivered(w).bytes > MaxBytes

(* A disconnect carries no bytes. *)
TotalTooLarge(w) == Bytes(buffered[w]) + Delivered(w).bytes > MaxBytes

BufferEnds(m) == m.type # "request" \/ ~m.more

BufferMessage(w) ==
    /\ phase[w] = "buffer"
    /\ pulled' = [pulled EXCEPT ![w] = @ + 1]
    /\ buffered' = [buffered EXCEPT ![w] = Append(@, Delivered(w))]
    /\ IF TotalTooLarge(w)
       THEN Respond(w, "refused")
       ELSE /\ Enter(w, IF BufferEnds(Delivered(w)) THEN "app" ELSE "buffer")
            /\ UNCHANGED started
    /\ UNCHANGED <<sent, got>>

(* The application parses the body: replay_receive hands out what was      *)
(* buffered, one message at a time.  A disconnect before the last message  *)
(* ends the request without a handler; FastAPI answers 400 to no one.      *)
ReplayMessage(w) ==
    /\ phase[w] = "app"
    /\ LET m == buffered[w][Len(got[w]) + 1] IN
       /\ got' = [got EXCEPT ![w] = Append(@, m)]
       /\ IF m.type # "request" THEN Respond(w, "gone")
          ELSE /\ Enter(w, IF m.more THEN "app" ELSE "complete")
               /\ UNCHANGED started
    /\ UNCHANGED <<sent, pulled, buffered>>

BodyStep(w) ==
    PassOutside(w) \/ CheckLength(w) \/ BufferMessage(w) \/ ReplayMessage(w)

(* A request is started at most one response: the middleware's refusal and *)
(* the application's answer exclude each other (body_limit.py:83-120).     *)
OneResponse == \A w \in Senders : started[w] <= 1

(* The application reads the client's own messages, all and in order; it   *)
(* never sees a body over the limit nor any of one that is refused; and    *)
(* nothing more is received once the limit is passed (body_limit.py:90-120)*)
AppSeesWholeBody ==
    \A w \in Senders :
        LET taken == SubSeq(sent[w].messages, 1, pulled[w]) IN
        /\ IsPrefix(got[w], sent[w].messages)
        /\ Bytes(got[w]) <= MaxBytes
        /\ phase[w] = "refused" => got[w] = <<>>
        /\ phase[w] = "complete" => ~Last(got[w]).more
        /\ taken # <<>> => Bytes(Front(taken)) <= MaxBytes
=============================================================================
