----------------------------- MODULE Embedding ------------------------------
(***************************************************************************)
(* What src/app/core/embeddings.py and embedding_validation.py make of a   *)
(* reply of the embedding backend, and src/app/core/errors.py of a         *)
(* failure.                                                                *)
(*                                                                         *)
(* The components of a vector are powers of two, as exponents (the sign    *)
(* never matters: components are only squared and compared by magnitude),  *)
(* and the other values the rules tell apart.  The exponents are the real  *)
(* ones of IEEE 754 single precision.                                      *)
(***************************************************************************)
EXTENDS Integers, Sequences

CONSTANT EmbeddingDimension

ASSUME DimensionAssumption == EmbeddingDimension \in Nat \ {0}

MaxExponent  == 127     \* FLOAT32_MAX lies between 2^127 and 2^128
MinNormal    == -126    \* FLOAT32_MIN_NORMAL
MinSubnormal == -149    \* the smallest float32 above zero

Power(e)  == [kind |-> "power", exp |-> e]
Zero      == [kind |-> "zero", exp |-> 0]
Infinite  == [kind |-> "infinite", exp |-> 0]
NotNumber == [kind |-> "nan", exp |-> 0]
HugeInt   == [kind |-> "huge_int", exp |-> 0]   \* math.isfinite overflows
NonNumber == [kind |-> "other", exp |-> 0]      \* a bool, a string, null

(* A component float4 cannot hold. *)
ComponentFault(x) ==
    \/ x.kind \in {"other", "nan", "infinite", "huge_int"}
    \/ x.kind = "power" /\ x.exp > MaxExponent

AsFloat32(x) ==
    IF x.kind # "power" THEN x
    ELSE IF x.exp > MaxExponent THEN Infinite
    ELSE IF x.exp < MinSubnormal THEN Zero
    ELSE x

(* A subnormal contributes nothing. *)
Flushed32(x) == IF x.kind = "power" /\ x.exp < MinNormal THEN Zero ELSE x

SquareOf(x) == IF x.kind = "power" THEN Power(2 * x.exp) ELSE x

(* Fault: the squares are summed in float64. *)
FaultFloat64Norm(v) == \A i \in 1..Len(v) : v[i].kind = "zero"

(* The float32 sum of the squares is zero.  No square is negative, so the  *)
(* running total is zero exactly when every rounded square is.             *)
ZeroNorm(v) ==
    \A i \in 1..Len(v) :
        AsFloat32(SquareOf(Flushed32(AsFloat32(v[i])))).kind = "zero"

(* pgvector's own norm of the stored row: float4 squares, no flush. *)
StoredNormIsZero(v) ==
    \A i \in 1..Len(v) : AsFloat32(SquareOf(AsFloat32(v[i]))).kind = "zero"

(* Of a list.  What is no list is refused alike, and counts below among    *)
(* the "unreadable" replies.                                               *)
Validated(v) ==
    /\ Len(v) = EmbeddingDimension
    /\ \A i \in 1..Len(v) : ~ComponentFault(v[i])
    /\ ~ZeroNorm(v)

-----------------------------------------------------------------------------
(* A reply: how the call ended, the HTTP status where there is one, and    *)
(* the vectors where the backend sent a list of them.  A reply is          *)
(* "unreadable" when it is no JSON, has no list of embeddings, or has one  *)
(* with something in it that is no list.                                   *)

TransientStatuses == {408, 429, 500, 502, 503, 504}

Endings ==
    {"missing_extra", "unloadable", "runtime_fault",            \* local model
     "invalid_url", "status", "transport", "unreadable",        \* Ollama
     "vectors"}                                                 \* either

Component ==
    [kind: {"power", "zero", "infinite", "nan", "huge_int", "other"}, exp: Int]

Replied == [ending: Endings, code: Nat, vectors: Seq(Seq(Component))]

(* get_query_embedding: what _embed makes of the reply to one text. *)
Outcome(r) ==
    CASE r.ending \in {"missing_extra", "unloadable", "invalid_url"} -> "misconfigured"
      [] r.ending = "status" ->
            IF r.code \in TransientStatuses THEN "unavailable" ELSE "misconfigured"
      [] r.ending \in {"transport", "runtime_fault"} -> "unavailable"
      [] r.ending = "unreadable" -> "bad_response"
      [] r.ending = "vectors" ->
            IF Len(r.vectors) = 1 /\ Validated(r.vectors[1])
            THEN "vector" ELSE "bad_response"

(* The response to an embedding failure that is not handled: the status    *)
(* and whether it carries Retry-After.                                     *)
BackendFailure(outcome) ==
    IF outcome = "misconfigured"
    THEN [status |-> 500, marks |-> {}]
    ELSE [status |-> 503, marks |-> {"retry_after"}]
=============================================================================
