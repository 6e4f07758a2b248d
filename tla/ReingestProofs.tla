--------------------------- MODULE ReingestProofs ---------------------------
(***************************************************************************)
(* Theorems about Reingest, for every tree, every sequence of runs, every  *)
(* choice of arguments and headers and any number of edits.                *)
(***************************************************************************)
EXTENDS Reingest, FiniteSetTheorems, SequenceTheorems, TLAPS

Notes == WholeNote \union {NoNote}

StoreShape == store \in [Keys -> Notes]

(* The content d of the file p has been stored, and what stands in its     *)
(* place now is content of a request reported as FAILED.                   *)
Explained(p, d) ==
    /\ Stored(p) # NoNote
    /\ \/ Stored(p).doc = d
       \/ \E q \in failed : q.path = p /\ q.doc = Stored(p).doc

CallShape ==
    pc = "wait" =>
        /\ call = [request |-> call.request, attempt |-> call.attempt,
                   answer |-> call.answer]
        /\ call.request.path \in selected \ todo
        /\ call.request.doc \in Docs
        /\ call.request.run = run
        /\ call.attempt \in {1, 2}

FailedShape ==
    \A q \in failed : q.path \in Paths /\ q.doc \in Docs /\ q.run \in 1..run

Types ==
    /\ StoreShape
    /\ disk \in [Paths -> Docs \union {Absent, Unreadable}]
    /\ runs \in Plans /\ run \in Nat \ {0}
    /\ pc \in {"walk", "select", "next", "wait", "exited"}
    /\ todo \subseteq selected /\ selected \subseteq Paths
    /\ CallShape
    /\ counts \in [{"ingested", "skipped", "failed"} -> Nat]
    /\ exit \in {Nothing, ExitOk, ExitFailed, ExitUsage}
    /\ told \in [Paths -> Docs \union {Nothing}]
    /\ adrift \subseteq failed
    /\ FailedShape

(* A 200 that the script has not yet read is still true.                   *)
AnswerHolds ==
    pc = "wait" /\ call.answer # Nothing /\ call.answer.status = 200 =>
        Explained(call.request.path, call.request.doc)

-----------------------------------------------------------------------------
(* The store *)

LEMMA WholeIsNote ==
    ASSUME NEW i \in Ids, NEW k \in Keys, NEW d \in Docs, NEW v \in Versions,
           NEW s \in Statuses
    PROVE  /\ Whole(i, k, d, v, s) \in WholeNote
           /\ Whole(i, k, d, v, s) # NoNote
           /\ Whole(i, k, d, v, s).doc = d
  <1>1. SplitLen[<<d, v>>] \in Nat \ {0}
    BY DataAssumption
  <1>2. 0..(SplitLen[<<d, v>>] - 1) \subseteq Nat
    BY <1>1
  <1>3. k[1] \in Clients
    BY DEF Keys
  <1>4. PassagesOf(i, k[1], d, v) \subseteq PassageRow
    BY <1>2, <1>3 DEF PassagesOf, PassageRow
  <1>5. Whole(i, k, d, v, s) \in WholeNote
    BY <1>4 DEF Whole, WholeNote
  <1> QED BY <1>5, DataAssumption DEF Whole

(* Storing a request's content changes the note of its file only.          *)
LEMMA PutStores ==
    ASSUME StoreShape, NEW q, q.path \in Paths, q.doc \in Docs,
           NEW v \in Versions, Put(q, v)
    PROVE  /\ StoreShape'
           /\ Stored(q.path)' # NoNote /\ Stored(q.path)'.doc = q.doc
           /\ \A p \in Paths : p # q.path => Stored(p)' = Stored(p)
  <1> DEFINE k == <<Me, q.path>>
  <1>1. k \in Keys
    BY ReingestAssumption DEF Keys
  <1>2. PICK s \in Statuses : Create(k, q.doc, v, s) \/ Rewrite(k, q.doc, v, s)
    BY DEF Put
  <1>3. PICK i \in Ids : store' = [store EXCEPT ![k] = Whole(i, k, q.doc, v, s)]
    <2>1. CASE Create(k, q.doc, v, s)
      BY <2>1 DEF Create
    <2>2. CASE Rewrite(k, q.doc, v, s)
      <3>1. store[k] \in WholeNote
        BY <1>1, <2>2 DEF Rewrite, StoreShape, Notes
      <3>2. store[k].id \in Ids
        BY <3>1 DEF WholeNote
      <3> QED BY <2>2, <3>2 DEF Rewrite
    <2> QED BY <1>2, <2>1, <2>2
  <1> DEFINE n == Whole(i, k, q.doc, v, s)
  <1>4. n \in WholeNote /\ n # NoNote /\ n.doc = q.doc
    BY <1>1, WholeIsNote
  <1> HIDE DEF n
  <1>5. StoreShape' /\ store'[k] = n
    BY <1>1, <1>3, <1>4 DEF StoreShape, Notes, n
  <1>6. ASSUME NEW p \in Paths, p # q.path PROVE Stored(p)' = Stored(p)
    <2>1. <<Me, p>> \in Keys /\ <<Me, p>> # k
      BY <1>6, ReingestAssumption DEF Keys
    <2> QED BY <1>3, <2>1 DEF StoreShape, Stored
  <1> QED BY <1>4, <1>5, <1>6 DEF Stored

(* So does serving it, in either way.                                      *)
LEMMA Serves ==
    ASSUME StoreShape, NEW q, q.path \in Paths, q.doc \in Docs, NEW v \in Versions,
           \/ AlreadyStored(q, v) /\ UNCHANGED storeVars
           \/ Put(q, v)
    PROVE  /\ StoreShape'
           /\ Stored(q.path)' # NoNote /\ Stored(q.path)'.doc = q.doc
           /\ \A p \in Paths : p # q.path => Stored(p)' = Stored(p)
  <1>1. CASE AlreadyStored(q, v) /\ UNCHANGED storeVars
    BY <1>1 DEF AlreadyStored, Stored, StoreShape, storeVars
  <1>2. CASE Put(q, v)
    BY <1>2, PutStores
  <1> QED BY <1>1, <1>2

(* What ServeCall and ServeAdrift do to the store.                         *)
LEMMA CallServed ==
    ASSUME Types, ServeCall, NEW q, q = call.request
    PROVE  /\ StoreShape'
           /\ q.path \in Paths /\ q = call'.request
           /\ Stored(q.path)' # NoNote /\ Stored(q.path)'.doc = q.doc
           /\ \A p \in Paths : p # q.path => Stored(p)' = Stored(p)
  <1>1. q.path \in Paths /\ q.doc \in Docs
    BY DEF Types, CallShape, ServeCall
  <1>2. PICK v \in Versions : \/ AlreadyStored(q, v) /\ UNCHANGED storeVars
                              \/ Put(q, v)
    BY DEF ServeCall
  <1>3. q = call'.request
    BY DEF ServeCall, Answered, Types, CallShape
  <1> QED BY <1>1, <1>2, <1>3, Serves DEF Types

LEMMA AdriftServed ==
    ASSUME Types, NEW q \in adrift, ServeAdrift(q)
    PROVE  /\ StoreShape'
           /\ q \in failed /\ q.path \in Paths
           /\ Stored(q.path)' # NoNote /\ Stored(q.path)'.doc = q.doc
           /\ \A p \in Paths : p # q.path => Stored(p)' = Stored(p)
  <1>1. q \in failed /\ q.path \in Paths /\ q.doc \in Docs
    BY DEF Types, FailedShape
  <1>2. PICK v \in Versions : \/ AlreadyStored(q, v) /\ UNCHANGED storeVars
                              \/ Put(q, v)
    BY DEF ServeAdrift
  <1> QED BY <1>1, <1>2, Serves DEF Types

-----------------------------------------------------------------------------
(* Types *)

LEMMA TypesInit == Init => Types
  <1> SUFFICES ASSUME Init PROVE Types
    OBVIOUS
  <1>1. StoreShape
    BY DEF Init, StoreInit, StoreShape, Notes
  <1>2. disk \in [Paths -> Docs \union {Absent, Unreadable}]
    BY ReingestAssumption DEF Init
  <1>3. counts \in [{"ingested", "skipped", "failed"} -> Nat]
    BY DEF Init, NoCounts
  <1>4. told \in [Paths -> Docs \union {Nothing}]
    BY DEF Init
  <1> QED BY <1>1, <1>2, <1>3, <1>4 DEF Init, Types, CallShape, FailedShape

LEMMA TypesNext == Types /\ [Next]_vars => Types'
  <1> SUFFICES ASSUME Types, [Next]_vars PROVE Types'
    OBVIOUS
  <1> USE DEF Types
  <1>1. CASE Walk
    BY <1>1 DEF Walk, CallShape, FailedShape, StoreShape, storeVars
  <1>2. CASE Select
    BY <1>2 DEF Select, Exit, Walked, CallShape, FailedShape, StoreShape, storeVars
  <1>3. CASE WalkFails
    BY <1>3 DEF WalkFails, Exit, CallShape, FailedShape, StoreShape, storeVars
  <1>4. CASE ReadNext
    <2> DEFINE p == CHOOSE x \in todo : TRUE
    <2>1. p \in todo
      BY <1>4 DEF ReadNext
    <2> HIDE DEF p
    <2>2. todo' = todo \ {p}
      BY <1>4 DEF ReadNext, p
    <2>3. CASE Readable(p)
      <3>1. disk[p] \in Docs
        BY <2>1, <2>3 DEF Readable
      <3>2. call' = Sent(Request(p), 1) /\ pc' = "wait" /\ UNCHANGED counts
        BY <1>4, <2>3 DEF ReadNext, p
      <3>3. CallShape'
        BY <1>4, <2>1, <2>2, <3>1, <3>2 DEF ReadNext, CallShape, Sent, Request
      <3> QED BY <1>4, <2>2, <3>2, <3>3 DEF ReadNext, FailedShape, StoreShape, storeVars
    <2>4. CASE ~Readable(p)
      BY <1>4, <2>2, <2>4 DEF ReadNext, Tally, CallShape, FailedShape, StoreShape, storeVars, p
    <2> QED BY <2>3, <2>4
  <1>5. CASE RetryAfter503
    BY <1>5 DEF RetryAfter503, Waiting, Sent, CallShape, FailedShape, StoreShape, storeVars
  <1>6. CASE ReportStored
    <2>1. told' \in [Paths -> Docs \union {Nothing}]
      BY <1>6 DEF ReportStored, Waiting, CallShape
    <2>2. counts' \in [{"ingested", "skipped", "failed"} -> Nat]
      BY <1>6 DEF ReportStored, Tally
    <2> QED BY <1>6, <2>1, <2>2
            DEF ReportStored, NextFile, CallShape, FailedShape, StoreShape, storeVars
  <1>7. CASE ReportFailed
    <2>1. FailedShape'
      BY <1>7 DEF ReportFailed, Waiting, CallShape, FailedShape
    <2> QED BY <1>7, <2>1 DEF ReportFailed, NextFile, Tally, CallShape, StoreShape, storeVars
  <1>8. CASE TransportError
    <2>1. FailedShape'
      BY <1>8 DEF TransportError, CallShape, FailedShape
    <2> QED BY <1>8, <2>1
            DEF TransportError, NextFile, Tally, CallShape, StoreShape, storeVars
  <1>9. CASE Summarise
    BY <1>9 DEF Summarise, Exit, CallShape, FailedShape, StoreShape, storeVars
  <1>10. CASE ServeCall
    <2>1. call' = [call EXCEPT !.answer = call'.answer]
      BY <1>10 DEF ServeCall, Answered, CallShape
    <2> QED BY <1>10, <2>1, CallServed DEF ServeCall, CallShape, FailedShape
  <1>11. CASE RefuseCall
    <2>1. call' = [call EXCEPT !.answer = call'.answer]
      BY <1>11 DEF RefuseCall, Answered, CallShape
    <2> QED BY <1>11, <2>1 DEF RefuseCall, CallShape, FailedShape, StoreShape, storeVars
  <1>12. CASE Edit
    BY <1>12, ReingestAssumption
       DEF Edit, clientVars, CallShape, FailedShape, StoreShape, storeVars
  <1>13. CASE RunAgain
    BY <1>13 DEF RunAgain, NoCounts, CallShape, FailedShape, StoreShape, storeVars
  <1>14. ASSUME NEW q \in adrift, ServeAdrift(q) PROVE Types'
    BY <1>14, AdriftServed DEF ServeAdrift, clientVars, CallShape, FailedShape
  <1>15. ASSUME NEW q \in adrift, LoseAdrift(q) PROVE Types'
    BY <1>15 DEF LoseAdrift, clientVars, CallShape, FailedShape, StoreShape, storeVars
  <1>16. CASE UNCHANGED vars
    BY <1>16 DEF vars, storeVars, clientVars, CallShape, FailedShape, StoreShape
  <1> QED BY <1>1, <1>2, <1>3, <1>4, <1>5, <1>6, <1>7, <1>8, <1>9, <1>10, <1>11,
             <1>12, <1>13, <1>14, <1>15, <1>16 DEF Next, Script

LEMMA TypesAlways == Spec => []Types
  <1> QED BY TypesInit, TypesNext, PTL DEF Spec

(* The script sends only what it could read, of files it selected, and     *)
(* forgets no request it gave up on (reingest.py:254-285).                 *)
THEOREM ReingestTypes == Spec => []TypeOK
  <1>1. Types => TypeOK
    BY DEF Types, TypeOK, CallShape
  <1> QED BY <1>1, TypesAlways, PTL

-----------------------------------------------------------------------------
(* Reports *)

Reported == AnswerHolds /\ ReportedIsStored

(* ReportedIsStored for one file. *)
ReportedAt(p) ==
    told[p] # Nothing =>
        /\ Stored(p) # NoNote
        /\ \/ Stored(p).doc = told[p]
           \/ InProgress(p, Stored(p).doc)
           \/ \E q \in failed : q.path = p /\ q.doc = Stored(p).doc

(* A step that leaves the store and what is told alone, and gives up no    *)
(* request without reporting it, keeps every report.                       *)
LEMMA ReportsStand ==
    ASSUME Types, Reported, UNCHANGED storeVars, UNCHANGED told,
           failed \subseteq failed',
           pc = "wait" => \/ pc' = "wait" /\ call'.request = call.request
                         \/ call.request \in failed'
    PROVE  ReportedIsStored'
  <1> SUFFICES ASSUME NEW p \in Paths PROVE ReportedAt(p)'
    BY DEF ReportedIsStored, ReportedAt
  <1>1. Stored(p)' = Stored(p)
    BY DEF Stored, storeVars
  <1>2. ReportedAt(p)
    BY DEF Reported, ReportedIsStored, ReportedAt
  <1> QED BY <1>1, <1>2 DEF ReportedAt, InProgress

LEMMA ReportedNext == Types /\ Reported /\ [Next]_vars => Reported'
  <1> SUFFICES ASSUME Types, Reported, [Next]_vars PROVE Reported'
    OBVIOUS
  <1>1. CASE UNCHANGED <<storeVars, told, failed, pc, call>>
    BY <1>1, ReportsStand
       DEF Reported, AnswerHolds, Explained, Stored, storeVars
  <1>2. CASE Walk \/ Select \/ WalkFails \/ Summarise \/ RunAgain
    <2>1. pc' # "wait" /\ pc # "wait"
      BY <1>2 DEF Walk, Select, WalkFails, Exit, Summarise, RunAgain
    <2>2. UNCHANGED storeVars /\ UNCHANGED told /\ UNCHANGED failed
      BY <1>2 DEF Walk, Select, WalkFails, Exit, Summarise, RunAgain
    <2> QED BY <2>1, <2>2, ReportsStand DEF Reported, AnswerHolds
  <1>3. CASE ReadNext
    <2>1. pc = "next" /\ UNCHANGED storeVars /\ UNCHANGED told /\ UNCHANGED failed
      BY <1>3 DEF ReadNext
    <2>2. pc' = "wait" => call'.answer = Nothing
      BY <1>3 DEF ReadNext, Sent
    <2> QED BY <2>1, <2>2, ReportsStand DEF Reported, AnswerHolds
  <1>4. CASE RetryAfter503
    <2>1. /\ UNCHANGED storeVars /\ UNCHANGED told /\ UNCHANGED failed
          /\ pc' = "wait" /\ call'.request = call.request /\ call'.answer = Nothing
      BY <1>4 DEF RetryAfter503, Waiting, Sent
    <2> QED BY <2>1, ReportsStand DEF Reported, AnswerHolds
  <1>5. CASE ReportStored
    <2> DEFINE r == call.request
    <2>1. /\ Explained(r.path, r.doc)
          /\ r.path \in Paths
      BY <1>5 DEF ReportStored, Waiting, Succeeded, Reported, AnswerHolds, Types, CallShape
    <2>2. /\ told' = [told EXCEPT ![r.path] = r.doc] /\ pc' = "next"
          /\ UNCHANGED storeVars /\ UNCHANGED failed
      BY <1>5 DEF ReportStored, NextFile
    <2> HIDE DEF r
    <2>3. ASSUME NEW p \in Paths PROVE ReportedAt(p)'
      <3>1. Stored(p)' = Stored(p)
        BY <2>2 DEF Stored, storeVars
      <3>2. CASE p = r.path
        <4>1. told'[p] = r.doc
          BY <2>1, <2>2, <3>2 DEF Types
        <4> QED BY <2>1, <2>2, <3>1, <3>2, <4>1 DEF ReportedAt, Explained
      <3>3. CASE p # r.path
        <4>1. told'[p] = told[p]
          BY <2>2, <3>3 DEF Types
        <4>2. ReportedAt(p) /\ ~InProgress(p, Stored(p).doc)
          BY <3>3 DEF Reported, ReportedIsStored, ReportedAt, InProgress, r
        <4> QED BY <2>2, <3>1, <4>1, <4>2 DEF ReportedAt
      <3> QED BY <3>2, <3>3
    <2> QED BY <2>2, <2>3 DEF Reported, AnswerHolds, ReportedIsStored, ReportedAt
  <1>6. CASE ReportFailed \/ TransportError
    <2>1. /\ UNCHANGED storeVars /\ UNCHANGED told
          /\ failed' = failed \union {call.request} /\ pc' = "next"
      BY <1>6 DEF ReportFailed, TransportError, NextFile
    <2> QED BY <2>1, ReportsStand DEF Reported, AnswerHolds
  <1>7. CASE ServeCall
    <2> DEFINE r == call.request
    <2>1. /\ r.path \in Paths /\ r = call'.request
          /\ Stored(r.path)' # NoNote /\ Stored(r.path)'.doc = r.doc
          /\ \A p \in Paths : p # r.path => Stored(p)' = Stored(p)
      <3>1. PICK q : q = call.request
        OBVIOUS
      <3>2. /\ q.path \in Paths /\ q = call'.request
            /\ Stored(q.path)' # NoNote /\ Stored(q.path)'.doc = q.doc
            /\ \A p \in Paths : p # q.path => Stored(p)' = Stored(p)
        BY <1>7, <3>1, CallServed
      <3> QED BY <3>1, <3>2 DEF Stored
    <2>2. pc = "wait" /\ pc' = "wait" /\ UNCHANGED told /\ UNCHANGED failed
      BY <1>7 DEF ServeCall
    <2>3. AnswerHolds'
      BY <2>1, <2>2 DEF AnswerHolds, Explained, Stored
    <2>4. ASSUME NEW p \in Paths PROVE ReportedAt(p)'
      <3>1. ReportedAt(p)
        BY DEF Reported, ReportedIsStored, ReportedAt
      <3>2. CASE p = r.path
        BY <2>1, <2>2, <3>2 DEF ReportedAt, InProgress, Stored
      <3>3. CASE p # r.path
        BY <2>1, <2>2, <3>1, <3>3 DEF ReportedAt, InProgress
      <3> QED BY <3>2, <3>3
    <2> QED BY <2>3, <2>4 DEF Reported, ReportedIsStored, ReportedAt
  <1>8. CASE RefuseCall
    <2>1. /\ UNCHANGED storeVars /\ UNCHANGED told /\ UNCHANGED failed
          /\ UNCHANGED pc /\ call'.request = call.request
          /\ call'.answer.status # 200
      BY <1>8 DEF RefuseCall, Answered, Types, CallShape
    <2> QED BY <2>1, ReportsStand DEF Reported, AnswerHolds
  <1>9. ASSUME NEW r \in adrift, ServeAdrift(r) PROVE Reported'
    <2>1. /\ r \in failed /\ r.path \in Paths
          /\ Stored(r.path)' # NoNote /\ Stored(r.path)'.doc = r.doc
          /\ \A p \in Paths : p # r.path => Stored(p)' = Stored(p)
      BY <1>9, AdriftServed
    <2>2. UNCHANGED <<told, failed, pc, call>>
      BY <1>9 DEF ServeAdrift, clientVars
    <2>3. ASSUME NEW p \in Paths PROVE ReportedAt(p)'
      <3>1. ReportedAt(p)
        BY DEF Reported, ReportedIsStored, ReportedAt
      <3>2. CASE p = r.path
        BY <2>1, <2>2, <3>2 DEF ReportedAt, Stored
      <3>3. CASE p # r.path
        BY <2>1, <2>2, <3>1, <3>3 DEF ReportedAt, InProgress
      <3> QED BY <3>2, <3>3
    <2>4. AnswerHolds'
      <3> SUFFICES ASSUME pc = "wait", call.answer # Nothing, call.answer.status = 200
                   PROVE  Explained(call.request.path, call.request.doc)'
        BY <2>2 DEF AnswerHolds
      <3>1. Explained(call.request.path, call.request.doc)
        BY DEF Reported, AnswerHolds
      <3>2. call.request.path \in Paths
        BY DEF Types, CallShape
      <3>3. CASE call.request.path = r.path
        BY <2>1, <2>2, <3>3 DEF Explained, Stored
      <3>4. CASE call.request.path # r.path
        BY <2>1, <2>2, <3>1, <3>2, <3>4 DEF Explained, Stored
      <3> QED BY <3>3, <3>4
    <2> QED BY <2>3, <2>4 DEF Reported, ReportedIsStored, ReportedAt
  <1>10. ASSUME NEW r \in adrift, LoseAdrift(r) PROVE Reported'
    BY <1>1, <1>10 DEF LoseAdrift, clientVars
  <1>11. CASE Edit
    BY <1>1, <1>11 DEF Edit, clientVars
  <1>12. CASE UNCHANGED vars
    BY <1>1, <1>12 DEF vars, clientVars
  <1> QED BY <1>2, <1>3, <1>4, <1>5, <1>6, <1>7, <1>8, <1>9, <1>10, <1>11, <1>12
          DEF Next, Script

(* What a run reports as stored is stored, or has been replaced only by    *)
(* what the script is sending or has reported as FAILED, for any number of *)
(* requests served after their timeout (reingest.py:162-203, 264-285).     *)
THEOREM ReportsHold == Spec => []ReportedIsStored
  <1>1. Init => Reported
    BY DEF Init, Reported, AnswerHolds, ReportedIsStored
  <1>2. Reported => ReportedIsStored
    BY DEF Reported
  <1> QED BY <1>1, <1>2, ReportedNext, TypesAlways, PTL DEF Spec

-----------------------------------------------------------------------------
(* The summary and the exit code *)

Sum == counts.ingested + counts.skipped + counts.failed

Pending == Cardinality(todo) + (IF pc = "wait" THEN 1 ELSE 0)

(* Every selected file is counted, in progress or still to be read.        *)
CountsAddUp ==
    /\ pc \in {"walk", "select"} => counts = NoCounts
    /\ pc # "exited" => exit = Nothing
    /\ pc \in {"next", "wait"} => ~args.dry_run
    /\ (pc \in {"next", "wait"} \/ (pc = "exited" /\ ~args.dry_run /\ exit # ExitUsage))
          => Sum + Pending = Cardinality(selected)

(* As long as nothing has failed, every file done with is stored.          *)
NothingFailed ==
    /\ exit = ExitOk => counts.failed = 0
    /\ counts.failed = 0 => \A q \in failed : q.run # run
    /\ counts.failed = 0
          /\ (pc \in {"next", "wait"} \/ (exit = ExitOk /\ ~args.dry_run)) =>
          \A p \in selected \ todo :
             told[p] # Nothing \/ (pc = "wait" /\ call.request.path = p)
    /\ exit = ExitOk /\ ~args.dry_run => todo = {}

Tallied == CountsAddUp /\ NothingFailed

LEMMA FiniteSelection ==
    ASSUME Types
    PROVE  /\ IsFiniteSet(selected) /\ IsFiniteSet(todo) /\ IsFiniteSet(selected \ todo)
           /\ Cardinality(selected) \in Nat /\ Cardinality(todo) \in Nat
           /\ Cardinality(selected \ todo) \in Nat
  <1>1. IsFiniteSet(selected)
    BY ReingestAssumption, FS_Subset DEF Types
  <1>2. IsFiniteSet(todo) /\ IsFiniteSet(selected \ todo)
    BY <1>1, FS_Subset, FS_Difference DEF Types
  <1> QED BY <1>1, <1>2, FS_CardinalityType

LEMMA TallyAdds ==
    ASSUME Types, NEW f \in {"ingested", "skipped", "failed"}, Tally(f)
    PROVE  /\ Sum \in Nat /\ Sum' = Sum + 1
           /\ counts'.failed = IF f = "failed" THEN counts.failed + 1 ELSE counts.failed
           /\ counts.failed \in Nat
  <1>1. counts \in [{"ingested", "skipped", "failed"} -> Nat]
    BY DEF Types
  <1>2. counts' = [counts EXCEPT ![f] = counts[f] + 1]
    BY DEF Tally
  <1>3. /\ counts["ingested"] \in Nat /\ counts["skipped"] \in Nat
        /\ counts["failed"] \in Nat
        /\ \A g \in {"ingested", "skipped", "failed"} :
              counts'[g] = IF g = f THEN counts[g] + 1 ELSE counts[g]
    BY <1>1, <1>2
  <1>4. Sum \in Nat
    BY <1>3 DEF Sum
  <1>5. CASE f = "ingested"
    BY <1>3, <1>4, <1>5 DEF Sum
  <1>6. CASE f = "skipped"
    BY <1>3, <1>4, <1>6 DEF Sum
  <1>7. CASE f = "failed"
    BY <1>3, <1>4, <1>7 DEF Sum
  <1> QED BY <1>5, <1>6, <1>7

LEMMA TakeOne ==
    ASSUME Types, NEW p \in todo, todo' = todo \ {p}, selected' = selected
    PROVE  /\ Cardinality(todo) = Cardinality(todo') + 1
           /\ Cardinality(todo') \in Nat
           /\ selected' \ todo' = (selected \ todo) \union {p}
           /\ Cardinality(selected' \ todo') = Cardinality(selected \ todo) + 1
  <1>1. p \in selected
    BY DEF Types
  <1>2. selected' \ todo' = (selected \ todo) \union {p}
    BY <1>1
  <1>3. Cardinality(todo') = Cardinality(todo) - 1 /\ IsFiniteSet(todo')
    BY FiniteSelection, FS_RemoveElement
  <1>4. Cardinality((selected \ todo) \union {p}) = Cardinality(selected \ todo) + 1
    BY FiniteSelection, FS_AddElement
  <1>5. Cardinality(todo') \in Nat
    BY <1>3, FS_CardinalityType
  <1>6. Cardinality(todo) \in Nat
    BY FiniteSelection
  <1>7. Cardinality(todo) = Cardinality(todo') + 1
    BY <1>3, <1>5, <1>6
  <1>8. Cardinality(selected' \ todo') = Cardinality(selected \ todo) + 1
    BY <1>2, <1>4
  <1> QED BY <1>2, <1>5, <1>7, <1>8

LEMMA TalliedNext == Types /\ Types' /\ Tallied /\ [Next]_vars => Tallied'
  <1> SUFFICES ASSUME Types, Types', Tallied, [Next]_vars PROVE Tallied'
    OBVIOUS
  <1> USE DEF Tallied, ExitOk, ExitFailed, ExitUsage
  <1>a. Nothing # 0 /\ Nothing # 1 /\ Nothing # 2
    BY ReingestAssumption
  <1>1. CASE UNCHANGED <<clientVars>>
    BY <1>1 DEF clientVars, CountsAddUp, NothingFailed, Sum, Pending, args
  <1>2. CASE Walk
    BY <1>2, <1>a DEF Walk, CountsAddUp, NothingFailed, Sum, Pending, args
  <1>3. CASE Select
    <2>1. /\ counts = NoCounts /\ UNCHANGED <<counts, failed, runs, run>>
          /\ todo' = selected' /\ exit = Nothing /\ pc' # "wait"
          /\ \/ args.dry_run /\ exit' = ExitOk /\ pc' = "exited"
             \/ ~args.dry_run /\ exit' = ExitUsage /\ pc' = "exited"
             \/ ~args.dry_run /\ exit' = exit /\ pc' = "next"
      BY <1>3 DEF Select, Exit, CountsAddUp
    <2>2. Sum' = 0 /\ Cardinality(selected') \in Nat
      BY <2>1, FiniteSelection, FS_Subset, FS_CardinalityType, ReingestAssumption
         DEF Sum, NoCounts, Types
    <2>3. Pending' = Cardinality(selected')
      BY <2>1, <2>2 DEF Pending
    <2>4. CountsAddUp'
      BY <2>1, <2>2, <2>3, <1>a DEF CountsAddUp, args
    <2>5. NothingFailed'
      BY <2>1, <1>a DEF NothingFailed, NoCounts, args
    <2> QED BY <2>4, <2>5
  <1>4. CASE WalkFails
    BY <1>4, <1>a DEF WalkFails, Exit, CountsAddUp, NothingFailed, args
  <1>5. CASE ReadNext
    <2>1. PICK p \in todo : todo' = todo \ {p} /\
             IF Readable(p) THEN call' = Sent(Request(p), 1) /\ pc' = "wait" /\ UNCHANGED counts
             ELSE Tally("failed") /\ UNCHANGED <<call, pc>>
      BY <1>5 DEF ReadNext
    <2>2. /\ pc = "next" /\ exit = Nothing /\ ~args.dry_run
          /\ UNCHANGED <<selected, exit, told, failed, runs, run>>
      BY <1>5 DEF ReadNext, CountsAddUp
    <2>3. /\ Cardinality(todo) = Cardinality(todo') + 1 /\ Cardinality(todo') \in Nat
          /\ selected' \ todo' = (selected \ todo) \union {p}
      BY <2>1, <2>2, TakeOne
    <2>4. Sum + Cardinality(todo) = Cardinality(selected) /\ Cardinality(selected) \in Nat
      BY <2>2, FiniteSelection DEF CountsAddUp, Pending
    <2>5. CASE Readable(p)
      <3>1. pc' = "wait" /\ UNCHANGED counts /\ call'.request.path = p
        BY <2>1, <2>5 DEF Sent, Request
      <3>2. CountsAddUp'
        BY <2>2, <2>3, <2>4, <3>1 DEF CountsAddUp, Pending, Sum, args
      <3>3. NothingFailed'
        BY <2>2, <2>3, <3>1, <1>a DEF NothingFailed, args
      <3> QED BY <3>2, <3>3
    <2>6. CASE ~Readable(p)
      <3>1. pc' = "next" /\ Tally("failed")
        BY <2>1, <2>2, <2>6
      <3>2. Sum' = Sum + 1 /\ counts'.failed # 0 /\ Sum \in Nat
        BY <3>1, TallyAdds
      <3>3. CountsAddUp'
        BY <2>2, <2>3, <2>4, <3>1, <3>2 DEF CountsAddUp, Pending, args
      <3>4. NothingFailed'
        BY <2>2, <3>2, <1>a DEF NothingFailed, args
      <3> QED BY <3>3, <3>4
    <2> QED BY <2>5, <2>6
  <1>6. CASE RetryAfter503
    BY <1>6 DEF RetryAfter503, Waiting, Sent, CountsAddUp, NothingFailed, Sum, Pending, args
  <1>7. CASE ReportStored
    <2>1. PICK f \in {"ingested", "skipped"} : Tally(f)
      BY <1>7 DEF ReportStored
    <2>2. /\ pc = "wait" /\ pc' = "next" /\ exit = Nothing /\ ~args.dry_run
          /\ told' = [told EXCEPT ![call.request.path] = call.request.doc]
          /\ UNCHANGED <<selected, todo, exit, failed, runs, run>>
      BY <1>7 DEF ReportStored, Waiting, NextFile, CountsAddUp
    <2>3. Sum' = Sum + 1 /\ Sum \in Nat /\ counts'.failed = counts.failed
      BY <2>1, TallyAdds
    <2>4. Sum + Cardinality(todo) + 1 = Cardinality(selected)
          /\ Cardinality(selected) \in Nat /\ Cardinality(todo) \in Nat
      BY <2>2, <2>3, FiniteSelection DEF CountsAddUp, Pending
    <2>5. CountsAddUp'
      BY <2>2, <2>3, <2>4 DEF CountsAddUp, Pending, args
    <2>6. /\ told'[call.request.path] # Nothing
          /\ \A p \in Paths : told[p] # Nothing => told'[p] # Nothing
      <3>1. call.request.path \in Paths /\ call.request.doc \in Docs
        BY <2>2 DEF Types, CallShape
      <3>2. told \in [Paths -> Docs \union {Nothing}]
        BY DEF Types
      <3>3. \A p \in Paths : told'[p] = IF p = call.request.path THEN call.request.doc
                                       ELSE told[p]
        BY <2>2, <3>1, <3>2
      <3> QED BY <3>1, <3>3, ReingestAssumption
    <2>7. NothingFailed'
      BY <2>2, <2>3, <2>6, <1>a DEF NothingFailed, args, Types
    <2> QED BY <2>5, <2>7
  <1>8. CASE ReportFailed \/ TransportError
    <2>1. /\ pc = "wait" /\ pc' = "next" /\ exit = Nothing /\ ~args.dry_run
          /\ Tally("failed")
          /\ UNCHANGED <<selected, todo, exit, runs, run>>
      BY <1>8 DEF ReportFailed, TransportError, Waiting, NextFile, CountsAddUp
    <2>2. Sum' = Sum + 1 /\ Sum \in Nat /\ counts'.failed # 0
      BY <2>1, TallyAdds
    <2>3. Sum + Cardinality(todo) + 1 = Cardinality(selected)
          /\ Cardinality(selected) \in Nat /\ Cardinality(todo) \in Nat
      BY <2>1, <2>2, FiniteSelection DEF CountsAddUp, Pending
    <2>4. CountsAddUp'
      BY <2>1, <2>2, <2>3 DEF CountsAddUp, Pending, args
    <2>5. NothingFailed'
      BY <2>1, <2>2, <1>a DEF NothingFailed, args
    <2> QED BY <2>4, <2>5
  <1>9. CASE Summarise
    <2>1. /\ pc = "next" /\ todo = {} /\ pc' = "exited" /\ ~args.dry_run
          /\ exit' = IF counts.failed > 0 THEN 1 ELSE 0
          /\ UNCHANGED <<selected, todo, counts, failed, told, runs, run>>
      BY <1>9 DEF Summarise, Exit, CountsAddUp
    <2>2. counts.failed \in Nat
      BY DEF Types
    <2>3. CountsAddUp'
      BY <2>1 DEF CountsAddUp, Pending, Sum, args
    <2>4. NothingFailed'
      BY <2>1, <2>2 DEF NothingFailed, args
    <2> QED BY <2>3, <2>4
  <1>10. CASE ServeCall \/ RefuseCall
    <2>1. /\ pc = "wait" /\ exit = Nothing
          /\ UNCHANGED <<pc, runs, run, selected, todo, counts, exit, told, failed>>
      BY <1>10 DEF ServeCall, RefuseCall, CountsAddUp
    <2>2. call'.request.path = call.request.path
      BY <1>10 DEF ServeCall, RefuseCall, Answered, Types, CallShape
    <2> QED BY <2>1, <2>2 DEF CountsAddUp, NothingFailed, Sum, Pending, args
  <1>11. CASE RunAgain
    <2>1. /\ pc' = "walk" /\ counts' = NoCounts /\ exit' = Nothing /\ run' = run + 1
          /\ UNCHANGED failed
      BY <1>11 DEF RunAgain
    <2>2. \A q \in failed : q.run # run'
      BY <2>1 DEF Types, FailedShape
    <2> QED BY <2>1, <2>2, <1>a DEF CountsAddUp, NothingFailed, NoCounts
  <1>12. CASE Edit \/ (\E q \in adrift : ServeAdrift(q) \/ LoseAdrift(q)) \/ UNCHANGED vars
    BY <1>1, <1>12 DEF Edit, ServeAdrift, LoseAdrift, vars
  <1> QED BY <1>2, <1>3, <1>4, <1>5, <1>6, <1>7, <1>8, <1>9, <1>10, <1>11, <1>12
          DEF Next, Script

LEMMA TalliedAlways == Spec => [](Types /\ Tallied)
  <1>1. Init => Tallied
    BY ReingestAssumption
       DEF Init, Tallied, CountsAddUp, NothingFailed, NoCounts, ExitOk
  <1> QED BY <1>1, TypesInit, TypesNext, TalliedNext, PTL DEF Spec

(* The summary counts every selected file once, and the exit code 0 of a   *)
(* run that posted means that every file was reported as stored, for any   *)
(* number of files (reingest.py:15-16, 287-295).                           *)
THEOREM SummaryAddsUp == Spec => []SummaryIsComplete
  <1>1. Types /\ Tallied => SummaryIsComplete
    <2> SUFFICES ASSUME Types, Tallied PROVE SummaryIsComplete
      OBVIOUS
    <2>1. ASSUME pc \in {"next", "wait", "exited"}, ~args.dry_run, exit # ExitUsage
          PROVE  Sum + Cardinality(todo) + (IF pc = "wait" THEN 1 ELSE 0)
                   = Cardinality(selected)
      <3>1. Sum + Pending = Cardinality(selected)
        BY <2>1 DEF Tallied, CountsAddUp
      <3>a. counts["ingested"] \in Nat /\ counts["skipped"] \in Nat
            /\ counts["failed"] \in Nat
        BY DEF Types
      <3>2. Sum \in Nat /\ Cardinality(todo) \in Nat
        BY <3>a, FiniteSelection DEF Sum
      <3> QED BY <3>1, <3>2 DEF Pending
    <2>2. exit = ExitOk /\ ~args.dry_run => \A p \in selected : told[p] # Nothing
      <3> SUFFICES ASSUME exit = ExitOk, ~args.dry_run, NEW p \in selected
                   PROVE  told[p] # Nothing
        OBVIOUS
      <3>1. pc = "exited" /\ counts.failed = 0 /\ todo = {}
        BY ReingestAssumption DEF Tallied, CountsAddUp, NothingFailed, ExitOk
      <3> QED BY <3>1 DEF Tallied, NothingFailed
    <2>3. exit = ExitOk => \A q \in failed : q.run # run
      BY DEF Tallied, NothingFailed
    <2> QED BY <2>1, <2>2, <2>3 DEF SummaryIsComplete, Sum
  <1> QED BY <1>1, TalliedAlways, PTL

-----------------------------------------------------------------------------
(* Patience *)

Tried == Cardinality(selected \ todo)

(* A first attempt still has its one delay to spend.                       *)
Allowance == IF pc = "wait" /\ call.attempt = 1 THEN MaxRetryAfter ELSE 0

HeaderShape ==
    pc = "wait" /\ call.answer # Nothing => call.answer.header.seconds \in Int

Patient ==
    /\ slept \in Nat
    /\ pc \in {"walk", "select"} => slept = 0
    /\ slept + Allowance <= MaxRetryAfter * Tried
    /\ HeaderShape

LEMMA DelayIsCapped ==
    ASSUME NEW h, h.seconds \in Int
    PROVE  Delay(h) \in 0..MaxRetryAfter
  BY DEF Delay, MaxRetryAfter

LEMMA PatientNext == Types /\ Patient /\ [Next]_vars => Patient'
  <1> SUFFICES ASSUME Types, Patient, [Next]_vars PROVE Patient'
    OBVIOUS
  <1>a. Tried \in Nat /\ Allowance \in {0, 60} /\ slept \in Nat
    BY FiniteSelection DEF Tried, Allowance, MaxRetryAfter, Patient
  <1>1. CASE UNCHANGED clientVars
    BY <1>1 DEF clientVars, Patient, Tried, Allowance, HeaderShape
  <1>2. CASE Walk \/ WalkFails \/ Summarise
    <2>1. UNCHANGED <<selected, todo, slept>> /\ pc \notin {"wait"} /\ pc' # "wait"
          /\ (pc' \in {"walk", "select"} => pc = "walk")
      BY <1>2 DEF Walk, WalkFails, Summarise, Exit
    <2> QED BY <2>1, <1>a DEF Patient, Tried, Allowance, HeaderShape, MaxRetryAfter
  <1>3. CASE Select
    <2>1. UNCHANGED slept /\ slept = 0 /\ pc' \notin {"wait", "walk", "select"}
      BY <1>3 DEF Select, Exit, Patient
    <2>2. selected' \ todo' = {}
      BY <1>3 DEF Select
    <2>3. Tried' = 0
      BY <2>2, FS_EmptySet DEF Tried
    <2> QED BY <2>1, <2>3 DEF Patient, Allowance, HeaderShape, MaxRetryAfter
  <1>4. CASE ReadNext
    <2>1. PICK p \in todo :
             /\ todo' = todo \ {p}
             /\ \/ call' = Sent(Request(p), 1) /\ pc' = "wait"
                \/ UNCHANGED <<call, pc>>
      BY <1>4 DEF ReadNext
    <2>2. UNCHANGED <<slept, selected>> /\ pc = "next"
      BY <1>4 DEF ReadNext
    <2>3. Tried' = Tried + 1
      BY <2>1, <2>2, TakeOne DEF Tried
    <2>4. slept <= 60 * Tried
      BY <2>2 DEF Patient, Allowance, MaxRetryAfter
    <2>5. slept + 60 <= 60 * (Tried + 1)
      BY <2>4, <1>a
    <2>6. Allowance' = 0 \/ Allowance' = 60
      BY DEF Allowance, MaxRetryAfter
    <2>7. slept' = slept
      BY <2>2
    <2>8. HeaderShape' /\ pc' \notin {"walk", "select"}
      BY <2>1, <2>2 DEF HeaderShape, Sent
    <2>9. slept' + Allowance' <= 60 * Tried'
      BY <1>a, <2>3, <2>5, <2>6, <2>7
    <2> QED BY <1>a, <2>2, <2>8, <2>9 DEF Patient, MaxRetryAfter
  <1>5. CASE RetryAfter503
    <2>1. /\ pc = "wait" /\ call.answer # Nothing /\ call.attempt = 1
          /\ slept' = slept + Delay(call.answer.header)
          /\ call' = Sent(call.request, 2)
          /\ UNCHANGED <<pc, selected, todo>>
      BY <1>5 DEF RetryAfter503, Waiting, Retries
    <2>2. Delay(call.answer.header) \in 0..60
      BY <2>1, DelayIsCapped DEF Patient, HeaderShape, MaxRetryAfter
    <2>3. slept + 60 <= 60 * Tried
      BY <2>1 DEF Patient, Allowance, MaxRetryAfter
    <2>4. slept' \in Nat /\ slept' <= 60 * Tried
      BY <1>a, <2>1, <2>2, <2>3
    <2>5. Tried' = Tried /\ Allowance' = 0
      BY <2>1 DEF Tried, Allowance, Sent
    <2>6. HeaderShape'
      BY <2>1 DEF HeaderShape, Sent
    <2>7. slept' + 0 <= 60 * Tried
      BY <2>4
    <2> QED BY <2>1, <2>4, <2>5, <2>6, <2>7, <1>5 DEF RetryAfter503, Types, Patient, MaxRetryAfter
  <1>6. CASE ReportStored \/ ReportFailed \/ TransportError
    <2>1. UNCHANGED <<selected, todo, slept>> /\ pc = "wait" /\ pc' = "next"
      BY <1>6 DEF ReportStored, ReportFailed, TransportError, Waiting, NextFile
    <2>2. slept <= 60 * Tried
      BY <1>a DEF Patient, MaxRetryAfter
    <2> QED BY <2>1, <2>2, <1>a DEF Patient, Tried, Allowance, HeaderShape, MaxRetryAfter
  <1>7. CASE ServeCall \/ RefuseCall
    <2>1. /\ UNCHANGED <<pc, selected, todo, slept>> /\ pc = "wait"
      BY <1>7 DEF ServeCall, RefuseCall
    <2>2. \A h \in Headers \union {NoHeader} : h.seconds \in Int
      BY ReingestAssumption DEF NoHeader
    <2>3. ASSUME call'.attempt = call.attempt, call'.answer.header.seconds \in Int
          PROVE  Patient'
      <3>1. Tried' = Tried /\ Allowance' = Allowance
        BY <2>1, <2>3 DEF Tried, Allowance
      <3>2. HeaderShape'
        BY <2>3 DEF HeaderShape
      <3> QED BY <2>1, <3>1, <3>2 DEF Patient
    <2>4. CASE Answered(200, TRUE, NoHeader)
      BY <2>1, <2>4, <2>2, <2>3 DEF Answered, Types, CallShape
    <2>5. CASE Answered(200, FALSE, NoHeader) \/ Answered(500, FALSE, NoHeader)
      BY <2>1, <2>2, <2>5, <2>3 DEF Answered, Types, CallShape
    <2>6. ASSUME NEW h \in Headers, Answered(503, FALSE, h) PROVE Patient'
      BY <2>1, <2>2, <2>6, <2>3 DEF Answered, Types, CallShape
    <2> QED BY <1>7, <2>4, <2>5, <2>6 DEF ServeCall, RefuseCall
  <1>8. CASE RunAgain
    <2>1. slept' = 0 /\ selected' \ todo' = {} /\ pc' = "walk"
      BY <1>8 DEF RunAgain
    <2>2. Tried' = 0
      BY <2>1, FS_EmptySet DEF Tried
    <2> QED BY <2>1, <2>2 DEF Patient, Allowance, HeaderShape, MaxRetryAfter
  <1>9. CASE Edit \/ (\E q \in adrift : ServeAdrift(q) \/ LoseAdrift(q)) \/ UNCHANGED vars
    BY <1>1, <1>9 DEF Edit, ServeAdrift, LoseAdrift, vars
  <1> QED BY <1>2, <1>3, <1>4, <1>5, <1>6, <1>7, <1>8, <1>9 DEF Next, Script

(* A run sleeps at most sixty seconds for each file it has taken up, and   *)
(* sends each at most twice, whatever Retry-After the server names         *)
(* (reingest.py:42-55, 162-203).                                           *)
THEOREM PatienceHolds == Spec => []PatienceIsBounded
  <1>1. Init => Patient
    <2> SUFFICES ASSUME Init PROVE Patient
      OBVIOUS
    <2>1. slept = 0 /\ selected \ todo = {} /\ pc = "walk"
      BY DEF Init
    <2>2. Tried = 0
      BY <2>1, FS_EmptySet DEF Tried
    <2> QED BY <2>1, <2>2 DEF Patient, Allowance, HeaderShape, MaxRetryAfter
  <1>2. Types /\ Patient => PatienceIsBounded
    <2> SUFFICES ASSUME Types, Patient PROVE PatienceIsBounded
      OBVIOUS
    <2>1. Tried \in Nat /\ Allowance \in {0, 60}
      BY FiniteSelection DEF Tried, Allowance, MaxRetryAfter
    <2>2. slept \in Nat /\ slept + Allowance <= 60 * Tried
      BY DEF Patient, MaxRetryAfter
    <2>3. slept \in 0..(60 * Tried)
      BY <2>1, <2>2
    <2>4. pc = "wait" => call.attempt <= 2
      BY DEF Types, CallShape
    <2> QED BY <2>3, <2>4 DEF PatienceIsBounded, Tried, MaxRetryAfter
  <1> QED BY <1>1, <1>2, PatientNext, TypesAlways, PTL DEF Spec

-----------------------------------------------------------------------------
(* Exclusions *)

(* What is selected matches no glob of the run, although the tree may have *)
(* changed since.                                                          *)
SelectionKept == \A p \in selected : \A g \in Excludes : ~Match(p, g)

DefaultName(p) == p[Len(p)] \in {"MEMORY.md", "learning-log.md"}

(* In a first run that keeps the defaults no file of theirs has been       *)
(* stored, nor sent by a request that the server may yet get to.           *)
DefaultsKeptOut ==
    run = 1 /\ ~args.no_default_excludes =>
        \A p \in Paths :
            DefaultName(p) => Stored(p) = NoNote /\ \A q \in failed : q.path # p

KeptOut == SelectionKept /\ DefaultsKeptOut

(* A glob of any directories and then a name matches every path with that  *)
(* name, at the top too: there the "**" is stripped.                       *)
LEMMA NameMatches ==
    ASSUME NEW p \in Paths
    PROVE  /\ Len(p) \in Nat \ {0}
           /\ Match(p, <<"**", p[Len(p)]>>)
  <1> DEFINE name == p[Len(p)]
  <1>1. p \in Seq(STRING) /\ p # <<>>
    BY ReingestAssumption
  <1>2. Len(p) \in Nat \ {0}
    BY <1>1
  <1>3. PathMatch(p, <<name>>)
    <2>1. Len(<<name>>) = 1 /\ <<name>>[1] = name
      OBVIOUS
    <2>2. Len(p) - 1 + 1 = Len(p) /\ 1 <= Len(p)
      BY <1>2
    <2>3. \A i \in 1..1 : <<name>>[i] = p[Len(p) - 1 + i]
      BY <2>1, <2>2
    <2> QED BY <2>1, <2>2, <2>3 DEF PathMatch
  <1> HIDE DEF name
  <1>4. PICK glob : glob = <<"**", name>>
    OBVIOUS
  <1>5. glob \in Seq({"**", name}) /\ Len(glob) = 2 /\ glob[1] = "**" /\ glob[2] = name
    BY <1>4
  <1>6. SubSeq(glob, 2, 2) = <<name>>
    <2>1. PICK s : s = SubSeq(glob, 2, 2)
      OBVIOUS
    <2>2. s \in Seq({"**", name}) /\ Len(s) = 1 /\ s[1] = name
      BY <1>5, <2>1, SubSeqProperties
    <2>3. s = <<name>>
      BY <2>2
    <2> QED BY <2>1, <2>3
  <1>7. Match(p, glob)
    <2>1. 1 \in 0..(Len(glob) - 1) /\ 1 + 1 = 2
      BY <1>5
    <2>2. \A i \in 1..1 : glob[i] = "**"
      BY <1>5
    <2>3. PathMatch(p, SubSeq(glob, 1 + 1, Len(glob)))
      BY <1>3, <1>5, <1>6, <2>1
    <2> QED BY <2>1, <2>2, <2>3 DEF Match
  <1> QED BY <1>2, <1>4, <1>7 DEF name

(* So a run that keeps the defaults selects no file of theirs. *)
LEMMA DefaultsNotSelected ==
    ASSUME Types, SelectionKept, ~args.no_default_excludes,
           NEW p \in selected
    PROVE  ~DefaultName(p)
  <1>1. p \in Paths
    BY DEF Types
  <1>2. Match(p, <<"**", p[Len(p)]>>)
    BY <1>1, NameMatches
  <1>3. <<"**", p[Len(p)]>> \notin Excludes
    BY <1>2 DEF SelectionKept
  <1> QED BY <1>3 DEF Excludes, DefaultExcludes, DefaultName

LEMMA KeptOutInit == Init => KeptOut
  <1>1. Init => \A p \in Paths : Stored(p) = NoNote
    <2>1. \A p \in Paths : <<Me, p>> \in Keys
      BY ReingestAssumption DEF Keys
    <2> QED BY <2>1 DEF Init, StoreInit, Stored
  <1> QED BY <1>1 DEF Init, KeptOut, SelectionKept, DefaultsKeptOut

(* Within a run, what is stored or given up is of a file that was selected *)
(* or that was given up before.                                            *)
LEMMA DefaultsStand ==
    ASSUME Types, KeptOut, run' = run, runs' = runs,
           \A q \in failed' : q \in failed \/ q.path \in selected,
           NEW P, P \subseteq selected \union {q.path : q \in failed},
           \A p \in Paths \ P : Stored(p)' = Stored(p)
    PROVE  DefaultsKeptOut'
  <1> SUFFICES ASSUME run = 1, ~args.no_default_excludes,
                      NEW p \in Paths, DefaultName(p)
               PROVE  Stored(p)' = NoNote /\ \A q \in failed' : q.path # p
    <2>1. args' = args
      BY DEF args
    <2> QED BY <2>1 DEF DefaultsKeptOut, DefaultName
  <1>1. Stored(p) = NoNote /\ \A q \in failed : q.path # p
    BY DEF KeptOut, DefaultsKeptOut
  <1>2. p \notin selected
    BY DefaultsNotSelected DEF KeptOut
  <1>3. p \notin P
    BY <1>1, <1>2
  <1> QED BY <1>1, <1>2, <1>3

LEMMA KeptOutNext == Types /\ KeptOut /\ [Next]_vars => KeptOut'
  <1> SUFFICES ASSUME Types, KeptOut, [Next]_vars PROVE KeptOut'
    OBVIOUS
  <1>a. ASSUME run' = run, runs' = runs, selected' = selected PROVE SelectionKept'
    BY <1>a DEF KeptOut, SelectionKept, Excludes, args
  <1>b. ASSUME UNCHANGED storeVars PROVE \A p \in Paths \ {} : Stored(p)' = Stored(p)
    BY <1>b DEF storeVars, Stored
  <1>c. ASSUME run' = run, runs' = runs, selected' = selected, UNCHANGED storeVars,
               \A q \in failed' : q \in failed \/ q.path \in selected
        PROVE  KeptOut'
    <2>1. DefaultsKeptOut'
      BY <1>b, <1>c, DefaultsStand
    <2> QED BY <1>a, <1>c, <2>1 DEF KeptOut
  <1>1. CASE Walk \/ WalkFails \/ ReadNext \/ RetryAfter503 \/ ReportStored \/ Summarise
             \/ RefuseCall
    <2>1. /\ run' = run /\ runs' = runs /\ selected' = selected /\ failed' = failed
          /\ UNCHANGED storeVars
      BY <1>1 DEF Walk, WalkFails, ReadNext, RetryAfter503, ReportStored, Summarise,
                  RefuseCall
    <2> QED BY <1>c, <2>1
  <1>2. CASE Select
    <2>1. /\ run' = run /\ runs' = runs /\ failed' = failed /\ UNCHANGED storeVars
          /\ selected' = {p \in Walked : \A g \in Excludes : ~Match(p, g)}
      BY <1>2 DEF Select
    <2>2. SelectionKept'
      BY <2>1 DEF SelectionKept, Excludes, args
    <2>3. DefaultsKeptOut'
      BY <1>b, <2>1, DefaultsStand
    <2> QED BY <2>2, <2>3 DEF KeptOut
  <1>3. CASE ReportFailed \/ TransportError
    <2>1. /\ run' = run /\ runs' = runs /\ selected' = selected /\ UNCHANGED storeVars
          /\ failed' = failed \union {call.request} /\ pc = "wait"
      BY <1>3 DEF ReportFailed, TransportError, Waiting
    <2>2. call.request.path \in selected
      BY <2>1 DEF Types, CallShape
    <2> QED BY <1>c, <2>1, <2>2
  <1>4. CASE ServeCall
    <2>1. /\ run' = run /\ runs' = runs /\ selected' = selected /\ failed' = failed
          /\ pc = "wait"
      BY <1>4 DEF ServeCall
    <2>2. call.request.path \in selected
      BY <2>1 DEF Types, CallShape
    <2>3. \A p \in Paths \ {call.request.path} : Stored(p)' = Stored(p)
      BY <1>4, CallServed
    <2>4. DefaultsKeptOut'
      BY <2>1, <2>2, <2>3, DefaultsStand
    <2> QED BY <1>a, <2>1, <2>4 DEF KeptOut
  <1>5. ASSUME NEW q \in adrift, ServeAdrift(q) PROVE KeptOut'
    <2>1. run' = run /\ runs' = runs /\ selected' = selected /\ failed' = failed
      BY <1>5 DEF ServeAdrift, clientVars
    <2>2. q \in failed /\ \A p \in Paths \ {q.path} : Stored(p)' = Stored(p)
      BY <1>5, AdriftServed
    <2>3. DefaultsKeptOut'
      BY <2>1, <2>2, DefaultsStand
    <2> QED BY <1>a, <2>1, <2>3 DEF KeptOut
  <1>6. ASSUME NEW q \in adrift, LoseAdrift(q) PROVE KeptOut'
    <2>1. /\ run' = run /\ runs' = runs /\ selected' = selected /\ failed' = failed
          /\ UNCHANGED storeVars
      BY <1>6 DEF LoseAdrift, clientVars
    <2> QED BY <1>c, <2>1
  <1>7. CASE Edit \/ UNCHANGED vars
    <2>1. /\ run' = run /\ runs' = runs /\ selected' = selected /\ failed' = failed
          /\ UNCHANGED storeVars
      BY <1>7 DEF Edit, clientVars, vars
    <2> QED BY <1>c, <2>1
  <1>8. CASE RunAgain
    <2>1. selected' = {} /\ run' = run + 1 /\ run \in Nat \ {0}
      BY <1>8 DEF RunAgain, Types
    <2>2. run' # 1
      BY <2>1
    <2> QED BY <2>1, <2>2 DEF KeptOut, SelectionKept, DefaultsKeptOut
  <1> QED BY <1>1, <1>2, <1>3, <1>4, <1>5, <1>6, <1>7, <1>8 DEF Next, Script

(* A file that a glob of any directories and then a name excludes is never *)
(* sent, however the tree changes between the two walks and after them;    *)
(* and a first run that keeps the defaults brings no file of theirs into   *)
(* the store, however late the server gets to its requests                 *)
(* (reingest.py:32-39, 64-81).                                             *)
THEOREM ExcludedAreKeptOut == Spec => []ExcludedStayOut
  <1>1. Types /\ KeptOut => ExcludedStayOut
    <2> SUFFICES ASSUME Types, KeptOut PROVE ExcludedStayOut
      OBVIOUS
    <2>1. ASSUME NEW p \in selected, NEW name \in {r[Len(r)] : r \in selected},
                 <<"**", name>> \in Excludes
          PROVE  p[Len(p)] # name
      <3>1. p \in Paths
        BY DEF Types
      <3>2. Match(p, <<"**", p[Len(p)]>>)
        BY <3>1, NameMatches
      <3> QED BY <2>1, <3>2 DEF KeptOut, SelectionKept
    <2>2. run = 1 /\ ~args.no_default_excludes =>
             \A p \in Paths :
                p[Len(p)] \in {"MEMORY.md", "learning-log.md"} => Stored(p) = NoNote
      BY DEF KeptOut, DefaultsKeptOut, DefaultName
    <2> QED BY <2>1, <2>2 DEF ExcludedStayOut
  <1> QED BY <1>1, KeptOutInit, KeptOutNext, TypesAlways, PTL DEF Spec
=============================================================================
