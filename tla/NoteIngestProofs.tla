-------------------------- MODULE NoteIngestProofs --------------------------
(***************************************************************************)
(* Theorems about NoteIngest, for every set of workers, clients, paths,    *)
(* documents and pipeline versions and every number of requests: first its *)
(* types, then its safety and the refinement of NoteStore.                 *)
(***************************************************************************)
EXTENDS NoteIngest, FiniteSetTheorems, TLAPS

-----------------------------------------------------------------------------
(* The passages of a document are finitely many, and as many as its split  *)
(* says: what count_passages answers for a note that is complete.          *)
LEMMA PassagesOfCount ==
    ASSUME NEW i \in Ids, NEW c \in Clients, NEW d \in Docs, NEW v \in Versions
    PROVE  /\ IsFiniteSet(PassagesOf(i, c, d, v))
           /\ Cardinality(PassagesOf(i, c, d, v)) = SplitLen[<<d, v>>]
<1> DEFINE n == SplitLen[<<d, v>>]
           N == 0..(n - 1)
           P == PassagesOf(i, c, d, v)
           f == [o \in N |-> [note |-> i, client |-> c, doc |-> d,
                              version |-> v, ordinal |-> o]]
<1>1. n \in Nat \ {0}
  BY DataAssumption
<1>2. f \in Surjection(N, P)
  <2>1. f \in [N -> P]
    BY DEF PassagesOf
  <2>2. ASSUME NEW p \in P PROVE \E o \in N : f[o] = p
    <3>1. /\ p.ordinal \in N
          /\ p = [note |-> i, client |-> c, doc |-> d, version |-> v,
                  ordinal |-> p.ordinal]
      BY DEF PassagesOf
    <3> QED BY <3>1
  <2> QED BY <2>1, <2>2 DEF Surjection
<1>3. f \in Injection(N, P)
  <2>1. ASSUME NEW a \in N, NEW b \in N, f[a] = f[b] PROVE a = b
    <3>1. f[a].ordinal = a /\ f[b].ordinal = b
      OBVIOUS
    <3> QED BY <2>1, <3>1
  <2> QED BY <1>2, <2>1 DEF Injection, IsInjective, Surjection
<1>4. IsFiniteSet(N) /\ Cardinality(N) = n
  <2>1. 0 \in Int /\ n - 1 \in Int /\ ~(0 > n - 1) /\ (n - 1) - 0 + 1 = n
    BY <1>1
  <2> HIDE DEF n
  <2> QED BY <2>1, FS_Interval
<1> HIDE DEF f, N, n
<1>5. IsFiniteSet(P) /\ Cardinality(P) = Cardinality(N)
  BY <1>2, <1>3, <1>4, FS_Surjection
<1> QED BY <1>4, <1>5 DEF n

LEMMA PassagesOfType ==
    ASSUME NEW i \in Ids, NEW c \in Clients, NEW d \in Docs, NEW v \in Versions
    PROVE  /\ PassagesOf(i, c, d, v) \subseteq PassageRow
           /\ \A p \in PassagesOf(i, c, d, v) : p.note = i /\ p.client = c
  <1>1. SplitLen[<<d, v>>] \in Nat
    BY DataAssumption
  <1> QED BY <1>1 DEF PassagesOf, PassageRow

-----------------------------------------------------------------------------
(* What each worker's program counter says of its request. *)

ReqShape(w) ==
    /\ pc[w] \in IngestSteps =>
          /\ req[w] \in IngestRequest
          /\ spot[w] = <<req[w].client, req[w].path>>
    /\ pc[w] \in LookupSteps => req[w] \in LookupRequest
    /\ pc[w] \in {"count", "blocked", "erase"} =>
          /\ spot[w] \in Keys
          /\ spot[w][1] = req[w].client
    /\ pc[w] \in Writing =>
          /\ tx[w].row \in NoteRow
          /\ tx[w].row.doc = req[w].doc
          /\ tx[w].row.version = req[w].version

FiniteTables ==
    /\ IsFiniteSet(passages)
    /\ \A w \in Workers : IsFiniteSet(tx[w].ins)

TypeInv ==
    /\ TypeOK
    /\ \A w \in Workers : ReqShape(w)
    /\ FiniteTables

LEMMA RequestFields ==
    /\ \A r \in IngestRequest :
          /\ r.client \in Clients /\ r.path \in Paths /\ r.doc \in Docs
          /\ r.version \in Versions /\ r.status \in Statuses
          /\ r.kind = "ingest" /\ <<r.client, r.path>> \in Keys
          /\ r \in Request
    /\ \A r \in LookupRequest :
          /\ r.client \in Clients /\ r.id \in Ids /\ r.kind \in {"get", "delete"}
          /\ r \in Request
  BY DEF IngestRequest, LookupRequest, Request, Keys

LEMMA CountIsNatural ==
    ASSUME TypeInv, NEW c, NEW i
    PROVE  Cardinality(PassagesUnder(c, i)) \in Nat
  <1>1. PassagesUnder(c, i) \in SUBSET passages
    BY DEF PassagesUnder
  <1>2. IsFiniteSet(PassagesUnder(c, i))
    BY <1>1, FS_Subset DEF TypeInv, FiniteTables
  <1> QED BY <1>2, FS_CardinalityType

LEMMA TypeInit == Init => TypeInv
  <1> SUFFICES ASSUME Init PROVE TypeInv
    OBVIOUS
  <1>1. NoTx \in Tx
    BY DEF NoTx, Tx
  <1>2. TypeOK
    BY <1>1, DataAssumption, IngestAssumption DEF Init, TypeOK, IngestSteps
  <1>3. \A w \in Workers : ReqShape(w)
    BY DEF Init, ReqShape, IngestSteps, LookupSteps, Writing
  <1>4. FiniteTables
    BY FS_EmptySet DEF Init, FiniteTables, NoTx
  <1> QED BY <1>2, <1>3, <1>4 DEF TypeInv

(* An action that ends the handler of w, whatever it does to the tables. *)
LEMMA TypeFinish ==
    ASSUME TypeInv, NEW w \in Workers, pc[w] # "idle",
           NEW code \in Codes, NEW key \in Keys \union {NoKey},
           NEW note \in NoteRow \union {NoNote}, NEW count \in Nat,
           NEW skipped \in BOOLEAN,
           Finish(w, Reply(w, code, key, note, count, skipped)),
           notes' \in [Keys -> NoteRow \union {NoNote}],
           passages' \subseteq PassageRow, IsFiniteSet(passages'),
           erased' \subseteq Ids
    PROVE  TypeInv'
  <1>1. req[w] \in Request
    BY ZenonT(60), RequestFields DEF TypeInv, TypeOK, ReqShape
  <1>2. Reply(w, code, key, note, count, skipped) \in Answer
    BY <1>1 DEF Reply, Answer
  <1>3. NoTx \in Tx
    BY DEF NoTx, Tx
  <1>4. TypeOK'
    BY <1>2, <1>3 DEF TypeInv, TypeOK, Finish, Unlocked
  <1>5. \A u \in Workers : ReqShape(u)'
    <2> TAKE u \in Workers
    <2>1. CASE u = w
      <3>1. pc'[w] = "idle"
        BY DEF TypeInv, TypeOK, Finish
      <3> QED BY <2>1, <3>1 DEF ReqShape, IngestSteps, LookupSteps, Writing
    <2>2. CASE u # w
      <3>1. /\ pc'[u] = pc[u] /\ req'[u] = req[u] /\ spot'[u] = spot[u]
            /\ tx'[u] = tx[u]
        BY <2>2 DEF TypeInv, TypeOK, Finish
      <3> QED BY <3>1 DEF TypeInv, ReqShape
    <2> QED BY <2>1, <2>2
  <1>6. FiniteTables'
    BY FS_EmptySet DEF TypeInv, TypeOK, FiniteTables, Finish, NoTx
  <1> QED BY <1>4, <1>5, <1>6 DEF TypeInv

LEMMA TypeRefuse ==
    ASSUME TypeInv, NEW w \in Workers, pc[w] # "idle", NEW code \in Codes,
           Refuse(w, code)
    PROVE  TypeInv'
  <1> USE DEF Refuse, Give, tables
  <1>1. /\ notes' \in [Keys -> NoteRow \union {NoNote}]
        /\ passages' \subseteq PassageRow /\ IsFiniteSet(passages')
        /\ erased' \subseteq Ids
    BY DEF TypeInv, TypeOK, FiniteTables
  <1> QED BY <1>1, TypeFinish

(* A step that moves the handler of w on, within the tables as they are. *)
LEMMA TypeGoto ==
    ASSUME TypeInv, NEW w \in Workers,
           NEW step \in IngestSteps \union LookupSteps, Goto(w, step),
           nextId' \in 1..(MaxId + 1),
           lock' \in [Keys -> Workers \union {Free}],
           \A u \in Workers : u # w => spot'[u] = spot[u] /\ tx'[u] = tx[u],
           spot' \in [Workers -> Keys \union {NoKey}],
           seen' \in [Workers -> NoteRow \union {NoNote}],
           embedded' \in [Workers -> Nat],
           tx' \in [Workers -> Tx], IsFiniteSet(tx'[w].ins),
           ReqShape(w)'
    PROVE  TypeInv'
  <1>1. TypeOK'
    BY DEF TypeInv, TypeOK, Goto, tables
  <1>2. \A u \in Workers : ReqShape(u)'
    <2> TAKE u \in Workers
    <2>1. CASE u # w
      <3>1. /\ pc'[u] = pc[u] /\ req'[u] = req[u] /\ spot'[u] = spot[u]
            /\ tx'[u] = tx[u]
        BY <2>1 DEF TypeInv, TypeOK, Goto
      <3> QED BY <3>1 DEF TypeInv, ReqShape
    <2> QED BY <2>1
  <1>3. FiniteTables'
    BY DEF TypeInv, FiniteTables, Goto, tables
  <1> QED BY <1>1, <1>2, <1>3 DEF TypeInv

LEMMA TypeReceive ==
    ASSUME TypeInv, NEW w \in Workers, NEW r \in Ingests \union Lookups,
           Receive(w, r)
    PROVE  TypeInv'
  <1>1. /\ r \in IngestRequest \/ r \in LookupRequest
        /\ r \in IngestRequest => r.kind = "ingest"
        /\ r \in LookupRequest => r.kind \in {"get", "delete"}
        /\ r \in Request
        /\ r \in IngestRequest => <<r.client, r.path>> \in Keys
    BY IngestAssumption, RequestFields
  <1>2. TypeOK'
    BY <1>1, IngestAssumption
    DEF TypeInv, TypeOK, Receive, tables, IngestSteps, LookupSteps
  <1>3. \A u \in Workers : ReqShape(u)'
    <2> TAKE u \in Workers
    <2>1. CASE u = w
      <3>1. /\ pc'[w] = r.kind /\ req'[w] = r
            /\ spot'[w] = IF r.kind = "ingest" THEN <<r.client, r.path>> ELSE NoKey
        BY DEF TypeInv, TypeOK, Receive
      <3> QED BY <1>1, <2>1, <3>1
              DEF ReqShape, IngestSteps, LookupSteps, Writing
    <2>2. CASE u # w
      <3>1. /\ pc'[u] = pc[u] /\ req'[u] = req[u] /\ spot'[u] = spot[u]
            /\ tx'[u] = tx[u]
        BY <2>2 DEF TypeInv, TypeOK, Receive
      <3> QED BY <3>1 DEF TypeInv, ReqShape
    <2> QED BY <2>1, <2>2
  <1>4. FiniteTables'
    BY DEF TypeInv, FiniteTables, Receive, tables
  <1> QED BY <1>2, <1>3, <1>4 DEF TypeInv

LEMMA TypeIngest ==
    ASSUME TypeInv, NEW w \in Workers,
           \/ RejectInvalid(w) \/ LockNote(w) \/ LockNoteAfterWait(w)
           \/ CommitSkip(w) \/ CountForSkip(w)
           \/ UpsertNote(w) \/ SequenceExhausted(w)
           \/ EmbedBatch(w) \/ EmbedFails(w) \/ ReplacePassages(w)
           \/ CommitIngest(w)
    PROVE  TypeInv'
  <1> DEFINE k == spot[w]
             r == req[w]
  <1>1. TypeOK /\ ReqShape(w) /\ FiniteTables
    BY DEF TypeInv
  <1>2. /\ r \in IngestRequest /\ k = <<r.client, r.path>> /\ k \in Keys
        /\ r.doc \in Docs /\ r.version \in Versions /\ r.status \in Statuses
        /\ r.client \in Clients /\ pc[w] # "idle"
    BY <1>1, RequestFields
    DEF RejectInvalid, LockNote, LockNoteAfterWait, CommitSkip, CountForSkip,
        UpsertNote, SequenceExhausted, EmbedBatch, EmbedFails,
        ReplacePassages, CommitIngest, ReqShape, IngestSteps
  <1>3. \A row \in NoteRow : HoldNote(w, row) => TypeInv'
    <2> SUFFICES ASSUME NEW row \in NoteRow, HoldNote(w, row) PROVE TypeInv'
      OBVIOUS
    <2> DEFINE step == IF SkipKeyMatches(req[w], row) THEN "skip" ELSE "upsert"
    <2>1. step \in IngestSteps \union LookupSteps /\ Goto(w, step)
      BY DEF IngestSteps, HoldNote
    <2>2. ReqShape(w)'
      BY <1>1, <1>2
      DEF ReqShape, HoldNote, Goto, TypeOK, IngestSteps, LookupSteps, Writing
    <2>3. /\ nextId' = nextId /\ spot' = spot /\ tx' = tx /\ embedded' = embedded
          /\ lock' \in [Keys -> Workers \union {Free}]
          /\ seen' \in [Workers -> NoteRow \union {NoNote}]
      BY <1>1, <1>2 DEF HoldNote, TypeOK
    <2> HIDE DEF step
    <2> QED BY <1>1, <2>1, <2>2, <2>3, TypeGoto DEF TypeOK, FiniteTables
  <1>4. MissNote(w) => TypeInv'
    <2> SUFFICES ASSUME MissNote(w) PROVE TypeInv'
      OBVIOUS
    <2>1. "upsert" \in IngestSteps \union LookupSteps /\ Goto(w, "upsert")
      BY DEF IngestSteps, MissNote
    <2>2. ReqShape(w)'
      BY <1>1, <1>2
      DEF ReqShape, MissNote, Goto, TypeOK, IngestSteps, LookupSteps, Writing
    <2> QED BY <1>1, <2>1, <2>2, TypeGoto DEF MissNote, TypeOK, FiniteTables
  <1>5. CASE RejectInvalid(w)
    BY <1>2, <1>5, TypeRefuse DEF RejectInvalid, Codes
  <1>6. CASE LockNote(w)
    <2>1. CASE notes[k] = NoNote /\ MissNote(w)
      BY <2>1, <1>4
    <2>2. CASE notes[k] # NoNote /\ HoldNote(w, notes[k])
      BY <1>1, <1>2, <1>3, <2>2 DEF TypeOK
    <2>3. CASE /\ notes[k] # NoNote
               /\ seen' = [seen EXCEPT ![w] = notes[k]]
               /\ Goto(w, "waiting")
               /\ UNCHANGED <<nextId, lock, spot, embedded, tx>>
      <3>1. "waiting" \in IngestSteps \union LookupSteps /\ notes[k] \in NoteRow
        BY <1>1, <1>2, <2>3 DEF IngestSteps, TypeOK
      <3>2. ReqShape(w)'
        BY <1>1, <1>2, <2>3
        DEF ReqShape, Goto, TypeOK, IngestSteps, LookupSteps, Writing
      <3> QED BY <1>1, <2>3, <3>1, <3>2, TypeGoto DEF TypeOK, FiniteTables
    <2> QED BY <1>6, <2>1, <2>2, <2>3 DEF LockNote
  <1>7. CASE LockNoteAfterWait(w)
    <2>1. notes[k] # NoNote => notes[k] \in NoteRow
      BY <1>1, <1>2 DEF TypeOK
    <2> QED BY <1>3, <1>4, <1>7, <2>1 DEF LockNoteAfterWait
  <1>8. CASE CommitSkip(w)
    <2>1. "recount" \in IngestSteps \union LookupSteps
      BY DEF IngestSteps
    <2>2. ReqShape(w)'
      BY <1>1, <1>2, <1>8
      DEF ReqShape, CommitSkip, Goto, TypeOK, IngestSteps, LookupSteps, Writing
    <2> QED BY <1>1, <1>8, <2>1, <2>2, TypeGoto
            DEF CommitSkip, Unlocked, TypeOK, FiniteTables
  <1>9. CASE CountForSkip(w)
    <2>1. /\ seen[w] \in NoteRow \union {NoNote}
          /\ notes' = notes /\ passages' = passages /\ erased' = erased
          /\ "200" \in Codes
      BY <1>1, <1>9 DEF CountForSkip, Give, tables, TypeOK, Codes
    <2> QED BY <1>1, <1>2, <1>9, <2>1, TypeFinish, CountIsNatural
            DEF CountForSkip, Give, TypeOK, FiniteTables
  <1>10. CASE UpsertNote(w)
    <2> DEFINE row == [id |-> IF notes[k] = NoNote THEN NewId ELSE notes[k].id,
                       doc |-> r.doc, version |-> r.version,
                       status |-> r.status]
    <2>1. row \in NoteRow /\ nextId + 1 \in 1..(MaxId + 1)
      BY <1>1, <1>2, <1>10, DataAssumption
      DEF UpsertNote, SequenceLeft, NewId, TypeOK, NoteRow, Ids
    <2>2. tx' = [tx EXCEPT ![w] = [row |-> row, del |-> {}, ins |-> {}]]
      BY <1>10 DEF UpsertNote
    <2> HIDE DEF row
    <2>3. [row |-> row, del |-> {}, ins |-> {}] \in Tx
      BY <2>1 DEF Tx
    <2>4. tx' \in [Workers -> Tx] /\ tx'[w] = [row |-> row, del |-> {}, ins |-> {}]
      BY <1>1, <2>2, <2>3 DEF TypeOK
    <2>5. row.doc = r.doc /\ row.version = r.version
      BY DEF row
    <2>6. pc'[w] = "embed" /\ req'[w] = r /\ spot'[w] = k
      BY <1>1, <1>10 DEF UpsertNote, Goto, TypeOK
    <2>7. ReqShape(w)'
      BY <1>2, <2>1, <2>4, <2>5, <2>6
      DEF ReqShape, IngestSteps, LookupSteps, Writing
    <2>8. "embed" \in IngestSteps \union LookupSteps /\ IsFiniteSet(tx'[w].ins)
      BY <2>4, FS_EmptySet DEF IngestSteps
    <2>9. lock' \in [Keys -> Workers \union {Free}]
      BY <1>1, <1>10 DEF UpsertNote, TypeOK
    <2>10. /\ nextId' \in 1..(MaxId + 1) /\ Goto(w, "embed")
           /\ \A u \in Workers : u # w => spot'[u] = spot[u] /\ tx'[u] = tx[u]
           /\ spot' \in [Workers -> Keys \union {NoKey}]
           /\ seen' \in [Workers -> NoteRow \union {NoNote}]
           /\ embedded' \in [Workers -> Nat]
      BY <1>1, <1>10, <2>1, <2>2 DEF UpsertNote, TypeOK
    <2> QED BY <2>4, <2>7, <2>8, <2>9, <2>10, TypeGoto
  <1>11. CASE SequenceExhausted(w)
    BY <1>2, <1>11, TypeRefuse DEF SequenceExhausted, Codes
  <1>12. CASE EmbedBatch(w)
    <2> DEFINE total == SplitLen[<<r.doc, r.version>>]
               done == embedded[w] + EmbedBatchSize
               step == IF done < total THEN "embed" ELSE "replace"
    <2>1. total \in Nat /\ done \in Nat
      BY <1>1, <1>2, DataAssumption, IngestAssumption DEF TypeOK
    <2>2. /\ step \in IngestSteps \union LookupSteps
          /\ Goto(w, step)
          /\ embedded' \in [Workers -> Nat]
      BY <1>1, <1>12, <2>1 DEF EmbedBatch, IngestSteps, TypeOK
    <2>3. ReqShape(w)'
      BY <1>1, <1>2, <1>12
      DEF ReqShape, EmbedBatch, Goto, TypeOK, IngestSteps, LookupSteps, Writing
    <2> HIDE DEF step
    <2> QED BY <1>1, <1>12, <2>2, <2>3, TypeGoto
            DEF EmbedBatch, TypeOK, FiniteTables
  <1>13. CASE EmbedFails(w)
    BY <1>2, <1>13, TypeRefuse DEF EmbedFails, Codes
  <1>14. CASE ReplacePassages(w)
    <2> DEFINE row == tx[w].row
               ins == PassagesOf(row.id, r.client, r.doc, r.version)
               new == [row |-> row, del |-> PassagesUnder(r.client, row.id),
                       ins |-> ins]
    <2>1. row \in NoteRow /\ row.id \in Ids
      BY <1>1, <1>14 DEF ReplacePassages, ReqShape, Writing, NoteRow
    <2>2. IsFiniteSet(ins) /\ ins \subseteq PassageRow
      BY <1>2, <2>1, PassagesOfCount, PassagesOfType
    <2>3. PassagesUnder(r.client, row.id) \subseteq PassageRow
      BY <1>1 DEF PassagesUnder, TypeOK
    <2>4. tx' = [tx EXCEPT ![w] = new]
      BY <1>14 DEF ReplacePassages
    <2>5. new \in Tx /\ new.row = row /\ new.ins = ins
      BY <2>1, <2>2, <2>3 DEF Tx
    <2> HIDE DEF new, ins
    <2>6. tx' \in [Workers -> Tx] /\ tx'[w] = new
      BY <1>1, <2>4, <2>5 DEF TypeOK
    <2>7. pc'[w] = "commit" /\ req'[w] = r /\ spot'[w] = k
      BY <1>1, <1>14 DEF ReplacePassages, Goto, TypeOK
    <2>8. row.doc = r.doc /\ row.version = r.version
      BY <1>1, <1>14 DEF ReplacePassages, ReqShape, Writing
    <2>9. ReqShape(w)'
      BY <1>2, <2>1, <2>5, <2>6, <2>7, <2>8
      DEF ReqShape, IngestSteps, LookupSteps, Writing
    <2>10. "commit" \in IngestSteps \union LookupSteps
      BY DEF IngestSteps
    <2>11. /\ nextId' \in 1..(MaxId + 1) /\ Goto(w, "commit")
           /\ lock' \in [Keys -> Workers \union {Free}]
           /\ \A u \in Workers : u # w => spot'[u] = spot[u] /\ tx'[u] = tx[u]
           /\ spot' \in [Workers -> Keys \union {NoKey}]
           /\ seen' \in [Workers -> NoteRow \union {NoNote}]
           /\ embedded' \in [Workers -> Nat]
      BY <1>1, <1>14, <2>4 DEF ReplacePassages, TypeOK
    <2> QED BY <2>2, <2>5, <2>6, <2>9, <2>10, <2>11, TypeGoto
  <1>15. CASE CommitIngest(w)
    <2>1. /\ tx[w].row \in NoteRow
          /\ tx[w] \in Tx /\ IsFiniteSet(tx[w].ins)
      BY <1>1, <1>15
      DEF CommitIngest, ReqShape, Writing, TypeOK, FiniteTables
    <2>2. passages' = (passages \ tx[w].del) \union tx[w].ins
      BY <1>15 DEF CommitIngest
    <2>3. passages' \subseteq PassageRow
      BY <1>1, <2>1, <2>2 DEF Tx, TypeOK
    <2>4. IsFiniteSet(passages')
      <3>1. (passages \ tx[w].del) \in SUBSET passages
        OBVIOUS
      <3>2. IsFiniteSet(passages \ tx[w].del)
        BY <1>1, <3>1, FS_Subset DEF FiniteTables
      <3> QED BY <2>1, <2>2, <3>2, FS_Union
    <2>5. /\ notes' \in [Keys -> NoteRow \union {NoNote}]
          /\ erased' \subseteq Ids
      BY <1>1, <1>2, <1>15, <2>1 DEF CommitIngest, TypeOK
    <2>6. Cardinality(tx[w].ins) \in Nat
      BY <2>1, FS_CardinalityType
    <2>7. PICK code \in {"200", "error"} :
             Finish(w, Reply(w, code, k, tx[w].row, Cardinality(tx[w].ins), FALSE))
      BY <1>15 DEF CommitIngest
    <2>8. code \in Codes
      BY DEF Codes
    <2> QED BY <1>2, <2>1, <2>3, <2>4, <2>5, <2>6, <2>7, <2>8, TypeFinish
  <1> QED
    BY <1>5, <1>6, <1>7, <1>8, <1>9, <1>10, <1>11, <1>12, <1>13, <1>14, <1>15

LEMMA TypeLookup ==
    ASSUME TypeInv, NEW w \in Workers,
           \/ GetNote(w) \/ CountForGet(w)
           \/ DeleteNote(w) \/ DeleteNoteAfterWait(w) \/ CommitDelete(w)
    PROVE  TypeInv'
  <1> DEFINE r == req[w]
  <1>1. TypeOK /\ ReqShape(w) /\ FiniteTables
    BY DEF TypeInv
  <1>2. /\ r \in LookupRequest /\ r.client \in Clients /\ r.id \in Ids
        /\ pc[w] # "idle"
    BY <1>1, RequestFields
    DEF GetNote, CountForGet, DeleteNote, DeleteNoteAfterWait, CommitDelete,
        ReqShape, LookupSteps
  <1>3. ASSUME NEW k \in Keys, Matches(k, r.client, r.id), EraseNote(w, k)
        PROVE  TypeInv'
    <2> DEFINE new == [row |-> NoNote, del |-> PassagesUnder(k[1], notes[k].id),
                       ins |-> {}]
    <2>1. tx' = [tx EXCEPT ![w] = new] /\ spot' = [spot EXCEPT ![w] = k]
      BY <1>3 DEF EraseNote
    <2>2. new \in Tx /\ new.ins = {}
      BY <1>1 DEF Tx, PassagesUnder, TypeOK
    <2> HIDE DEF new
    <2>3. tx' \in [Workers -> Tx] /\ tx'[w].ins = {}
      BY <1>1, <2>1, <2>2 DEF TypeOK
    <2>4. /\ Goto(w, "erase") /\ pc'[w] = "erase" /\ req'[w] = r /\ spot'[w] = k
          /\ k[1] = r.client
      BY <1>1, <1>3 DEF EraseNote, Goto, TypeOK, Matches
    <2>5. ReqShape(w)'
      BY <1>2, <2>4 DEF ReqShape, IngestSteps, LookupSteps, Writing
    <2>6. "erase" \in IngestSteps \union LookupSteps /\ IsFiniteSet(tx'[w].ins)
      BY <2>3, FS_EmptySet DEF LookupSteps
    <2>7. /\ nextId' \in 1..(MaxId + 1)
          /\ lock' \in [Keys -> Workers \union {Free}]
          /\ \A u \in Workers : u # w => spot'[u] = spot[u] /\ tx'[u] = tx[u]
          /\ spot' \in [Workers -> Keys \union {NoKey}]
          /\ seen' \in [Workers -> NoteRow \union {NoNote}]
          /\ embedded' \in [Workers -> Nat]
      BY <1>1, <1>3, <2>1 DEF EraseNote, TypeOK
    <2> QED BY <2>3, <2>4, <2>5, <2>6, <2>7, TypeGoto
  <1>4. CASE GetNote(w)
    <2>1. CASE Refuse(w, "404")
      BY <1>2, <2>1, TypeRefuse DEF Codes
    <2>2. CASE \E k \in Keys :
                  /\ Matches(k, r.client, r.id)
                  /\ spot' = [spot EXCEPT ![w] = k]
                  /\ seen' = [seen EXCEPT ![w] = notes[k]]
                  /\ Goto(w, "count")
                  /\ UNCHANGED <<nextId, lock, embedded, tx>>
      <3>1. PICK k \in Keys :
                  /\ Matches(k, r.client, r.id)
                  /\ spot' = [spot EXCEPT ![w] = k]
                  /\ seen' = [seen EXCEPT ![w] = notes[k]]
                  /\ Goto(w, "count")
                  /\ UNCHANGED <<nextId, lock, embedded, tx>>
        BY <2>2
      <3>2. notes[k] \in NoteRow /\ k[1] = r.client
        BY <1>1, <3>1 DEF Matches, TypeOK
      <3>3. "count" \in IngestSteps \union LookupSteps
        BY DEF LookupSteps
      <3>4. pc'[w] = "count" /\ req'[w] = r /\ spot'[w] = k
        BY <1>1, <3>1 DEF Goto, TypeOK
      <3>5. ReqShape(w)'
        BY <1>2, <3>2, <3>4
        DEF ReqShape, IngestSteps, LookupSteps, Writing
      <3> QED BY <1>1, <3>1, <3>2, <3>3, <3>5, TypeGoto DEF TypeOK, FiniteTables
    <2> QED BY <1>4, <2>1, <2>2 DEF GetNote
  <1>5. CASE CountForGet(w)
    <2>1. /\ seen[w] \in NoteRow \union {NoNote} /\ spot[w] \in Keys \union {NoKey}
          /\ notes' = notes /\ passages' = passages /\ erased' = erased
          /\ "200" \in Codes
      BY <1>1, <1>5 DEF CountForGet, Give, tables, TypeOK, Codes
    <2> QED BY <1>1, <1>2, <1>5, <2>1, TypeFinish, CountIsNatural
            DEF CountForGet, Give, TypeOK, FiniteTables
  <1>6. CASE DeleteNote(w)
    <2>1. CASE Refuse(w, "404")
      BY <1>2, <2>1, TypeRefuse DEF Codes
    <2>2. ASSUME NEW k \in Keys, Matches(k, r.client, r.id),
                 spot' = [spot EXCEPT ![w] = k],
                 Goto(w, "blocked"),
                 UNCHANGED <<nextId, lock, seen, embedded, tx>>
          PROVE  TypeInv'
      <3>1. "blocked" \in IngestSteps \union LookupSteps
        BY DEF LookupSteps
      <3>2. pc'[w] = "blocked" /\ req'[w] = r /\ spot'[w] = k /\ k[1] = r.client
        BY <1>1, <2>2 DEF Goto, TypeOK, Matches
      <3>3. ReqShape(w)'
        BY <1>2, <3>2
        DEF ReqShape, IngestSteps, LookupSteps, Writing
      <3> QED BY <1>1, <2>2, <3>1, <3>3, TypeGoto DEF TypeOK, FiniteTables
    <2> QED BY <1>3, <1>6, <2>1, <2>2 DEF DeleteNote
  <1>7. CASE DeleteNoteAfterWait(w)
    <2>1. CASE Refuse(w, "404")
      BY <1>2, <2>1, TypeRefuse DEF Codes
    <2>2. spot[w] \in Keys
      BY <1>1, <1>7 DEF DeleteNoteAfterWait, ReqShape
    <2> QED BY <1>3, <1>7, <2>1, <2>2 DEF DeleteNoteAfterWait
  <1>8. CASE CommitDelete(w)
    <2>1. /\ spot[w] \in Keys
          /\ notes' \in [Keys -> NoteRow \union {NoNote}]
          /\ passages' \in SUBSET passages
          /\ erased' \subseteq Ids
      BY <1>1, <1>2, <1>8 DEF CommitDelete, ReqShape, TypeOK
    <2>2. IsFiniteSet(passages')
      BY <1>1, <2>1, FS_Subset DEF FiniteTables
    <2>3. PICK code \in {"204", "error"} :
             Finish(w, Reply(w, code, spot[w], NoNote, 0, FALSE))
      BY <1>8 DEF CommitDelete
    <2>4. code \in Codes /\ passages' \subseteq PassageRow
      BY <1>1, <2>1 DEF Codes, TypeOK
    <2> QED BY <1>2, <2>1, <2>2, <2>3, <2>4, TypeFinish
  <1> QED BY <1>4, <1>5, <1>6, <1>7, <1>8

LEMMA TypeNext == TypeInv /\ [Next]_vars => TypeInv'
  <1> SUFFICES ASSUME TypeInv, [Next]_vars PROVE TypeInv'
    OBVIOUS
  <1>1. ASSUME NEW w \in Workers, NEW r \in Ingests \union Lookups, Receive(w, r)
        PROVE  TypeInv'
    BY <1>1, TypeReceive
  <1>2. ASSUME NEW w \in Workers, Proceed(w) PROVE TypeInv'
    BY <1>2, TypeIngest, TypeLookup DEF Proceed
  <1>3. ASSUME NEW w \in Workers, Abort(w) PROVE TypeInv'
    BY <1>3, TypeRefuse DEF Abort, Codes
  <1>4. CASE UNCHANGED vars
    BY <1>4 DEF vars, local, tables, TypeInv, TypeOK, ReqShape, FiniteTables
  <1> QED BY <1>1, <1>2, <1>3, <1>4 DEF Next, Quiet

(* Every variable keeps its type: ids stay within the column's width, and  *)
(* every answer is well formed.                                            *)
THEOREM TypeCorrect == Spec => []TypeOK
  <1>1. TypeInv => TypeOK
    BY DEF TypeInv
  <1> QED BY <1>1, TypeInit, TypeNext, PTL DEF Spec
-----------------------------------------------------------------------------
(***************************************************************************)
(* Safety.  The invariants that matter are not inductive: that a note's    *)
(* passages are complete holds after a commit because of what the          *)
(* transaction had written before, which holds because nobody else could   *)
(* touch that note meanwhile, which holds because of the lock.  SafeInv    *)
(* spells this out, worker by worker (WorkerInv), together with the        *)
(* bookkeeping of ids that keeps different notes apart.                    *)
(***************************************************************************)

(* Who is between lock and commit holds the lock. *)
Owner(w) ==
    pc[w] \in {"skip", "erase"} \union Writing => lock[spot[w]] = w

(* What lock_note returned is still the row, as long as it matters. *)
Reading(w) ==
    /\ pc[w] = "skip" =>
          /\ seen[w] # NoNote
          /\ notes[spot[w]] = seen[w]
          /\ SkipKeyMatches(req[w], seen[w])
    /\ (pc[w] \in {"upsert"} \union Writing /\ seen[w] # NoNote) =>
          /\ lock[spot[w]] = w
          /\ notes[spot[w]] = seen[w]
          /\ ~SkipKeyMatches(req[w], seen[w])

(* The id of an uncommitted row is the note's own, or nobody's. *)
DraftId(w) ==
    pc[w] \in Writing =>
       /\ tx[w].row.id < nextId
       /\ tx[w].row.id \notin erased
       /\ Live(spot[w]) => notes[spot[w]].id = tx[w].row.id
       /\ \A k \in Keys :
             Live(k) /\ notes[k].id = tx[w].row.id => k = spot[w]

(* The uncommitted passages replace exactly the note's committed ones. *)
DraftWrites(w) ==
    pc[w] = "commit" =>
       /\ tx[w].del = {p \in passages : p.note = tx[w].row.id}
       /\ tx[w].ins = PassagesOf(tx[w].row.id, req[w].client,
                                 req[w].doc, req[w].version)

(* An uncommitted DELETE takes the row it names and all its passages. *)
EraseWrites(w) ==
    pc[w] = "erase" =>
       /\ Live(spot[w])
       /\ notes[spot[w]].id = req[w].id
       /\ tx[w].del = {p \in passages : p.note = req[w].id}

WorkerInv(w) ==
    Owner(w) /\ Reading(w) /\ DraftId(w) /\ DraftWrites(w) /\ EraseWrites(w)

DraftsApart ==
    \A w, v \in Workers :
       (w # v /\ pc[w] \in Writing /\ pc[v] \in Writing)
       => tx[w].row.id # tx[v].row.id

IdsSane ==
    /\ \A k \in Keys : Live(k) => notes[k].id < nextId /\ notes[k].id \notin erased
    /\ \A j, k \in Keys : Live(j) /\ Live(k) /\ notes[j].id = notes[k].id => j = k
    /\ \A i \in erased : i < nextId

SafeInv ==
    /\ TypeInv
    /\ \A w \in Workers : WorkerInv(w)
    /\ DraftsApart
    /\ IdsSane
    /\ NotesComplete
    /\ NoOrphans

-----------------------------------------------------------------------------

LEMMA Types ==
    ASSUME SafeInv
    PROVE  /\ TypeOK
           /\ nextId \in Nat
           /\ \A k \in Keys : Live(k) => notes[k] \in NoteRow /\ notes[k].id \in Nat
           /\ \A w \in Workers : pc[w] \in IngestSteps =>
                 /\ spot[w] \in Keys
                 /\ spot[w][1] = req[w].client
           /\ \A w \in Workers : pc[w] \in {"count", "blocked", "erase"} =>
                 /\ spot[w] \in Keys
                 /\ spot[w][1] = req[w].client
           /\ \A w \in Workers : pc[w] \in Writing =>
                 /\ tx[w].row \in NoteRow
                 /\ tx[w].row.id \in Nat
  <1>1. TypeOK /\ \A w \in Workers : ReqShape(w)
    BY DEF SafeInv, TypeInv
  <1>2. nextId \in Nat /\ \A i \in Ids : i \in Nat
    BY <1>1, DataAssumption DEF TypeOK, Ids
  <1>3. \A w \in Workers : pc[w] \in IngestSteps =>
           /\ spot[w] \in Keys
           /\ spot[w][1] = req[w].client
    <2> TAKE w \in Workers
    <2> HAVE pc[w] \in IngestSteps
    <2>1. req[w] \in IngestRequest /\ spot[w] = <<req[w].client, req[w].path>>
      BY <1>1 DEF ReqShape
    <2>2. <<req[w].client, req[w].path>> \in Keys
      BY <2>1, RequestFields
    <2>3. <<req[w].client, req[w].path>>[1] = req[w].client
      OBVIOUS
    <2> QED BY <2>1, <2>2, <2>3
  <1>4. \A row \in NoteRow : row.id \in Nat
    BY <1>2 DEF NoteRow
  <1>5. \A k \in Keys : Live(k) => notes[k] \in NoteRow
    BY <1>1 DEF TypeOK, Live
  <1>6. \A w \in Workers : pc[w] \in {"count", "blocked", "erase"} =>
           /\ spot[w] \in Keys
           /\ spot[w][1] = req[w].client
    BY <1>1 DEF ReqShape
  <1>7. \A w \in Workers : pc[w] \in Writing => tx[w].row \in NoteRow
    BY <1>1 DEF ReqShape
  <1> QED BY <1>1, <1>2, <1>3, <1>4, <1>5, <1>6, <1>7

(* The tenant filter loses nothing: a note's passages are its client's. *)
LEMMA OwnPassages ==
    ASSUME SafeInv, NEW c, NEW i,
           \A k \in Keys : Live(k) /\ notes[k].id = i => k[1] = c
    PROVE  PassagesUnder(c, i) = {p \in passages : p.note = i}
  BY DEF SafeInv, NoOrphans, PassagesUnder

LEMMA SafeInit == Init => SafeInv
  <1> SUFFICES ASSUME Init PROVE SafeInv
    OBVIOUS
  <1>1. TypeInv
    BY TypeInit
  <1>2. \A w \in Workers : WorkerInv(w)
    BY DEF Init, WorkerInv, Owner, Reading, DraftId, DraftWrites, EraseWrites, Writing
  <1>3. DraftsApart
    BY DEF Init, DraftsApart, Writing
  <1>4. IdsSane /\ NotesComplete /\ NoOrphans
    BY DEF Init, IdsSane, NotesComplete, NoOrphans, Live
  <1> QED BY <1>1, <1>2, <1>3, <1>4 DEF SafeInv

-----------------------------------------------------------------------------
(* Most steps leave the tables and the other workers as they are. *)

OthersKept(w) ==
    \A u \in Workers : u # w =>
       /\ pc'[u] = pc[u] /\ req'[u] = req[u] /\ spot'[u] = spot[u]
       /\ seen'[u] = seen[u] /\ tx'[u] = tx[u]
       /\ \A k \in Keys : lock[k] = u => lock'[k] = u

LEMMA LocalStep ==
    ASSUME SafeInv, TypeInv', NEW w \in Workers,
           UNCHANGED <<tables, nextId>>, OthersKept(w), WorkerInv(w)',
           pc'[w] \in Writing =>
              pc[w] \in Writing /\ tx'[w].row = tx[w].row
    PROVE  SafeInv'
  <1>1. notes' = notes /\ passages' = passages /\ erased' = erased /\ nextId' = nextId
    BY DEF tables
  <1>2. ASSUME NEW u \in Workers PROVE WorkerInv(u)'
    <2>1. CASE u = w
      BY <2>1
    <2>2. CASE u # w
      <3>1. /\ pc'[u] = pc[u] /\ req'[u] = req[u] /\ spot'[u] = spot[u]
            /\ seen'[u] = seen[u] /\ tx'[u] = tx[u]
            /\ \A k \in Keys : lock[k] = u => lock'[k] = u
        BY <2>2 DEF OthersKept
      <3>2. WorkerInv(u)
        BY DEF SafeInv
      <3>3. pc[u] \in {"skip", "upsert", "erase"} \union Writing => spot[u] \in Keys
        BY Types DEF IngestSteps, Writing
      <3>4. Owner(u)'
        BY <3>1, <3>2, <3>3 DEF WorkerInv, Owner
      <3>5. Reading(u)'
        BY <1>1, <3>1, <3>2, <3>3 DEF WorkerInv, Reading, SkipKeyMatches
      <3>6. DraftId(u)' /\ DraftWrites(u)' /\ EraseWrites(u)'
        BY <1>1, <3>1, <3>2 DEF WorkerInv, DraftId, DraftWrites, EraseWrites, Live
      <3> QED BY <3>4, <3>5, <3>6 DEF WorkerInv
    <2> QED BY <2>1, <2>2
  <1>3. DraftsApart'
    <2> SUFFICES ASSUME NEW u \in Workers, NEW v \in Workers, u # v,
                        pc'[u] \in Writing, pc'[v] \in Writing
                 PROVE  tx'[u].row.id # tx'[v].row.id
      BY DEF DraftsApart
    <2>1. /\ pc[u] \in Writing /\ tx'[u].row = tx[u].row
          /\ pc[v] \in Writing /\ tx'[v].row = tx[v].row
      BY DEF OthersKept
    <2> QED BY <2>1 DEF SafeInv, DraftsApart
  <1>4. IdsSane' /\ NotesComplete' /\ NoOrphans'
    BY <1>1 DEF SafeInv, IdsSane, NotesComplete, NoOrphans, Live
  <1> QED BY <1>2, <1>3, <1>4 DEF SafeInv

(* A worker that ends up idle promises nothing. *)
LEMMA IdleStep ==
    ASSUME SafeInv, TypeInv', NEW w \in Workers,
           UNCHANGED <<tables, nextId>>, OthersKept(w), pc'[w] = "idle"
    PROVE  SafeInv'
  <1>1. WorkerInv(w)' /\ pc'[w] \notin Writing
    BY DEF WorkerInv, Owner, Reading, DraftId, DraftWrites, EraseWrites, Writing
  <1> QED BY <1>1, LocalStep

LEMMA FinishKeepsOthers ==
    ASSUME SafeInv, NEW w \in Workers, NEW response, Finish(w, response)
    PROVE  OthersKept(w) /\ pc'[w] = "idle" /\ nextId' = nextId
  <1>1. TypeOK
    BY Types
  <1>2. \A k \in Keys, u \in Workers : u # w /\ lock[k] = u => lock'[k] = u
    BY DEF Finish, Unlocked
  <1> QED BY <1>1, <1>2 DEF Finish, OthersKept, TypeOK

-----------------------------------------------------------------------------

LEMMA SafeReceive ==
    ASSUME SafeInv, NEW w \in Workers, NEW r \in Ingests \union Lookups,
           Receive(w, r)
    PROVE  SafeInv'
  <1>1. TypeInv /\ TypeOK
    BY Types DEF SafeInv
  <1>2. TypeInv'
    BY <1>1, TypeReceive
  <1>3. pc'[w] = r.kind /\ r.kind \in {"ingest", "get", "delete"}
    BY <1>1, IngestAssumption, RequestFields DEF Receive, TypeOK
  <1>4. WorkerInv(w)' /\ pc'[w] \notin Writing
    BY <1>3 DEF WorkerInv, Owner, Reading, DraftId, DraftWrites, EraseWrites, Writing
  <1>5. OthersKept(w) /\ UNCHANGED <<tables, nextId>>
    BY <1>1 DEF Receive, OthersKept, TypeOK
  <1> QED BY <1>2, <1>4, <1>5, LocalStep

LEMMA SafeRefuse ==
    ASSUME SafeInv, TypeInv', NEW w \in Workers,
           NEW code, NEW key, NEW note, NEW count, NEW skipped,
           Give(w, code, key, note, count, skipped)
    PROVE  SafeInv'
  <1>1. OthersKept(w) /\ pc'[w] = "idle" /\ UNCHANGED <<tables, nextId>>
    BY FinishKeepsOthers DEF Give
  <1> QED BY <1>1, IdleStep

LEMMA SafeHoldNote ==
    ASSUME SafeInv, TypeInv', NEW w \in Workers, NEW row,
           pc[w] \in {"ingest", "waiting"}, row # NoNote,
           notes[spot[w]] = row, lock[spot[w]] = Free,
           HoldNote(w, row)
    PROVE  SafeInv'
  <1> DEFINE k == spot[w]
             step == IF SkipKeyMatches(req[w], row) THEN "skip" ELSE "upsert"
  <1>1. TypeOK /\ k \in Keys
    BY Types DEF IngestSteps
  <1>2. /\ pc'[w] = step /\ req'[w] = req[w] /\ spot'[w] = k /\ seen'[w] = row
        /\ lock' = [lock EXCEPT ![k] = w] /\ lock'[k] = w
        /\ UNCHANGED <<tables, nextId>> /\ notes' = notes
    BY <1>1 DEF HoldNote, Goto, TypeOK, tables
  <1>3. OthersKept(w)
    <2>1. \A j \in Keys, u \in Workers : lock[j] = u => lock'[j] = u
      BY <1>1, <1>2, IngestAssumption DEF TypeOK
    <2> QED BY <1>1, <2>1 DEF OthersKept, HoldNote, Goto, TypeOK
  <1>4. WorkerInv(w)' /\ pc'[w] \notin Writing
    BY <1>1, <1>2
    DEF WorkerInv, Owner, Reading, DraftId, DraftWrites, EraseWrites, Writing,
        SkipKeyMatches
  <1> QED BY <1>2, <1>3, <1>4, LocalStep

LEMMA SafeMissNote ==
    ASSUME SafeInv, TypeInv', NEW w \in Workers, MissNote(w)
    PROVE  SafeInv'
  <1>1. TypeOK
    BY Types
  <1>2. /\ pc'[w] = "upsert" /\ seen'[w] = NoNote
        /\ UNCHANGED <<tables, nextId>>
    BY <1>1 DEF MissNote, Goto, TypeOK, tables
  <1>3. OthersKept(w)
    BY <1>1 DEF OthersKept, MissNote, Goto, TypeOK
  <1>4. WorkerInv(w)' /\ pc'[w] \notin Writing
    BY <1>1, <1>2
    DEF WorkerInv, Owner, Reading, DraftId, DraftWrites, EraseWrites, Writing
  <1> QED BY <1>2, <1>3, <1>4, LocalStep

LEMMA SafeLockNote ==
    ASSUME SafeInv, TypeInv', NEW w \in Workers, LockNote(w)
    PROVE  SafeInv'
  <1> DEFINE k == spot[w]
  <1>1. CASE notes[k] = NoNote /\ MissNote(w)
    BY <1>1, SafeMissNote
  <1>2. CASE notes[k] # NoNote /\ RowFree(k) /\ HoldNote(w, notes[k])
    BY <1>2, SafeHoldNote DEF LockNote, RowFree
  <1>3. CASE Goto(w, "waiting") /\ UNCHANGED <<nextId, lock, spot, embedded, tx>>
             /\ seen' = [seen EXCEPT ![w] = notes[k]]
    <2>1. TypeOK
      BY Types
    <2>2. pc'[w] = "waiting" /\ UNCHANGED <<tables, nextId>>
      BY <1>3, <2>1 DEF Goto, TypeOK, tables
    <2>3. OthersKept(w)
      BY <1>3, <2>1 DEF OthersKept, Goto, TypeOK
    <2>4. WorkerInv(w)' /\ pc'[w] \notin Writing
      BY <2>2
      DEF WorkerInv, Owner, Reading, DraftId, DraftWrites, EraseWrites, Writing
    <2> QED BY <2>2, <2>3, <2>4, LocalStep
  <1> QED BY <1>1, <1>2, <1>3 DEF LockNote

LEMMA SafeCommitSkip ==
    ASSUME SafeInv, TypeInv', NEW w \in Workers, CommitSkip(w)
    PROVE  SafeInv'
  <1>1. TypeOK
    BY Types
  <1>2. pc'[w] = "recount" /\ UNCHANGED <<tables, nextId>>
    BY <1>1 DEF CommitSkip, Goto, TypeOK, tables
  <1>3. OthersKept(w)
    BY <1>1 DEF OthersKept, CommitSkip, Goto, TypeOK, Unlocked
  <1>4. WorkerInv(w)' /\ pc'[w] \notin Writing
    BY <1>2
    DEF WorkerInv, Owner, Reading, DraftId, DraftWrites, EraseWrites, Writing
  <1> QED BY <1>2, <1>3, <1>4, LocalStep

LEMMA SafeEmbedBatch ==
    ASSUME SafeInv, TypeInv', NEW w \in Workers, EmbedBatch(w)
    PROVE  SafeInv'
  <1>1. TypeOK /\ WorkerInv(w)
    BY Types DEF SafeInv
  <1>2. /\ pc[w] = "embed" /\ pc'[w] \in {"embed", "replace"}
        /\ req'[w] = req[w] /\ spot' = spot /\ seen' = seen /\ tx' = tx
        /\ lock' = lock /\ notes' = notes /\ erased' = erased /\ nextId' = nextId
        /\ UNCHANGED <<tables, nextId>>
    BY <1>1 DEF EmbedBatch, Goto, TypeOK, tables
  <1>3. OthersKept(w)
    BY <1>1 DEF OthersKept, EmbedBatch, Goto, TypeOK
  <1>4. pc[w] \in Writing /\ pc'[w] \in Writing /\ pc'[w] # "skip"
        /\ pc'[w] # "commit" /\ pc'[w] # "erase"
    BY <1>2 DEF Writing
  <1>5. Owner(w)' /\ Reading(w)' /\ DraftWrites(w)' /\ EraseWrites(w)'
    BY <1>1, <1>2, <1>4
    DEF WorkerInv, Owner, Reading, DraftWrites, EraseWrites, SkipKeyMatches
  <1>6. DraftId(w)'
    BY <1>1, <1>2, <1>4 DEF WorkerInv, DraftId, Live
  <1> QED BY <1>2, <1>3, <1>4, <1>5, <1>6, LocalStep DEF WorkerInv

LEMMA SafeReplacePassages ==
    ASSUME SafeInv, TypeInv', NEW w \in Workers, ReplacePassages(w)
    PROVE  SafeInv'
  <1> DEFINE i == tx[w].row.id
             r == req[w]
  <1>1. TypeOK /\ WorkerInv(w)
    BY Types DEF SafeInv
  <1>2. /\ pc[w] = "replace" /\ pc'[w] = "commit"
        /\ req'[w] = r /\ spot' = spot /\ seen' = seen
        /\ lock' = lock /\ notes' = notes /\ passages' = passages
        /\ erased' = erased /\ nextId' = nextId
        /\ UNCHANGED <<tables, nextId>>
        /\ tx'[w] = [row |-> tx[w].row, del |-> PassagesUnder(r.client, i),
                     ins |-> PassagesOf(i, r.client, r.doc, r.version)]
    BY <1>1 DEF ReplacePassages, Goto, TypeOK, tables
  <1>3. OthersKept(w)
    BY <1>1 DEF OthersKept, ReplacePassages, Goto, TypeOK
  <1>4. pc[w] \in Writing /\ pc'[w] \in Writing
    BY <1>2 DEF Writing
  <1>5. PassagesUnder(r.client, i) = {p \in passages : p.note = i}
    <2>1. spot[w][1] = r.client
      BY <1>2, Types DEF IngestSteps
    <2> QED BY <1>1, <1>4, <2>1, OwnPassages DEF WorkerInv, DraftId
  <1>6. /\ tx'[w].row = tx[w].row
        /\ tx'[w].del = PassagesUnder(r.client, i)
        /\ tx'[w].ins = PassagesOf(i, r.client, r.doc, r.version)
    BY <1>2
  <1>7. Owner(w)' /\ Reading(w)' /\ EraseWrites(w)'
    BY <1>1, <1>2, <1>4
    DEF WorkerInv, Owner, Reading, EraseWrites, SkipKeyMatches
  <1>8. DraftId(w)'
    BY <1>1, <1>2, <1>4, <1>6 DEF WorkerInv, DraftId, Live
  <1>9. DraftWrites(w)'
    BY <1>2, <1>5, <1>6 DEF DraftWrites
  <1> QED BY <1>2, <1>3, <1>4, <1>6, <1>7, <1>8, <1>9, LocalStep DEF WorkerInv

LEMMA SafeEraseNote ==
    ASSUME SafeInv, TypeInv', NEW w \in Workers, NEW k \in Keys,
           Matches(k, req[w].client, req[w].id), lock[k] = Free,
           EraseNote(w, k)
    PROVE  SafeInv'
  <1> DEFINE i == req[w].id
  <1>1. TypeOK
    BY Types
  <1>2. /\ pc'[w] = "erase" /\ req'[w] = req[w] /\ spot'[w] = k
        /\ lock' = [lock EXCEPT ![k] = w] /\ lock'[k] = w
        /\ notes' = notes /\ passages' = passages
        /\ UNCHANGED <<tables, nextId>>
        /\ tx'[w].del = PassagesUnder(k[1], notes[k].id)
    BY <1>1 DEF EraseNote, Goto, TypeOK, tables
  <1>3. Live(k) /\ notes[k].id = i
    BY DEF Matches, Live
  <1>4. PassagesUnder(k[1], notes[k].id) = {p \in passages : p.note = i}
    BY <1>3, OwnPassages DEF SafeInv, IdsSane
  <1>5. OthersKept(w)
    <2>1. \A j \in Keys, u \in Workers : lock[j] = u => lock'[j] = u
      BY <1>1, <1>2, IngestAssumption DEF TypeOK
    <2> QED BY <1>1, <2>1 DEF OthersKept, EraseNote, Goto, TypeOK
  <1>6. pc'[w] \notin Writing \union {"skip", "upsert", "commit"}
    BY <1>2 DEF Writing
  <1>7. WorkerInv(w)'
    BY <1>2, <1>3, <1>4, <1>6
    DEF WorkerInv, Owner, Reading, DraftId, DraftWrites, EraseWrites, Live
  <1> QED BY <1>2, <1>5, <1>6, <1>7, LocalStep

-----------------------------------------------------------------------------
(* The three steps that draw an id or write a table. *)

LEMMA SafeUpsertNote ==
    ASSUME SafeInv, TypeInv', NEW w \in Workers, UpsertNote(w)
    PROVE  SafeInv'
  <1> DEFINE k == spot[w]
             r == req[w]
             i == IF notes[k] = NoNote THEN nextId ELSE notes[k].id
             row == [id |-> i, doc |-> r.doc, version |-> r.version,
                     status |-> r.status]
  <1>1. /\ TypeOK /\ k \in Keys /\ nextId \in Nat
        /\ \A u \in Workers : WorkerInv(u)
        /\ DraftsApart /\ IdsSane /\ NotesComplete /\ NoOrphans
    BY Types DEF UpsertNote, IngestSteps, SafeInv
  <1>2. /\ pc[w] = "upsert" /\ pc'[w] = "embed"
        /\ req'[w] = r /\ spot' = spot /\ seen' = seen
        /\ lock' = [lock EXCEPT ![k] = w] /\ lock'[k] = w
        /\ notes' = notes /\ passages' = passages /\ erased' = erased
        /\ nextId' = nextId + 1
    BY <1>1 DEF UpsertNote, Goto, TypeOK, tables
  <1>3. tx'[w].row = row /\ row.id = i
    BY <1>1 DEF UpsertNote, TypeOK, NewId
  <1>4. \A u \in Workers : u # w =>
           /\ pc'[u] = pc[u] /\ req'[u] = req[u] /\ tx'[u] = tx[u]
           /\ \A j \in Keys : lock[j] = u => lock'[j] = u /\ j # k
    BY <1>1, IngestAssumption DEF UpsertNote, Goto, TypeOK, KeyFree
  <1> HIDE DEF row
  <1>5. ASSUME NEW u \in Workers, u # w PROVE WorkerInv(u)'
    <2>1. /\ pc'[u] = pc[u] /\ req'[u] = req[u] /\ tx'[u] = tx[u]
          /\ \A j \in Keys : lock[j] = u => lock'[j] = u
          /\ WorkerInv(u)
      BY <1>1, <1>4, <1>5
    <2>2. pc[u] \in {"skip", "upsert", "erase"} \union Writing => spot[u] \in Keys
      BY Types DEF IngestSteps, Writing
    <2>3. Owner(u)' /\ Reading(u)'
      BY <1>2, <2>1, <2>2 DEF WorkerInv, Owner, Reading, SkipKeyMatches
    <2>4. pc[u] \in Writing => tx[u].row.id \in Nat
      BY Types
    <2>5. DraftId(u)' /\ DraftWrites(u)' /\ EraseWrites(u)'
      BY <1>1, <1>2, <2>1, <2>4
      DEF WorkerInv, DraftId, DraftWrites, EraseWrites, Live
    <2> QED BY <2>3, <2>5 DEF WorkerInv
  <1>6. i \in Nat /\ i < nextId + 1 /\ i \notin erased
    BY <1>1, Types DEF IdsSane, Live
  <1>7. \A j \in Keys : Live(j) /\ notes[j].id = i => j = k
    BY <1>1, Types DEF IdsSane, Live
  <1>8. WorkerInv(w)'
    <2>1. Owner(w)' /\ EraseWrites(w)' /\ DraftWrites(w)'
      BY <1>2 DEF Owner, EraseWrites, DraftWrites
    <2>2. Reading(w)'
      BY <1>1, <1>2 DEF WorkerInv, Reading, SkipKeyMatches
    <2>3. DraftId(w)'
      BY <1>2, <1>3, <1>6, <1>7 DEF DraftId, Live
    <2> QED BY <2>1, <2>2, <2>3 DEF WorkerInv
  <1>9. ASSUME NEW u \in Workers, u # w, pc[u] \in Writing
        PROVE  tx[u].row.id # i
    <2>1. DraftId(u) /\ Owner(u)
      BY <1>1 DEF WorkerInv
    <2>2. /\ spot[u] \in Keys /\ lock[spot[u]] = u /\ tx[u].row.id \in Nat
          /\ tx[u].row.id < nextId
      BY <1>9, <2>1, Types DEF DraftId, Owner, IngestSteps, Writing
    <2>3. spot[u] # k
      BY <1>4, <1>9, <2>2
    <2> QED BY <1>1, <1>9, <2>1, <2>2, <2>3 DEF DraftId, Live
  <1>10. DraftsApart'
    BY <1>1, <1>3, <1>4, <1>9 DEF DraftsApart
  <1>11. IdsSane'
    <2>1. \A j \in Keys : Live(j)' => Live(j) /\ notes[j].id \in Nat
      BY <1>2, Types DEF Live
    <2>2. erased \subseteq Nat
      BY <1>1, DataAssumption DEF TypeOK, Ids
    <2> QED BY <1>1, <1>2, <2>1, <2>2 DEF IdsSane, Live
  <1>12. NotesComplete' /\ NoOrphans'
    BY <1>1, <1>2 DEF NotesComplete, NoOrphans, Live
  <1> QED BY <1>5, <1>8, <1>10, <1>11, <1>12 DEF SafeInv

(* Two workers that own a note own different notes. *)
LEMMA OwnersApart ==
    ASSUME SafeInv, NEW w \in Workers, NEW u \in Workers, u # w,
           pc[w] \in {"skip", "erase"} \union Writing,
           \/ pc[u] \in {"skip", "erase"} \union Writing
           \/ pc[u] = "upsert" /\ seen[u] # NoNote
    PROVE  spot[u] # spot[w]
  BY DEF SafeInv, WorkerInv, Owner, Reading

LEMMA SafeCommitIngest ==
    ASSUME SafeInv, TypeInv', NEW w \in Workers, CommitIngest(w)
    PROVE  SafeInv'
  <1> DEFINE k == spot[w]
             row == tx[w].row
             i == row.id
             r == req[w]
  <1>1. /\ TypeOK /\ pc[w] = "commit" /\ k \in Keys /\ k[1] = r.client
        /\ row \in NoteRow /\ i \in Nat
        /\ row.doc = r.doc /\ row.version = r.version
        /\ \A u \in Workers : WorkerInv(u)
        /\ DraftsApart /\ IdsSane /\ NotesComplete /\ NoOrphans
    <2>1. pc[w] = "commit"
      BY DEF CommitIngest
    <2>2. ReqShape(w)
      BY DEF SafeInv, TypeInv
    <2> QED BY <2>1, <2>2, Types DEF SafeInv, ReqShape, Writing, IngestSteps
  <1>2. /\ notes' = [notes EXCEPT ![k] = row]
        /\ passages' = (passages \ tx[w].del) \union tx[w].ins
        /\ erased' = erased
        /\ OthersKept(w) /\ pc'[w] = "idle" /\ nextId' = nextId
    BY FinishKeepsOthers DEF CommitIngest
  <1>3. /\ tx[w].del = {p \in passages : p.note = i}
        /\ tx[w].ins = PassagesOf(i, r.client, r.doc, r.version)
        /\ i < nextId /\ i \notin erased
        /\ Live(k) => notes[k].id = i
        /\ \A j \in Keys : Live(j) /\ notes[j].id = i => j = k
    BY <1>1 DEF WorkerInv, DraftWrites, DraftId, Writing
  <1>4. /\ notes'[k] = row /\ row # NoNote
        /\ \A j \in Keys : j # k => notes'[j] = notes[j]
    BY <1>1, <1>2, DataAssumption DEF TypeOK
  <1>5. \A p \in tx[w].ins : p.note = i /\ p.client = r.client
    BY <1>3 DEF PassagesOf
  <1>6. /\ \A n : n # i => {p \in passages' : p.note = n} = {p \in passages : p.note = n}
        /\ {p \in passages' : p.note = i} = tx[w].ins
    BY <1>2, <1>3, <1>5
  <1>7. ASSUME NEW u \in Workers PROVE WorkerInv(u)'
    <2>1. CASE u = w
      BY <1>2, <2>1
      DEF WorkerInv, Owner, Reading, DraftId, DraftWrites, EraseWrites, Writing
    <2>2. CASE u # w
      <3>1. /\ pc'[u] = pc[u] /\ req'[u] = req[u] /\ spot'[u] = spot[u]
            /\ seen'[u] = seen[u] /\ tx'[u] = tx[u]
            /\ \A j \in Keys : lock[j] = u => lock'[j] = u
            /\ WorkerInv(u)
        BY <1>1, <1>2, <2>2 DEF OthersKept
      <3>2. pc[u] \in {"skip", "upsert", "erase"} \union Writing => spot[u] \in Keys
        BY Types DEF IngestSteps, Writing
      <3>3. (\/ pc[u] \in {"skip", "erase"} \union Writing
             \/ pc[u] = "upsert" /\ seen[u] # NoNote) => spot[u] # k
        BY <1>1, <2>2, OwnersApart DEF Writing
      <3>4. Owner(u)'
        BY <3>1, <3>2 DEF WorkerInv, Owner
      <3>5. Reading(u)'
        BY <1>4, <3>1, <3>2, <3>3 DEF WorkerInv, Reading, SkipKeyMatches
      <3>6. pc[u] \in Writing => tx[u].row.id # i
        BY <1>1, <2>2 DEF DraftsApart, Writing
      <3>7. DraftId(u)'
        BY <1>2, <1>4, <3>1, <3>2, <3>3, <3>6 DEF WorkerInv, DraftId, Live
      <3>8. DraftWrites(u)'
        BY <1>6, <3>1, <3>6 DEF WorkerInv, DraftWrites, Writing
      <3>9. EraseWrites(u)'
        <4> SUFFICES ASSUME pc[u] = "erase"
                     PROVE  /\ Live(spot[u])' /\ notes'[spot[u]].id = req[u].id
                            /\ tx[u].del = {p \in passages' : p.note = req[u].id}
          BY <3>1 DEF EraseWrites
        <4>1. /\ spot[u] # k /\ notes'[spot[u]] = notes[spot[u]]
              /\ Live(spot[u]) /\ notes[spot[u]].id = req[u].id
              /\ tx[u].del = {p \in passages : p.note = req[u].id}
          BY <1>4, <3>1, <3>2, <3>3 DEF WorkerInv, EraseWrites
        <4>2. req[u].id # i
          BY <1>3, <3>2, <4>1
        <4>3. {p \in passages' : p.note = req[u].id}
                = {p \in passages : p.note = req[u].id}
          BY <1>6, <4>2
        <4> QED BY <3>1, <4>1, <4>3 DEF Live
      <3> QED BY <3>4, <3>5, <3>7, <3>8, <3>9 DEF WorkerInv
    <2> QED BY <2>1, <2>2
  <1>8. DraftsApart'
    BY <1>1, <1>2 DEF DraftsApart, OthersKept, Writing
  <1>9. IdsSane'
    BY <1>1, <1>2, <1>3, <1>4 DEF IdsSane, Live
  <1>10. NotesComplete'
    <2> SUFFICES ASSUME NEW j \in Keys, Live(j)'
                 PROVE  {p \in passages' : p.note = notes'[j].id}
                          = PassagesOf(notes'[j].id, j[1], notes'[j].doc,
                                       notes'[j].version)
      BY DEF NotesComplete
    <2>1. CASE j = k
      BY <1>1, <1>3, <1>4, <1>6, <2>1
    <2>2. CASE j # k
      <3>1. Live(j) /\ notes'[j] = notes[j] /\ notes[j].id # i
        BY <1>3, <1>4, <2>2 DEF Live
      <3> QED BY <1>1, <1>6, <3>1 DEF NotesComplete
    <2> QED BY <2>1, <2>2
  <1>11. NoOrphans'
    <2> SUFFICES ASSUME NEW p \in passages'
                 PROVE  \E j \in Keys : /\ Live(j)'
                                        /\ notes'[j].id = p.note
                                        /\ j[1] = p.client
      BY DEF NoOrphans
    <2>1. CASE p \in tx[w].ins
      BY <1>1, <1>4, <1>5, <2>1 DEF Live
    <2>2. CASE p \notin tx[w].ins
      <3>1. p \in passages /\ p.note # i
        BY <1>2, <1>3, <2>2
      <3>2. PICK j \in Keys : Live(j) /\ notes[j].id = p.note /\ j[1] = p.client
        BY <1>1, <3>1 DEF NoOrphans
      <3>3. j # k
        BY <1>3, <3>1, <3>2
      <3> QED BY <1>4, <3>2, <3>3 DEF Live
    <2> QED BY <2>1, <2>2
  <1> QED BY <1>7, <1>8, <1>9, <1>10, <1>11 DEF SafeInv

LEMMA SafeCommitDelete ==
    ASSUME SafeInv, TypeInv', NEW w \in Workers, CommitDelete(w)
    PROVE  SafeInv'
  <1> DEFINE k == spot[w]
             i == req[w].id
  <1>1. /\ TypeOK /\ pc[w] = "erase" /\ k \in Keys
        /\ \A u \in Workers : WorkerInv(u)
        /\ DraftsApart /\ IdsSane /\ NotesComplete /\ NoOrphans
    BY Types DEF SafeInv, CommitDelete
  <1>2. /\ notes' = [notes EXCEPT ![k] = NoNote]
        /\ passages' = passages \ tx[w].del
        /\ erased' = erased \union {i}
        /\ OthersKept(w) /\ pc'[w] = "idle" /\ nextId' = nextId
    BY FinishKeepsOthers DEF CommitDelete
  <1>3. /\ Live(k) /\ notes[k].id = i
        /\ tx[w].del = {p \in passages : p.note = i}
        /\ \A j \in Keys : Live(j) /\ notes[j].id = i => j = k
        /\ i < nextId
    BY <1>1 DEF WorkerInv, EraseWrites, IdsSane
  <1>4. /\ notes'[k] = NoNote
        /\ \A j \in Keys : j # k => notes'[j] = notes[j]
    BY <1>1, <1>2 DEF TypeOK
  <1>5. \A n : n # i => {p \in passages' : p.note = n} = {p \in passages : p.note = n}
    BY <1>2, <1>3
  <1>6. ASSUME NEW u \in Workers PROVE WorkerInv(u)'
    <2>1. CASE u = w
      BY <1>2, <2>1
      DEF WorkerInv, Owner, Reading, DraftId, DraftWrites, EraseWrites, Writing
    <2>2. CASE u # w
      <3>1. /\ pc'[u] = pc[u] /\ req'[u] = req[u] /\ spot'[u] = spot[u]
            /\ seen'[u] = seen[u] /\ tx'[u] = tx[u]
            /\ \A j \in Keys : lock[j] = u => lock'[j] = u
            /\ WorkerInv(u)
        BY <1>1, <1>2, <2>2 DEF OthersKept
      <3>2. pc[u] \in {"skip", "upsert", "erase"} \union Writing => spot[u] \in Keys
        BY Types DEF IngestSteps, Writing
      <3>3. (\/ pc[u] \in {"skip", "erase"} \union Writing
             \/ pc[u] = "upsert" /\ seen[u] # NoNote) => spot[u] # k
        BY <1>1, <2>2, OwnersApart
      <3>4. Owner(u)'
        BY <3>1, <3>2 DEF WorkerInv, Owner
      <3>5. Reading(u)'
        BY <1>4, <3>1, <3>2, <3>3 DEF WorkerInv, Reading, SkipKeyMatches
      <3>6. pc[u] \in Writing => tx[u].row.id # i
        BY <1>1, <1>3, <3>1, <3>3 DEF WorkerInv, DraftId
      <3>7. DraftId(u)'
        BY <1>2, <1>4, <3>1, <3>2, <3>3, <3>6 DEF WorkerInv, DraftId, Live
      <3>8. DraftWrites(u)'
        BY <1>5, <3>1, <3>6 DEF WorkerInv, DraftWrites, Writing
      <3>9. EraseWrites(u)'
        BY <1>3, <1>4, <1>5, <3>1, <3>2, <3>3 DEF WorkerInv, EraseWrites, Live
      <3> QED BY <3>4, <3>5, <3>7, <3>8, <3>9 DEF WorkerInv
    <2> QED BY <2>1, <2>2
  <1>7. DraftsApart'
    BY <1>1, <1>2 DEF DraftsApart, OthersKept, Writing
  <1>8. IdsSane'
    BY <1>1, <1>2, <1>3, <1>4 DEF IdsSane, Live
  <1>9. NotesComplete'
    <2> SUFFICES ASSUME NEW j \in Keys, Live(j)'
                 PROVE  {p \in passages' : p.note = notes'[j].id}
                          = PassagesOf(notes'[j].id, j[1], notes'[j].doc,
                                       notes'[j].version)
      BY DEF NotesComplete
    <2>1. j # k /\ Live(j) /\ notes'[j] = notes[j] /\ notes[j].id # i
      BY <1>3, <1>4 DEF Live
    <2> QED BY <1>1, <1>5, <2>1 DEF NotesComplete
  <1>10. NoOrphans'
    <2> SUFFICES ASSUME NEW p \in passages'
                 PROVE  \E j \in Keys : /\ Live(j)'
                                        /\ notes'[j].id = p.note
                                        /\ j[1] = p.client
      BY DEF NoOrphans
    <2>1. p \in passages /\ p.note # i
      BY <1>2, <1>3
    <2>2. PICK j \in Keys : Live(j) /\ notes[j].id = p.note /\ j[1] = p.client
      BY <1>1, <2>1 DEF NoOrphans
    <2> QED BY <1>3, <1>4, <2>1, <2>2 DEF Live
  <1> QED BY <1>6, <1>7, <1>8, <1>9, <1>10 DEF SafeInv

-----------------------------------------------------------------------------

LEMMA SafeProceed ==
    ASSUME SafeInv, TypeInv', NEW w \in Workers, Proceed(w)
    PROVE  SafeInv'
  <1>1. CASE RejectInvalid(w)
    BY <1>1, SafeRefuse DEF RejectInvalid, Refuse
  <1>2. CASE LockNote(w)
    BY <1>2, SafeLockNote
  <1>3. CASE LockNoteAfterWait(w)
    BY <1>3, SafeMissNote, SafeHoldNote DEF LockNoteAfterWait, RowFree
  <1>4. CASE CommitSkip(w)
    BY <1>4, SafeCommitSkip
  <1>5. CASE CountForSkip(w)
    BY <1>5, SafeRefuse DEF CountForSkip
  <1>6. CASE UpsertNote(w)
    BY <1>6, SafeUpsertNote
  <1>7. CASE SequenceExhausted(w)
    BY <1>7, SafeRefuse DEF SequenceExhausted, Refuse
  <1>8. CASE EmbedBatch(w)
    BY <1>8, SafeEmbedBatch
  <1>9. CASE EmbedFails(w)
    BY <1>9, SafeRefuse DEF EmbedFails, Refuse
  <1>10. CASE ReplacePassages(w)
    BY <1>10, SafeReplacePassages
  <1>11. CASE CommitIngest(w)
    BY <1>11, SafeCommitIngest
  <1>12. CASE GetNote(w) \/ (DeleteNote(w) /\ pc'[w] = "blocked")
    <2>1. TypeOK
      BY Types
    <2>2. CASE pc'[w] \in {"count", "blocked"} /\ \E step \in {"count", "blocked"} : Goto(w, step)
      <3>1. UNCHANGED <<tables, nextId>> /\ OthersKept(w)
        BY <1>12, <2>1, <2>2
        DEF GetNote, DeleteNote, Goto, Refuse, Give, Finish, EraseNote, OthersKept,
            TypeOK
      <3>2. WorkerInv(w)' /\ pc'[w] \notin Writing
        BY <2>2
        DEF WorkerInv, Owner, Reading, DraftId, DraftWrites, EraseWrites, Writing
      <3> QED BY <3>1, <3>2, LocalStep
    <2>3. CASE Refuse(w, "404")
      BY <2>3, SafeRefuse DEF Refuse
    <2> QED BY <1>12, <2>1, <2>2, <2>3 DEF GetNote, DeleteNote, Goto, EraseNote, TypeOK
  <1>13. CASE CountForGet(w)
    BY <1>13, SafeRefuse DEF CountForGet
  <1>14. CASE DeleteNote(w) /\ pc'[w] # "blocked"
    <2>1. TypeOK
      BY Types
    <2>2. CASE Refuse(w, "404")
      BY <2>2, SafeRefuse DEF Refuse
    <2>3. ASSUME NEW k \in Keys, Matches(k, req[w].client, req[w].id),
                 RowFree(k), EraseNote(w, k)
          PROVE  SafeInv'
      BY <2>3, SafeEraseNote DEF RowFree
    <2> QED BY <1>14, <2>1, <2>2, <2>3 DEF DeleteNote, Goto, TypeOK
  <1>15. CASE DeleteNoteAfterWait(w)
    <2>1. spot[w] \in Keys
      BY <1>15, Types DEF DeleteNoteAfterWait
    <2> QED BY <1>15, <2>1, SafeRefuse, SafeEraseNote
            DEF DeleteNoteAfterWait, RowFree, Refuse
  <1>16. CASE CommitDelete(w)
    BY <1>16, SafeCommitDelete
  <1> QED
    BY <1>1, <1>2, <1>3, <1>4, <1>5, <1>6, <1>7, <1>8, <1>9, <1>10, <1>11,
       <1>12, <1>13, <1>14, <1>15, <1>16 DEF Proceed

LEMMA SafeNext == SafeInv /\ [Next]_vars => SafeInv'
  <1> SUFFICES ASSUME SafeInv, [Next]_vars PROVE SafeInv'
    OBVIOUS
  <1>1. TypeInv'
    BY TypeNext DEF SafeInv
  <1>2. ASSUME NEW w \in Workers, NEW r \in Ingests \union Lookups, Receive(w, r)
        PROVE  SafeInv'
    BY <1>2, SafeReceive
  <1>3. ASSUME NEW w \in Workers, Proceed(w) PROVE SafeInv'
    BY <1>1, <1>3, SafeProceed
  <1>4. ASSUME NEW w \in Workers, Abort(w) PROVE SafeInv'
    BY <1>1, <1>4, SafeRefuse DEF Abort, Refuse
  <1>5. CASE UNCHANGED vars
    BY <1>5 DEF vars, local, tables, SafeInv, TypeInv, TypeOK, ReqShape,
       FiniteTables, WorkerInv, Owner, Reading, DraftId, DraftWrites, EraseWrites,
       DraftsApart, IdsSane, NotesComplete, NoOrphans, Live
  <1> QED BY <1>2, <1>3, <1>4, <1>5 DEF Next, Quiet

LEMMA SafeAlways == Spec => []SafeInv
  BY SafeInit, SafeNext, PTL DEF Spec

-----------------------------------------------------------------------------
(* The theorems. *)

(* Whatever fails, crashes or races, a committed note has exactly the      *)
(* passages its stored content splits into under its stored version.       *)
THEOREM NotesAreComplete == Spec => []NotesComplete
  <1>1. SafeInv => NotesComplete
    BY DEF SafeInv
  <1> QED BY <1>1, SafeAlways, PTL

(* No passage is ever left without its note or filed under another client. *)
THEOREM PassagesHaveNotes == Spec => []NoOrphans
  <1>1. SafeInv => NoOrphans
    BY DEF SafeInv
  <1> QED BY <1>1, SafeAlways, PTL

(* Two requests are never both between lock and commit on one note.        *)
THEOREM WritersExclude == Spec => []WritersSerialised
  <1>1. SafeInv => WritersSerialised
    BY DEF SafeInv, WorkerInv, Owner, WritersSerialised
  <1> QED BY <1>1, SafeAlways, PTL

(* A skip is decided on the row as it is until the commit that releases it,*)
(* and that row is complete.                                               *)
THEOREM SkipIsSound == Spec => []SkipDecisionHolds
  <1>1. SafeInv => SkipDecisionHolds
    <2> SUFFICES ASSUME SafeInv, NEW w \in Workers, pc[w] = "skip"
                 PROVE  /\ ~req[w].force
                        /\ notes[spot[w]] = seen[w]
                        /\ seen[w].doc = req[w].doc
                        /\ seen[w].version = req[w].version
                        /\ PassagesUnder(req[w].client, seen[w].id)
                             = PassagesOf(seen[w].id, req[w].client,
                                          req[w].doc, req[w].version)
      BY DEF SkipDecisionHolds
    <2>1. /\ notes[spot[w]] = seen[w] /\ SkipKeyMatches(req[w], seen[w])
          /\ Live(spot[w])
      BY DEF SafeInv, WorkerInv, Reading, Live
    <2>2. spot[w] \in Keys /\ spot[w][1] = req[w].client
      BY Types DEF IngestSteps
    <2>3. PassagesUnder(req[w].client, seen[w].id)
            = {p \in passages : p.note = seen[w].id}
      BY <2>1, <2>2, OwnPassages DEF SafeInv, IdsSane
    <2> QED BY <2>1, <2>2, <2>3 DEF SafeInv, NotesComplete, SkipKeyMatches
  <1> QED BY <1>1, SafeAlways, PTL

(* Only the documented race between lock_note and upsert_note makes an     *)
(* unforced ingest embed what is already stored.                           *)
THEOREM RedundancyIsRare == Spec => []RedundantOnlyAfterRace
  <1>1. SafeInv => RedundantOnlyAfterRace
    BY DEF SafeInv, WorkerInv, Reading, RedundantOnlyAfterRace
  <1> QED BY <1>1, SafeAlways, PTL

(* The id of an erased note is never live again and has no passages.       *)
THEOREM ErasedForGood == Spec => []NoResurrection
  <1>1. SafeInv => NoResurrection
    BY DEF SafeInv, IdsSane, NoOrphans, NoResurrection
  <1> QED BY <1>1, SafeAlways, PTL

(* No answer describes another client's note.                              *)
LEMMA GiveKeepsTenant ==
    ASSUME SafeInv, NEW w \in Workers, NEW code, NEW note, NEW count,
           NEW skipped, NEW key \in Keys, key[1] = req[w].client,
           Finish(w, Reply(w, code, key, note, count, skipped))
    PROVE  AnswersStayInTenant'
  BY IngestAssumption DEF Finish, Reply, AnswersStayInTenant

LEMMA RefuseKeepsTenant ==
    ASSUME NEW w \in Workers, NEW code, Refuse(w, code)
    PROVE  AnswersStayInTenant'
  <1>1. answer'.key = NoKey /\ answer'.count = 0 /\ answer'.note = NoNote
    BY DEF Refuse, Give, Finish, Reply
  <1> QED BY <1>1 DEF AnswersStayInTenant

THEOREM AnswersKeepTenants == Spec => []AnswersStayInTenant
  <1>1. Init => AnswersStayInTenant
    BY DEF Init, AnswersStayInTenant
  <1>2. SafeInv /\ AnswersStayInTenant /\ [Next]_vars => AnswersStayInTenant'
    <2> SUFFICES ASSUME SafeInv, AnswersStayInTenant, [Next]_vars
                 PROVE  AnswersStayInTenant'
      OBVIOUS
    <2>1. \A w \in Workers : \A step : Goto(w, step) => AnswersStayInTenant'
      BY DEF Goto, AnswersStayInTenant
    <2>2. \A w \in Workers : \A code : Refuse(w, code) => AnswersStayInTenant'
      BY RefuseKeepsTenant
    <2>3. ASSUME NEW w \in Workers, Proceed(w) PROVE AnswersStayInTenant'
      <3>1. pc[w] \in IngestSteps \union {"count", "blocked", "erase"} =>
               spot[w] \in Keys /\ spot[w][1] = req[w].client
        BY Types
      <3>2. CASE CountForSkip(w) \/ CountForGet(w)
        BY <3>1, <3>2, GiveKeepsTenant
        DEF CountForSkip, CountForGet, Give, IngestSteps
      <3>3. CASE CommitIngest(w) \/ CommitDelete(w)
        BY <3>1, <3>3, GiveKeepsTenant DEF CommitIngest, CommitDelete, IngestSteps
      <3>4. CASE \/ RejectInvalid(w) \/ SequenceExhausted(w) \/ EmbedFails(w)
        BY <2>2, <3>4 DEF RejectInvalid, SequenceExhausted, EmbedFails
      <3>5. CASE \/ LockNote(w) \/ LockNoteAfterWait(w) \/ CommitSkip(w)
                 \/ UpsertNote(w) \/ EmbedBatch(w) \/ ReplacePassages(w)
        BY <2>1, <3>5 DEF LockNote, LockNoteAfterWait, CommitSkip, UpsertNote,
           EmbedBatch, ReplacePassages, MissNote, HoldNote
      <3>6. CASE GetNote(w) \/ DeleteNote(w) \/ DeleteNoteAfterWait(w)
        BY <2>1, <2>2, <3>6 DEF GetNote, DeleteNote, DeleteNoteAfterWait, EraseNote
      <3> QED BY <2>3, <3>2, <3>3, <3>4, <3>5, <3>6 DEF Proceed
    <2>4. ASSUME NEW w \in Workers, NEW r \in Ingests \union Lookups, Receive(w, r)
          PROVE  AnswersStayInTenant'
      BY <2>4 DEF Receive, AnswersStayInTenant
    <2>5. ASSUME NEW w \in Workers, Abort(w) PROVE AnswersStayInTenant'
      BY <2>2, <2>5 DEF Abort
    <2>6. CASE UNCHANGED vars
      BY <2>6 DEF vars, AnswersStayInTenant
    <2> QED BY <2>3, <2>4, <2>5, <2>6 DEF Next, Quiet
  <1> QED BY <1>1, <1>2, SafeAlways, PTL DEF Spec
-----------------------------------------------------------------------------
(***************************************************************************)
(* NoteIngest implements NoteStore, and its writes stay within a tenant.   *)
(* Only the two COMMITs change the tables (OnlyCommitsWrite); what each of *)
(* them does to one whole note follows from SafeInv.                       *)
(***************************************************************************)

LEMMA OnlyCommitsWrite ==
    ASSUME SafeInv, [Next]_vars
    PROVE  \/ UNCHANGED tables
           \/ \E w \in Workers : CommitIngest(w) \/ CommitDelete(w)
  <1>1. ASSUME NEW w \in Workers, Proceed(w)
        PROVE  UNCHANGED tables \/ CommitIngest(w) \/ CommitDelete(w)
    <2>1. CASE \/ RejectInvalid(w) \/ SequenceExhausted(w) \/ EmbedFails(w)
               \/ CountForSkip(w) \/ CountForGet(w)
      BY <2>1 DEF RejectInvalid, SequenceExhausted, EmbedFails, CountForSkip,
         CountForGet, Refuse, Give
    <2>2. CASE \/ LockNote(w) \/ LockNoteAfterWait(w) \/ CommitSkip(w)
               \/ UpsertNote(w) \/ EmbedBatch(w) \/ ReplacePassages(w)
      BY <2>2 DEF LockNote, LockNoteAfterWait, CommitSkip, UpsertNote, EmbedBatch,
         ReplacePassages, HoldNote, MissNote, Goto
    <2>3. CASE GetNote(w) \/ DeleteNote(w) \/ DeleteNoteAfterWait(w)
      BY <2>3 DEF GetNote, DeleteNote, DeleteNoteAfterWait, EraseNote, Goto, Refuse,
         Give
    <2> QED BY <1>1, <2>1, <2>2, <2>3 DEF Proceed
  <1>2. ASSUME NEW w \in Workers, NEW r \in Ingests \union Lookups, Receive(w, r)
        PROVE  UNCHANGED tables
    BY <1>2 DEF Receive
  <1>3. ASSUME NEW w \in Workers, Abort(w) PROVE UNCHANGED tables
    BY <1>3 DEF Abort, Refuse, Give
  <1>4. CASE UNCHANGED vars
    BY <1>4 DEF vars
  <1> QED BY <1>1, <1>2, <1>3, <1>4 DEF Next, Quiet

(* What the COMMIT of an ingest does to the tables. *)
LEMMA IngestCommit ==
    ASSUME SafeInv, NEW w \in Workers, CommitIngest(w)
    PROVE  LET k == spot[w]
               row == tx[w].row IN
           /\ pc[w] = "commit" /\ pc'[w] = "idle"
           /\ k \in Keys /\ k[1] = req[w].client
           /\ row # NoNote /\ row \in NoteRow
           /\ notes' = [notes EXCEPT ![k] = row]
           /\ passages' = {p \in passages : p.note # row.id}
                          \union PassagesOf(row.id, k[1], row.doc, row.version)
           /\ erased' = erased
           /\ row.id \in Ids \ erased
           /\ Live(k) => notes[k].id = row.id
           /\ \A j \in Keys : Live(j) /\ notes[j].id = row.id => j = k
  <1> DEFINE k == spot[w]
             row == tx[w].row
             i == row.id
             r == req[w]
  <1>1. pc[w] = "commit" /\ TypeOK /\ ReqShape(w) /\ WorkerInv(w)
    BY Types DEF CommitIngest, SafeInv, TypeInv
  <1>2. pc[w] \in Writing /\ pc[w] \in IngestSteps
    BY <1>1 DEF Writing, IngestSteps
  <1>3. pc'[w] = "idle"
    BY <1>1, FinishKeepsOthers DEF CommitIngest
  <1>4. /\ k \in Keys /\ k[1] = r.client
        /\ tx[w].row \in NoteRow
    BY <1>2, Types
  <1>5. row.doc = r.doc /\ row.version = r.version
    BY <1>1, <1>2 DEF ReqShape
  <1>6. tx[w].row # NoNote /\ i \in Ids
    BY <1>4, DataAssumption DEF NoteRow
  <1>7. /\ i \notin erased
        /\ Live(k) => notes[k].id = i
        /\ \A j \in Keys : Live(j) /\ notes[j].id = i => j = k
    BY <1>1, <1>2 DEF WorkerInv, DraftId
  <1>8. /\ tx[w].del = {p \in passages : p.note = i}
        /\ tx[w].ins = PassagesOf(i, k[1], row.doc, row.version)
    BY <1>1, <1>4, <1>5 DEF WorkerInv, DraftWrites
  <1>9. /\ notes' = [notes EXCEPT ![k] = tx[w].row]
        /\ passages' = {p \in passages : p.note # i}
                          \union PassagesOf(i, k[1], row.doc, row.version)
        /\ erased' = erased
    BY <1>8 DEF CommitIngest
  <1> QED BY <1>1, <1>3, <1>4, <1>5, <1>6, <1>7, <1>9

(* What the COMMIT of a DELETE does to the tables. *)
LEMMA DeleteCommit ==
    ASSUME SafeInv, NEW w \in Workers, CommitDelete(w)
    PROVE  LET k == spot[w]
               i == req[w].id IN
           /\ pc[w] = "erase" /\ pc'[w] = "idle"
           /\ k \in Keys /\ k[1] = req[w].client
           /\ Live(k) /\ notes[k].id = i
           /\ notes' = [notes EXCEPT ![k] = NoNote]
           /\ passages' = {p \in passages : p.note # i}
           /\ erased' = erased \union {i}
           /\ \A j \in Keys : Live(j) /\ notes[j].id = i => j = k
  <1>1. pc[w] = "erase" /\ WorkerInv(w)
    BY DEF CommitDelete, SafeInv
  <1>2. pc'[w] = "idle"
    BY FinishKeepsOthers DEF CommitDelete
  <1>3. spot[w] \in Keys /\ spot[w][1] = req[w].client
    BY <1>1, Types
  <1>4. /\ Live(spot[w]) /\ notes[spot[w]].id = req[w].id
        /\ tx[w].del = {p \in passages : p.note = req[w].id}
    BY <1>1 DEF WorkerInv, EraseWrites
  <1>5. \A j \in Keys : Live(j) /\ notes[j].id = req[w].id => j = spot[w]
    BY <1>3, <1>4 DEF SafeInv, IdsSane
  <1>6. /\ notes' = [notes EXCEPT ![spot[w]] = NoNote]
        /\ passages' = {p \in passages : p.note # req[w].id}
        /\ erased' = erased \union {req[w].id}
    BY <1>4 DEF CommitDelete
  <1> QED BY <1>1, <1>2, <1>3, <1>4, <1>5, <1>6

-----------------------------------------------------------------------------
(* A transaction never writes another client's notes or passages.          *)
THEOREM WritesKeepTenants == Spec => WritesStayInTenant
  <1>1. SafeInv /\ [Next]_vars => [TenantStep]_vars
    <2> SUFFICES ASSUME SafeInv, [Next]_vars,
                        NEW c \in Clients,
                        \A w \in Workers :
                           pc[w] \in {"commit", "erase"} /\ pc'[w] = "idle"
                              => req[w].client # c
                 PROVE  /\ \A k \in Keys : k[1] = c => notes'[k] = notes[k]
                        /\ {p \in passages' : p.client = c}
                             = {p \in passages : p.client = c}
      BY DEF TenantStep
    <2>1. CASE UNCHANGED tables
      BY <2>1 DEF tables
    <2>2. ASSUME NEW w \in Workers, CommitIngest(w)
          PROVE  /\ \A k \in Keys : k[1] = c => notes'[k] = notes[k]
                 /\ {p \in passages' : p.client = c}
                      = {p \in passages : p.client = c}
      <3> DEFINE k == spot[w]
                 row == tx[w].row
      <3>1. /\ k \in Keys /\ k[1] # c
            /\ row \in NoteRow
            /\ notes' = [notes EXCEPT ![k] = row]
            /\ passages' = {p \in passages : p.note # row.id}
                           \union PassagesOf(row.id, k[1], row.doc, row.version)
        BY <2>2, IngestCommit
      <3>2. \A p \in passages : p.note = row.id => p.client # c
        BY <2>2, <3>1, IngestCommit DEF SafeInv, NoOrphans
      <3>3. \A p \in PassagesOf(row.id, k[1], row.doc, row.version) : p.client # c
        BY <3>1 DEF PassagesOf
      <3>4. \A j \in Keys : j[1] = c => notes'[j] = notes[j]
        BY <3>1, Types DEF TypeOK
      <3> QED BY <3>1, <3>2, <3>3, <3>4
    <2>3. ASSUME NEW w \in Workers, CommitDelete(w)
          PROVE  /\ \A k \in Keys : k[1] = c => notes'[k] = notes[k]
                 /\ {p \in passages' : p.client = c}
                      = {p \in passages : p.client = c}
      <3> DEFINE k == spot[w]
                 i == req[w].id
      <3>1. /\ k \in Keys /\ k[1] # c
            /\ notes' = [notes EXCEPT ![k] = NoNote]
            /\ passages' = {p \in passages : p.note # i}
        BY <2>3, DeleteCommit
      <3>2. \A p \in passages : p.note = i => p.client # c
        BY <2>3, <3>1, DeleteCommit DEF SafeInv, NoOrphans
      <3>3. \A j \in Keys : j[1] = c => notes'[j] = notes[j]
        BY <3>1, Types DEF TypeOK
      <3> QED BY <3>1, <3>2, <3>3
    <2> QED BY <2>1, <2>2, <2>3, OnlyCommitsWrite
  <1> QED BY <1>1, SafeAlways, PTL DEF Spec, WritesStayInTenant

-----------------------------------------------------------------------------
(* The refinement: what each COMMIT is to the abstract store.              *)

LEMMA StoredNoteExists ==
    ASSUME SafeInv, NEW k \in Keys
    PROVE  /\ StoredNote(k) = NoNote <=> ~Live(k)
           /\ Live(k) => StoredNote(k).id = notes[k].id
  <1>1. CASE Live(k)
    <2>1. StoredNote(k) =
             [id |-> notes[k].id, doc |-> notes[k].doc,
              version |-> notes[k].version, status |-> notes[k].status,
              passages |-> {p \in passages : p.note = notes[k].id}]
      BY <1>1 DEF StoredNote, Live
    <2>2. notes[k] \in NoteRow /\ passages \subseteq PassageRow
      BY <1>1, Types DEF TypeOK
    <2>3. StoredNote(k) \in WholeNote
      BY <2>1, <2>2 DEF WholeNote, NoteRow
    <2>4. StoredNote(k) # NoNote
      BY <2>3, DataAssumption
    <2>5. StoredNote(k).id = notes[k].id
      BY <2>1
    <2> QED BY <1>1, <2>4, <2>5
  <1>2. CASE ~Live(k)
    BY <1>2 DEF StoredNote, Live
  <1> QED BY <1>1, <1>2

LEMMA StoreData ==
    /\ Store!Keys = Keys /\ Store!Ids = Ids
    /\ \A i, k, d, v, s :
          Store!Whole(i, k, d, v, s) =
             [id |-> i, doc |-> d, version |-> v, status |-> s,
              passages |-> PassagesOf(i, k[1], d, v)]
  BY DEF Store!Keys, Keys, Store!Ids, Ids, Store!Whole, Store!PassagesOf, PassagesOf

(* Replacing one note's view, the others' unchanged. *)
LEMMA OneStored ==
    ASSUME NEW k \in Keys,
           \A j \in Keys : j # k => StoredNote(j)' = StoredNote(j)
    PROVE  StoredNotes' = [StoredNotes EXCEPT ![k] = StoredNote(k)']
  BY DEF StoredNotes

(* A committed ingest writes one whole note and leaves the others. *)
LEMMA IngestStores ==
    ASSUME SafeInv, NEW w \in Workers, CommitIngest(w),
           NEW k \in Keys, k = spot[w]
    PROVE  LET row == tx[w].row IN
           StoredNotes' =
              [StoredNotes EXCEPT ![k] =
                 Store!Whole(row.id, k, row.doc, row.version, row.status)]
  <1> DEFINE row == tx[w].row
             new == PassagesOf(row.id, k[1], row.doc, row.version)
  <1>1. /\ k \in Keys /\ row \in NoteRow /\ row # NoNote
        /\ row.id \in Ids
        /\ notes' = [notes EXCEPT ![k] = row]
        /\ passages' = {p \in passages : p.note # row.id} \union new
        /\ \A j \in Keys : Live(j) /\ notes[j].id = row.id => j = k
    BY IngestCommit
  <1>2. notes'[k] = row /\ \A j \in Keys : j # k => notes'[j] = notes[j]
    BY <1>1, Types DEF TypeOK
  <1>3. StoredNote(k)' = Store!Whole(row.id, k, row.doc, row.version, row.status)
    <2>1. {p \in passages' : p.note = row.id} = new
      BY <1>1 DEF PassagesOf
    <2> QED BY <1>1, <1>2, <2>1, StoreData DEF StoredNote
  <1>4. ASSUME NEW j \in Keys, j # k PROVE StoredNote(j)' = StoredNote(j)
    <2>1. notes'[j] = notes[j]
      BY <1>2, <1>4
    <2>2. notes[j] # NoNote =>
             {p \in passages' : p.note = notes[j].id}
                = {p \in passages : p.note = notes[j].id}
      BY <1>1, <1>4 DEF PassagesOf, Live
    <2> QED BY <2>1, <2>2 DEF StoredNote
  <1> QED BY <1>1, <1>3, <1>4, OneStored

(* A committed DELETE removes one whole note and leaves the others. *)
LEMMA DeleteStores ==
    ASSUME SafeInv, NEW w \in Workers, CommitDelete(w),
           NEW k \in Keys, k = spot[w]
    PROVE  StoredNotes' = [StoredNotes EXCEPT ![k] = NoNote]
  <1> DEFINE i == req[w].id
  <1>1. /\ k \in Keys
        /\ notes' = [notes EXCEPT ![k] = NoNote]
        /\ passages' = {p \in passages : p.note # i}
        /\ \A j \in Keys : Live(j) /\ notes[j].id = i => j = k
    BY DeleteCommit
  <1>2. notes'[k] = NoNote /\ \A j \in Keys : j # k => notes'[j] = notes[j]
    BY <1>1, Types DEF TypeOK
  <1>3. StoredNote(k)' = NoNote
    BY <1>2 DEF StoredNote
  <1>4. ASSUME NEW j \in Keys, j # k PROVE StoredNote(j)' = StoredNote(j)
    <2>1. notes'[j] = notes[j]
      BY <1>2, <1>4
    <2>2. notes[j] # NoNote =>
             {p \in passages' : p.note = notes[j].id}
                = {p \in passages : p.note = notes[j].id}
      BY <1>1, <1>4 DEF Live
    <2> QED BY <2>1, <2>2 DEF StoredNote
  <1> QED BY <1>1, <1>3, <1>4, OneStored

(* The ids the abstract store sees live are the ids of the rows. *)
LEMMA LiveIdsAreRows ==
    ASSUME SafeInv
    PROVE  Store!LiveIds = {notes[k].id : k \in {j \in Keys : Live(j)}}
  <1>1. Store!LiveIds =
           {StoredNote(k).id : k \in {j \in Keys : StoredNote(j) # NoNote}}
    BY StoreData DEF Store!LiveIds, StoredNotes
  <1> QED BY <1>1, StoredNoteExists

LEMMA IngestCreatesOrRewrites ==
    ASSUME SafeInv, NEW w \in Workers, CommitIngest(w)
    PROVE  Store!StoreNext
  <1> DEFINE k == spot[w]
             row == tx[w].row
  <1>1. /\ k \in Keys /\ row \in NoteRow
        /\ row.id \in Ids \ erased
        /\ erased' = erased
        /\ Live(k) => notes[k].id = row.id
        /\ \A j \in Keys : Live(j) /\ notes[j].id = row.id => j = k
    BY IngestCommit
  <1>2. /\ row.doc \in Docs /\ row.version \in Versions
        /\ row.status \in Statuses
    BY <1>1 DEF NoteRow
  <1>3. StoredNotes' =
           [StoredNotes EXCEPT ![k] =
              Store!Whole(row.id, k, row.doc, row.version, row.status)]
    BY <1>1, IngestStores
  <1>4. CASE Live(k)
    <2>1. StoredNote(k) # NoNote /\ StoredNote(k).id = row.id
      BY <1>1, <1>4, StoredNoteExists
    <2>2. Store!Rewrite(k, row.doc, row.version, row.status)
      BY <1>1, <1>3, <2>1 DEF Store!Rewrite, StoredNotes
    <2> QED BY <1>1, <1>2, <2>2, StoreData DEF Store!StoreNext
  <1>5. CASE ~Live(k)
    <2>1. StoredNote(k) = NoNote
      BY <1>1, <1>5, StoredNoteExists
    <2>2. row.id \notin Store!LiveIds
      BY <1>1, <1>5, LiveIdsAreRows
    <2>3. Store!Create(k, row.doc, row.version, row.status)
      BY <1>1, <1>3, <2>1, <2>2, StoreData DEF Store!Create, StoredNotes
    <2> QED BY <1>1, <1>2, <2>3, StoreData DEF Store!StoreNext
  <1> QED BY <1>4, <1>5

LEMMA DeleteRemoves ==
    ASSUME SafeInv, NEW w \in Workers, CommitDelete(w)
    PROVE  Store!StoreNext
  <1> DEFINE k == spot[w]
  <1>1. /\ k \in Keys
        /\ Live(k) /\ notes[k].id = req[w].id
        /\ erased' = erased \union {req[w].id}
    BY DeleteCommit
  <1>2. StoredNote(k) # NoNote /\ StoredNote(k).id = req[w].id
    BY <1>1, StoredNoteExists
  <1>3. Store!Remove(k)
    BY <1>1, <1>2, DeleteStores DEF Store!Remove, StoredNotes
  <1> QED BY <1>1, <1>3, StoreData DEF Store!StoreNext

(* The handlers implement the atomic note store: initial states map to the *)
(* empty store, each COMMIT to one Create, Rewrite or Remove, and every    *)
(* other step to a stutter.                                                *)
THEOREM HandlersImplementStore == Spec => ImplementsNoteStore
  <1>1. Init => Store!StoreInit
    BY StoreData DEF Init, Store!StoreInit, StoredNotes, StoredNote
  <1>2. SafeInv /\ [Next]_vars => [Store!StoreNext]_(Store!storeVars)
    <2> SUFFICES ASSUME SafeInv, [Next]_vars
                 PROVE  Store!StoreNext \/ UNCHANGED Store!storeVars
      OBVIOUS
    <2>1. CASE UNCHANGED tables
      BY <2>1 DEF tables, Store!storeVars, StoredNotes, StoredNote
    <2>2. ASSUME NEW w \in Workers, CommitIngest(w) PROVE Store!StoreNext
      BY <2>2, IngestCreatesOrRewrites
    <2>3. ASSUME NEW w \in Workers, CommitDelete(w) PROVE Store!StoreNext
      BY <2>3, DeleteRemoves
    <2> QED BY <2>1, <2>2, <2>3, OnlyCommitsWrite
  <1> QED BY <1>1, <1>2, SafeAlways, PTL DEF Spec, ImplementsNoteStore, Store!StoreSpec
=============================================================================
