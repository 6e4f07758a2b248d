----------------------------- MODULE NoteIngest -----------------------------
(***************************************************************************)
(* POST /api/v1/ingest, GET and DELETE /api/v1/notes/{id}: the handlers of *)
(* src/app/api/v1/ingest.py and src/app/api/v1/notes.py over the           *)
(* repository of src/app/repositories/note.py, run by concurrent workers   *)
(* (the threads and replicas that serve requests) against one PostgreSQL   *)
(* database at READ COMMITTED.                                             *)
(*                                                                         *)
(* One action is one statement of a handler: between two statements any    *)
(* other worker may run.  What PostgreSQL contributes is modelled here as  *)
(* the handlers rely on it:                                                *)
(*   - a transaction's writes (tx) reach the tables at COMMIT, and a       *)
(*     rollback forgets them;                                              *)
(*   - SELECT ... FOR UPDATE of a missing row returns nothing and locks    *)
(*     nothing; of a locked row it waits, then returns the row as it is    *)
(*     now, or nothing when that row is gone, even if its identity has     *)
(*     been inserted again;                                                *)
(*   - INSERT ... ON CONFLICT DO UPDATE waits for whoever holds the        *)
(*     identity, then updates the row or inserts one; it takes a value     *)
(*     from the id sequence either way;                                    *)
(*   - DELETE waits for the row lock, and the foreign key cascades.        *)
(***************************************************************************)
EXTENDS NoteData

CONSTANTS
    Workers,
    Ingests,         \* the ingest requests clients may send
    Lookups,         \* the GET and DELETE requests clients may send
    MaxRequests,     \* bound: requests served in a behaviour
    EmbedBatchSize,  \* settings.embed_batch_size
    Free, NoKey, NoRequest, NoAnswer

VARIABLES
    notes,      \* table notes, by the unique key uq_notes_client_scope_path
    passages,   \* table passages
    nextId,     \* next value of the sequence behind notes.id
    lock,       \* the worker whose transaction holds the row or the key
    pc,         \* the statement each worker runs next
    req,        \* the request each worker serves
    spot,       \* the identity of the note the worker is on
    seen,       \* the note row the worker last read
    embedded,   \* passages whose vectors get_embeddings has so far
    tx,         \* the uncommitted writes of the worker's transaction
    answer,     \* the response sent by the last step, if it sent one
    served,     \* how many requests have been received
    erased      \* history: ids whose DELETE has committed

tables == <<notes, passages, erased>>
local  == <<pc, req, spot, seen, embedded, tx>>
vars   == <<tables, nextId, lock, local, answer, served>>

IngestRequest ==
    [kind: {"ingest"}, client: Clients, path: Paths, doc: Docs,
     version: Versions, status: Statuses, force: BOOLEAN, valid: BOOLEAN]

LookupRequest == [kind: {"get", "delete"}, client: Clients, id: Ids]

Request == IngestRequest \union LookupRequest

(* "error" stands for every other answer the handlers of errors.py give    *)
(* (400, 500, 503) and for the one that never arrives.                     *)
Codes == {"200", "204", "404", "error"}

Answer ==
    [to: Request, code: Codes, key: Keys \union {NoKey},
     note: NoteRow \union {NoNote}, count: Nat, skipped: BOOLEAN]

IngestSteps ==
    {"ingest", "waiting", "skip", "recount", "upsert", "embed", "replace",
     "commit"}
LookupSteps == {"get", "count", "delete", "blocked", "erase"}

(* Between these steps an ingest owns the note it writes. *)
Writing == {"embed", "replace", "commit"}

Tx == [row: NoteRow \union {NoNote}, del: SUBSET PassageRow,
       ins: SUBSET PassageRow]
NoTx == [row |-> NoNote, del |-> {}, ins |-> {}]

ASSUME IngestAssumption ==
    /\ Ingests \subseteq IngestRequest
    /\ Lookups \subseteq LookupRequest
    /\ MaxRequests \in Nat
    /\ EmbedBatchSize \in Nat \ {0}
    /\ Free \notin Workers
    /\ NoKey \notin Keys
    /\ NoRequest \notin Request
    /\ NoAnswer \notin Answer

TypeOK ==
    /\ notes \in [Keys -> NoteRow \union {NoNote}]
    /\ passages \subseteq PassageRow
    /\ nextId \in 1..(MaxId + 1)
    /\ lock \in [Keys -> Workers \union {Free}]
    /\ pc \in [Workers -> IngestSteps \union LookupSteps \union {"idle"}]
    /\ req \in [Workers -> Request \union {NoRequest}]
    /\ spot \in [Workers -> Keys \union {NoKey}]
    /\ seen \in [Workers -> NoteRow \union {NoNote}]
    /\ embedded \in [Workers -> Nat]
    /\ tx \in [Workers -> Tx]
    /\ answer \in Answer \union {NoAnswer}
    /\ served \in 0..MaxRequests
    /\ erased \subseteq Ids

Init ==
    /\ notes = [k \in Keys |-> NoNote]
    /\ passages = {}
    /\ nextId = 1
    /\ lock = [k \in Keys |-> Free]
    /\ pc = [w \in Workers |-> "idle"]
    /\ req = [w \in Workers |-> NoRequest]
    /\ spot = [w \in Workers |-> NoKey]
    /\ seen = [w \in Workers |-> NoNote]
    /\ embedded = [w \in Workers |-> 0]
    /\ tx = [w \in Workers |-> NoTx]
    /\ answer = NoAnswer
    /\ served = 0
    /\ erased = {}

-----------------------------------------------------------------------------
(* The repository's reads and the parts handlers share. *)

(* Definitions named "Fault..." are not part of the specification: each is *)
(* a bug this code could plausibly have, in the place of the definition    *)
(* that follows it, and shows which property would notice.                 *)

(* Fault: the pipeline version left out of the skip key. *)
FaultSkipOnHash(r, row) == ~r.force /\ row.doc = r.doc

(* The skip key of ingest_note: force is off, and the row holds the same   *)
(* content hash and pipeline version.                                      *)
SkipKeyMatches(r, row) ==
    /\ ~r.force
    /\ row.doc = r.doc
    /\ row.version = r.version

(* Fault: the WHERE clause without client_name. *)
FaultMatchesAnyClient(k, c, i) == notes[k] # NoNote /\ notes[k].id = i

(* The WHERE clause of get_note and delete_note. *)
Matches(k, c, i) ==
    /\ k[1] = c
    /\ notes[k] # NoNote
    /\ notes[k].id = i

(* Fault: replace_passages inserts without the DELETE before it. *)
FaultNoPassagesUnder(c, i) == {}

PassagesUnder(c, i) == {p \in passages : p.client = c /\ p.note = i}

(* Fault: FOR UPDATE dropped. *)
FaultRowNeverHeld(k) == TRUE

RowFree(k) == lock[k] = Free

(* What ON CONFLICT needs before it can insert or update. *)
KeyFree(w, k) == lock[k] \in {Free, w}

(* Fault: ids beyond the column's width. *)
FaultSequenceEndless == TRUE

SequenceLeft == nextId <= MaxId

(* Fault: SELECT max(id) + 1 instead of the sequence. *)
FaultMaxIdPlusOne ==
    IF \A k \in Keys : notes[k] = NoNote THEN 1
    ELSE 1 + (CHOOSE i \in Ids :
                 /\ \E k \in Keys : notes[k] # NoNote /\ notes[k].id = i
                 /\ \A k \in Keys : notes[k] # NoNote => notes[k].id <= i)

NewId == nextId

(* Fault: the session is never closed, its transaction stays open. *)
FaultStillLocked(w) == lock

(* Both end the transaction and so free the lock: commit or Session.close. *)
Unlocked(w) == [k \in Keys |-> IF lock[k] = w THEN Free ELSE lock[k]]

Reply(w, code, key, note, count, skipped) ==
    [to |-> req[w], code |-> code, key |-> key, note |-> note,
     count |-> count, skipped |-> skipped]

(* The handler returns or raises, get_db closes the session. *)
Finish(w, response) ==
    /\ pc' = [pc EXCEPT ![w] = "idle"]
    /\ req' = [req EXCEPT ![w] = NoRequest]
    /\ spot' = [spot EXCEPT ![w] = NoKey]
    /\ seen' = [seen EXCEPT ![w] = NoNote]
    /\ embedded' = [embedded EXCEPT ![w] = 0]
    /\ tx' = [tx EXCEPT ![w] = NoTx]
    /\ lock' = Unlocked(w)
    /\ answer' = response
    /\ UNCHANGED <<nextId, served>>

(* Finish without having written anything. *)
Give(w, code, key, note, count, skipped) ==
    /\ Finish(w, Reply(w, code, key, note, count, skipped))
    /\ UNCHANGED tables

Refuse(w, code) == Give(w, code, NoKey, NoNote, 0, FALSE)

(* The handler goes on to its next statement. *)
Goto(w, step) ==
    /\ pc' = [pc EXCEPT ![w] = step]
    /\ answer' = NoAnswer
    /\ UNCHANGED <<tables, served, req>>

(* An authenticated request reaches a free worker. *)
Receive(w, r) ==
    /\ pc[w] = "idle"
    /\ served < MaxRequests
    /\ pc' = [pc EXCEPT ![w] = r.kind]
    /\ req' = [req EXCEPT ![w] = r]
    /\ spot' = [spot EXCEPT ![w] =
                   IF r.kind = "ingest" THEN <<r.client, r.path>> ELSE NoKey]
    /\ served' = served + 1
    /\ answer' = NoAnswer
    /\ UNCHANGED <<tables, nextId, lock, seen, embedded, tx>>

-----------------------------------------------------------------------------
(* ingest_note. *)

RejectInvalid(w) ==
    /\ pc[w] = "ingest"
    /\ ~req[w].valid
    /\ Refuse(w, "error")

(* lock_note returned this row and the transaction holds it: skip or write. *)
HoldNote(w, row) ==
    /\ lock' = [lock EXCEPT ![spot[w]] = w]
    /\ seen' = [seen EXCEPT ![w] = row]
    /\ Goto(w, IF SkipKeyMatches(req[w], row) THEN "skip" ELSE "upsert")
    /\ UNCHANGED <<nextId, spot, embedded, tx>>

(* lock_note returned None: nothing is locked, the note is taken as new. *)
MissNote(w) ==
    /\ seen' = [seen EXCEPT ![w] = NoNote]
    /\ Goto(w, "upsert")
    /\ UNCHANGED <<nextId, lock, spot, embedded, tx>>

LockNote(w) ==
    LET k == spot[w] IN
    /\ pc[w] = "ingest"
    /\ req[w].valid
    /\ \/ /\ notes[k] = NoNote
          /\ MissNote(w)
       \/ /\ notes[k] # NoNote
          /\ RowFree(k)
          /\ HoldNote(w, notes[k])
       \/ /\ notes[k] # NoNote
          /\ ~RowFree(k)
          /\ seen' = [seen EXCEPT ![w] = notes[k]]
          /\ Goto(w, "waiting")
          /\ UNCHANGED <<nextId, lock, spot, embedded, tx>>

(* Fault: the skip key is the one read before the wait. *)
FaultStaleAfterWait(w) ==
    /\ pc[w] = "waiting"
    /\ RowFree(spot[w])
    /\ HoldNote(w, seen[w])

(* The row waited for is gone, or is free and read again. *)
LockNoteAfterWait(w) ==
    LET k == spot[w]
        still == notes[k] # NoNote /\ notes[k].id = seen[w].id IN
    /\ pc[w] = "waiting"
    /\ \/ /\ ~still
          /\ MissNote(w)
       \/ /\ still
          /\ RowFree(k)
          /\ HoldNote(w, notes[k])

(* db.commit() on the skip path: the lock goes, the count comes after. *)
CommitSkip(w) ==
    /\ pc[w] = "skip"
    /\ lock' = Unlocked(w)
    /\ Goto(w, "recount")
    /\ UNCHANGED <<nextId, spot, seen, embedded, tx>>

CountForSkip(w) ==
    /\ pc[w] = "recount"
    /\ Give(w, "200", spot[w], seen[w],
            Cardinality(PassagesUnder(req[w].client, seen[w].id)), TRUE)

(* Fault: upsert_note commits by itself. *)
FaultUpsertCommits(w) ==
    LET k == spot[w]
        r == req[w]
        row == [id |-> IF notes[k] = NoNote THEN NewId ELSE notes[k].id,
                doc |-> r.doc, version |-> r.version, status |-> r.status] IN
    /\ pc[w] = "upsert"
    /\ KeyFree(w, k)
    /\ SequenceLeft
    /\ notes' = [notes EXCEPT ![k] = row]
    /\ lock' = [lock EXCEPT ![k] = w]
    /\ nextId' = nextId + 1
    /\ tx' = [tx EXCEPT ![w] = [row |-> row, del |-> {}, ins |-> {}]]
    /\ pc' = [pc EXCEPT ![w] = "embed"]
    /\ answer' = NoAnswer
    /\ UNCHANGED <<passages, erased, served, req, spot, seen, embedded>>

UpsertNote(w) ==
    LET k == spot[w]
        r == req[w]
        id == IF notes[k] = NoNote THEN NewId ELSE notes[k].id IN
    /\ pc[w] = "upsert"
    /\ KeyFree(w, k)
    /\ SequenceLeft
    /\ lock' = [lock EXCEPT ![k] = w]
    /\ nextId' = nextId + 1
    /\ tx' = [tx EXCEPT ![w] =
                 [row |-> [id |-> id, doc |-> r.doc, version |-> r.version,
                           status |-> r.status],
                  del |-> {}, ins |-> {}]]
    /\ Goto(w, "embed")
    /\ UNCHANGED <<spot, seen, embedded>>

(* nextval() of an exhausted int4 sequence is an error (SQLSTATE 2200H, a  *)
(* DataError) for every upsert, also for one that would only have updated  *)
(* a row.                                                                  *)
SequenceExhausted(w) ==
    /\ pc[w] = "upsert"
    /\ ~SequenceLeft
    /\ Refuse(w, "error")

(* One sub-batch of get_embeddings, with the lock held. *)
EmbedBatch(w) ==
    LET total == SplitLen[<<req[w].doc, req[w].version>>]
        done == embedded[w] + EmbedBatchSize IN
    /\ pc[w] = "embed"
    /\ embedded' = [embedded EXCEPT ![w] = IF done < total THEN done ELSE total]
    /\ Goto(w, IF done < total THEN "embed" ELSE "replace")
    /\ UNCHANGED <<nextId, lock, spot, seen, tx>>

(* EmbeddingBackendError or EmbeddingBackendMisconfigured. *)
EmbedFails(w) ==
    /\ pc[w] = "embed"
    /\ Refuse(w, "error")

ReplacePassages(w) ==
    LET r == req[w]
        row == tx[w].row IN
    /\ pc[w] = "replace"
    /\ tx' = [tx EXCEPT ![w] =
                 [row |-> row,
                  del |-> PassagesUnder(r.client, row.id),
                  ins |-> PassagesOf(row.id, r.client, r.doc, r.version)]]
    /\ Goto(w, "commit")
    /\ UNCHANGED <<nextId, lock, spot, seen, embedded>>

(* The COMMIT of the whole note.  Its acknowledgement can be lost on the   *)
(* way to the handler (503) or the response on the way to the client.      *)
CommitIngest(w) ==
    LET t == tx[w] IN
    /\ pc[w] = "commit"
    /\ notes' = [notes EXCEPT ![spot[w]] = t.row]
    /\ passages' = (passages \ t.del) \union t.ins
    /\ UNCHANGED erased
    /\ \E code \in {"200", "error"} :
          Finish(w, Reply(w, code, spot[w], t.row, Cardinality(t.ins), FALSE))

-----------------------------------------------------------------------------
(* get_note: two statements, two snapshots. *)

GetNote(w) ==
    LET r == req[w] IN
    /\ pc[w] = "get"
    /\ \/ /\ \A k \in Keys : ~Matches(k, r.client, r.id)
          /\ Refuse(w, "404")
       \/ \E k \in Keys :
             /\ Matches(k, r.client, r.id)
             /\ spot' = [spot EXCEPT ![w] = k]
             /\ seen' = [seen EXCEPT ![w] = notes[k]]
             /\ Goto(w, "count")
             /\ UNCHANGED <<nextId, lock, embedded, tx>>

CountForGet(w) ==
    /\ pc[w] = "count"
    /\ Give(w, "200", spot[w], seen[w],
            Cardinality(PassagesUnder(req[w].client, req[w].id)), FALSE)

-----------------------------------------------------------------------------
(* delete_note. *)

(* Fault: the foreign key does not cascade. *)
FaultNoCascade(w, k) ==
    /\ lock' = [lock EXCEPT ![k] = w]
    /\ spot' = [spot EXCEPT ![w] = k]
    /\ Goto(w, "erase")
    /\ UNCHANGED <<nextId, seen, embedded, tx>>

(* The row is deleted and its passages cascade, uncommitted. *)
EraseNote(w, k) ==
    /\ lock' = [lock EXCEPT ![k] = w]
    /\ spot' = [spot EXCEPT ![w] = k]
    /\ tx' = [tx EXCEPT ![w] =
                 [row |-> NoNote, del |-> PassagesUnder(k[1], notes[k].id),
                  ins |-> {}]]
    /\ Goto(w, "erase")
    /\ UNCHANGED <<nextId, seen, embedded>>

DeleteNote(w) ==
    LET r == req[w] IN
    /\ pc[w] = "delete"
    /\ \/ /\ \A k \in Keys : ~Matches(k, r.client, r.id)
          /\ Refuse(w, "404")
       \/ \E k \in Keys :
             /\ Matches(k, r.client, r.id)
             /\ \/ /\ RowFree(k)
                   /\ EraseNote(w, k)
                \/ /\ ~RowFree(k)
                   /\ spot' = [spot EXCEPT ![w] = k]
                   /\ Goto(w, "blocked")
                   /\ UNCHANGED <<nextId, lock, seen, embedded, tx>>

(* The row waited for is gone, or is free and still matches. *)
DeleteNoteAfterWait(w) ==
    LET k == spot[w]
        still == Matches(k, req[w].client, req[w].id) IN
    /\ pc[w] = "blocked"
    /\ \/ /\ ~still
          /\ Refuse(w, "404")
       \/ /\ still
          /\ RowFree(k)
          /\ EraseNote(w, k)

CommitDelete(w) ==
    /\ pc[w] = "erase"
    /\ notes' = [notes EXCEPT ![spot[w]] = NoNote]
    /\ passages' = passages \ tx[w].del
    /\ erased' = erased \union {req[w].id}
    /\ \E code \in {"204", "error"} :
          Finish(w, Reply(w, code, spot[w], NoNote, 0, FALSE))

-----------------------------------------------------------------------------
(* A statement fails (OperationalError: 503; DataError, for a value the    *)
(* database cannot take or an exhausted passages.id sequence: 400) or the  *)
(* replica crashes: the transaction rolls back and the client hears an     *)
(* error or nothing.                                                       *)
Abort(w) ==
    /\ pc[w] # "idle"
    /\ Refuse(w, "error")

(* A worker's own progress, the choice between an answer and a failed      *)
(* embedding call included.                                                *)
Proceed(w) ==
    \/ RejectInvalid(w) \/ LockNote(w) \/ LockNoteAfterWait(w)
    \/ CommitSkip(w) \/ CountForSkip(w)
    \/ UpsertNote(w) \/ SequenceExhausted(w)
    \/ EmbedBatch(w) \/ EmbedFails(w) \/ ReplacePassages(w) \/ CommitIngest(w)
    \/ GetNote(w) \/ CountForGet(w)
    \/ DeleteNote(w) \/ DeleteNoteAfterWait(w) \/ CommitDelete(w)

(* Every request that the bound admits has been answered. *)
Quiet ==
    /\ served = MaxRequests
    /\ \A w \in Workers : pc[w] = "idle"
    /\ UNCHANGED vars

Next ==
    \/ \E w \in Workers :
          \/ \E r \in Ingests \union Lookups : Receive(w, r)
          \/ Proceed(w)
          \/ Abort(w)
    \/ Quiet

Spec == Init /\ [][Next]_vars

FairSpec == Spec /\ \A w \in Workers : WF_vars(Proceed(w))

-----------------------------------------------------------------------------
(* Properties. *)

Live(k) == notes[k] # NoNote

(* The passages of a note are exactly what its stored content splits into  *)
(* under its stored pipeline version, in every committed state: a request  *)
(* that fails or races another never leaves a mixture, a gap or the        *)
(* passages of an earlier content (ingest.py: "a failure here leaves the   *)
(* previous passages intact"; replace_passages, delete_note).              *)
NotesComplete ==
    \A k \in Keys :
       Live(k) =>
          {p \in passages : p.note = notes[k].id}
             = PassagesOf(notes[k].id, k[1], notes[k].doc, notes[k].version)

(* No passage outlives its note, and none is filed under another client    *)
(* than its note's (the cascade of delete_note; client_name is stamped by  *)
(* the repository on both tables).                                         *)
NoOrphans ==
    \A p \in passages :
       \E k \in Keys : Live(k) /\ notes[k].id = p.note /\ k[1] = p.client

(* Two requests are never between upsert_note and their commit for the     *)
(* same note, and a DELETE of it is not either: they serialise instead of  *)
(* interleaving a delete with the other's insert (ingest.py, the comment   *)
(* above lock_note).                                                       *)
WritersSerialised ==
    \A w, v \in Workers :
       (/\ w # v
        /\ pc[w] \in Writing \union {"erase", "skip"}
        /\ pc[v] \in Writing \union {"erase", "skip"})
       => spot[w] # spot[v]

(* A request that decided to skip still finds, until its commit releases   *)
(* the row, the content and the pipeline version it was asked for, with    *)
(* the passages they split into: the decision is taken on the row as it is *)
(* after the wait for the lock, not on an earlier reading of it.           *)
SkipDecisionHolds ==
    \A w \in Workers :
       pc[w] = "skip" =>
          LET r == req[w] IN
          /\ ~r.force
          /\ notes[spot[w]] = seen[w]
          /\ seen[w].doc = r.doc
          /\ seen[w].version = r.version
          /\ PassagesUnder(r.client, seen[w].id)
                = PassagesOf(seen[w].id, r.client, r.doc, r.version)

(* Embedding is spent on content that is already stored under the current  *)
(* pipeline version only when the request forces it, or when lock_note     *)
(* found no row and another request inserted the note since: the "one      *)
(* remaining race" of upsert_note's docstring is the only one.             *)
RedundantOnlyAfterRace ==
    \A w \in Workers :
       (pc[w] \in Writing /\ Live(spot[w]) /\ SkipKeyMatches(req[w], notes[spot[w]]))
       => seen[w] = NoNote

(* An erased note never comes back under its id: not through an ingest     *)
(* that was waiting for the DELETE or holding the note it waited for, and  *)
(* not through a passage (delete_note: "the ONLY erasure path").           *)
NoResurrection ==
    /\ \A k \in Keys : Live(k) => notes[k].id \notin erased
    /\ \A p \in passages : p.note \notin erased

(* No answer describes a note of another client, whatever id the request   *)
(* names: get_note, count_passages and delete_note filter by client_name,  *)
(* so a foreign id is the 404 of an id that does not exist.                *)
AnswersStayInTenant ==
    answer # NoAnswer =>
       /\ answer.key # NoKey => answer.key[1] = answer.to.client
       /\ answer.key = NoKey => answer.count = 0 /\ answer.note = NoNote

(* Whose notes and passages a step leaves alone: every client's but the    *)
(* ones whose request commits in it.                                       *)
TenantStep ==
    \A c \in Clients :
       (\A w \in Workers :
           pc[w] \in {"commit", "erase"} /\ pc'[w] = "idle" => req[w].client # c)
       => /\ \A k \in Keys : k[1] = c => notes'[k] = notes[k]
          /\ {p \in passages' : p.client = c} = {p \in passages : p.client = c}

(* A step changes notes and passages of one client at most, and only that  *)
(* of the request whose transaction it commits.                            *)
WritesStayInTenant == [][TenantStep]_vars

(* The tables as the abstract note store sees them. *)
StoredNote(k) ==
    IF notes[k] = NoNote THEN NoNote
    ELSE [id |-> notes[k].id, doc |-> notes[k].doc,
          version |-> notes[k].version, status |-> notes[k].status,
          passages |-> {p \in passages : p.note = notes[k].id}]

StoredNotes == [k \in Keys |-> StoredNote(k)]

Store == INSTANCE NoteStore WITH store <- StoredNotes

(* The handlers implement the atomic note store: every committed change is *)
(* one whole note written or removed, under an id that is stable while the *)
(* note lives and never used again.                                        *)
ImplementsNoteStore == Store!StoreSpec

(* Every request is answered: no worker waits for ever for a row lock, and *)
(* no ending of a handler keeps one (get_db closes the session).           *)
EveryRequestAnswered ==
    \A w \in Workers : (pc[w] # "idle") ~> (pc[w] = "idle")

(* ingest.py:112 "the only contender is another ingest of that same note": *)
(* whoever waits for a note that an ingest is embedding is an ingest.      *)
OnlyIngestContends ==
    \A w, v \in Workers :
       (/\ pc[w] \in Writing
        /\ pc[v] \in {"waiting", "blocked"}
        /\ spot[w] = spot[v])
       => req[v].kind = "ingest"

(* README "note_id and passages are returned unchanged": a skip answers    *)
(* with the number of passages of the note it skipped.                     *)
SkipAnswersUnchanged ==
    (answer # NoAnswer /\ answer.skipped) =>
       answer.count = SplitLen[<<answer.note.doc, answer.note.version>>]

(* README "status: optional, stored as given", and the same of meta: what  *)
(* a successful ingest was given is what the note it answers about has.    *)
StatusStoredAsGiven ==
    (answer # NoAnswer /\ answer.to.kind = "ingest" /\ answer.code = "200") =>
       answer.note.status = answer.to.status

(* README "body already contains the text of every passage ...             *)
(* passage_count is the count": GET answers with the count of the passages *)
(* of the body it returns.                                                 *)
GetCountsItsBody ==
    (answer # NoAnswer /\ answer.to.kind = "get" /\ answer.code = "200") =>
       answer.count = SplitLen[<<answer.note.doc, answer.note.version>>]

(* Both counts are taken in a statement of their own, after the row was    *)
(* read and is no longer locked (ingest.py:128-130, notes.py:56-77).  Of   *)
(* the two promises above at least one would survive that: one and the     *)
(* same behaviour does not break both.                                     *)
OneCountHolds == []SkipAnswersUnchanged \/ []GetCountsItsBody
=============================================================================
