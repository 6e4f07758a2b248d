# A formal model of nescio-memory

nescio-memory is a FastAPI service that stores Markdown notes in PostgreSQL
(with pgvector): a client ingests a note, the service splits it into passages,
embeds each passage and stores note and passages together; notes can be read
and erased by id, and passages are searched by a hybrid of full text and vector
similarity. Every request carries an API key that names a client, and clients
must not see or touch each other's notes.

This directory holds TLA+ modules of that service, TLC configurations that
check them on small instances, and proofs of their main theorems for every
instance. `PROJECT.json` maps each definition to the lines it stands for.

    tlc -workers 2 -config MCNoteIngest.cfg MCNoteIngest
    tlc -workers 2 -config MCSearchService.cfg MCSearchService
    tlc -workers 2 -config MCDeploy.cfg MCDeploy
    tlapm NoteIngestProofs.tla
    tlapm DeploySchema.tla

## 1. The system

| part | code | state | operations |
|---|---|---|---|
| Ingest, GET, DELETE | `app/api/v1/ingest.py`, `notes.py`, `app/repositories/note.py` | tables `notes`, `passages`; row locks; open transactions | `ingest_note`, `get_note`, `delete_note`; `lock_note`, `upsert_note`, `replace_passages`, `count_passages` |
| Pipeline composition | `app/core/pipeline.py` | none | `content_hash`, `pipeline_version`, the texts that are embedded and indexed |
| Splitter | `app/core/splitter.py` | none | front matter, section scan, merge of short sections, hard split, packing |
| Embedding client | `app/core/embeddings.py`, `embedding_validation.py` | a cached local model | sub-batched embedding, query embedding under a deadline, validation, probe |
| Search | `app/api/v1/search.py`, `app/repositories/passage_search.py`, `search_guards.py` | one read transaction, its `SET LOCAL` guards | embed (or degrade to full text), two arms, rank fusion |
| Errors | `app/core/errors.py` | none | exception class to status and Retry-After |
| Authentication | `app/core/security.py` | table `api_keys` | key to client |
| Body limit | `app/core/body_limit.py` | bytes received, response started | ASGI middleware |
| Startup | `app/core/schema_checks.py`, `app/main.py` | none | vector width, pgvector version, migration head |
| Migrations | `alembic/versions` | the schema | upgrade, downgrade |
| Re-ingest script | `scripts/reingest.py` | files to send, outcome counts | select, send, retry once on 503 |
| Evaluation, operator scripts | `scripts/` | none | metrics, key creation, probes |

How they interact. Handlers run in threads of several replicas; nothing is
shared between them but the database, so all concurrency is between SQL
statements at READ COMMITTED, and the only lock is the row lock that
`lock_note` takes and `ingest_note` keeps across the embedding calls. A handler
owns one session; `get_db` closes it, which rolls back what was not committed.
The embedding backend is called with the lock held (ingest) or with no
connection held (search). The re-ingest script is an HTTP client of ingest.

What is hard about it: two ingests, or an ingest and an erasure, of one note;
the insert race for a note that does not exist yet; the decision to skip, taken
on a row that may have changed while waiting for it; a failure between the
rewriting of a note and of its passages; a lost acknowledgement and the retry
it causes; answers put together from several statements; replicas of different
pipeline versions during a deploy; a sequence that runs out.

What makes each part correct:

* handlers: a committed note always has exactly the passages of its stored
  content and version; writers of one note are serialised; a skip is only
  decided on what is really stored; nothing crosses tenants; erasure is final;
  every request ends;
* splitter: no content lost, order kept, size bounds kept, merged sections
  never above the target;
* embedding: one valid vector per text in order or an error, and the right class
  of error (transient or permanent);
* search: no database connection held while embedding; degraded only for
  transient failures; the fused order equals the definition of RRF; never a
  passage of another client or a degenerate vector in the vector arm;
* body limit: an over-long body is refused, exactly one response is started,
  and the handlers see the whole body or nothing;
* re-ingest: every selected file is counted once, what is reported as stored is
  stored, and no answer of the server keeps a run from ending;
* migrations: no statement is refused on any path, each downgrade undoes its
  upgrade, and a service only boots against the head it was built for.

## 2. Plan

| modules | composed of | state |
|---|---|---|
| `NoteData`, `NoteStore`, `NoteIngest` | the handlers implement the abstract store | checked; safety, tenants and refinement proved |
| `Splitter` | one body, four phases | checked; all six invariants proved |
| `Embedding`, `Search` | the search handler over one connection pool, with ingest as the pool's other user | checked; all five invariants proved |
| `BodyLimit`, `SearchService` | the ASGI protocol in front of `Search` | checked; both invariants proved, and that it implements `Search` |
| `RankFusion` | the statement `Search` runs | checked; all five invariants proved |
| `Reingest` | the script over `NoteStore`, the store that `NoteIngest` implements | checked; all five invariants proved |
| `Schema`, `Migrations`, `Deploy` | the chain of revisions, migration runs, serving replicas that insert, booting ones that check | checked; all three invariants and the action property proved |

Nothing of the plan is left to prove: every invariant and action property that
a run checks is a theorem, and so are both refinements. Only liveness is left to
TLC alone.

## 3. What is modelled

**`NoteData`** — the two tables reduced to what the properties tell apart. A
key is a client and a path (one `Paths` element is a `(scope, path_or_uri)`
pair); a document stands for the submitted content (`content_hash` taken as
injective); a status stands for status and meta, the columns the skip key does
not cover. `SplitLen` is the number of passages of a document under a pipeline
version (at least one).

**`NoteStore`** — the abstract specification: `Create`, `Rewrite` and `Remove`
of a whole note, atomically, with ids that are never used again.

**`NoteIngest`** — the three handlers. One action is one SQL statement, one
embedding sub-batch, or a COMMIT, and any other worker may run in between. `pc`
is the statement a worker runs next.

| action | code |
|---|---|
| `Receive` | an authenticated request reaches a worker |
| `RejectInvalid` | the two validators of `ingest.py` |
| `LockNote`, `LockNoteAfterWait` | `lock_note`: no row, a free row, or a wait and then the row as it is now |
| `CommitSkip`, `CountForSkip` | the skip path: commit first, count after |
| `UpsertNote`, `SequenceExhausted` | `upsert_note` |
| `EmbedBatch`, `EmbedFails` | `get_embeddings`, sub-batch by sub-batch |
| `ReplacePassages`, `CommitIngest` | `replace_passages` and the single commit |
| `GetNote`, `CountForGet` | the two statements of GET |
| `DeleteNote`, `DeleteNoteAfterWait`, `CommitDelete` | DELETE, its wait for the row, its cascade |
| `Abort` | any statement fails or the replica dies: rollback, an error or silence |

A transaction's writes sit in `tx` until its COMMIT. What PostgreSQL
contributes (FOR UPDATE, ON CONFLICT, the cascade, READ COMMITTED) is modelled
the way the handlers rely on it and stated at the head of the module. A COMMIT
whose answer is lost (`error`) has still happened. Two simplifications: an
upsert takes its sequence value when it gets the key, not before it waits
(which value it is does not matter to any property, only that none is used
twice), and the passages' own id sequence is a possible failure of `Abort`.

**`Splitter`** — `split_note` on one body. A character is its offset, a line a
kind and two offsets, so a text is a set of offsets and a length, and "no
character lost" is a statement about sets. `ScanSection` cuts one section at a
heading outside code; `InFence` is the code's flag, the parity of all fence
markers so far. `UseSections` and `KeepWhole` are the choice `split_note` makes.
`JoinPending`, `JoinPrevious`, `OpenPending`, `StandAlone` and `EndMerge` are
what `_merge_short_sections` may do with the next section: extend the run that
waits (`pending`), extend the last unit, start a run, become a unit, or flush
the run at the end; `Flushed` is the flush in the middle of an iteration.
`PassUnit`, `OpenUnit`, `SkipBlank`, `PackChunk`, `CloseUnit` and `EndPack` are
`_pack` with `_hard_split`: each `PackChunk` takes one chunk of one paragraph
and starts, extends or emits the buffer. The texts that `join` puts in between
are counted (`Gap`) but are no characters of the body. A heading path is the
line of its heading; its wording, front matter and provenance are left out, and
so is white space within lines: a blank line is empty.

`NoteIngest` and `Splitter` meet in `SplitLen`: `ingest_note` calls `split_note`
on the submitted content before it touches the database, and what the handlers
need of it is that it depends on content and pipeline version only and yields
at least one passage.

**`Embedding`** — what `embeddings.py`, `embedding_validation.py` and
`errors.py` make of the reply to one text: every way a call to either backend
can end, its class of error, its status and whether it advertises a retry. The
width, the component rule and the norm are computed on exponents: a component is
a power of two with the real exponent range of IEEE single precision, a square
doubles the exponent, and rounding to float32 turns what is too small into zero
and what is too large into infinity. `ZeroNorm` is the code's rule (with its
flush of subnormals), `StoredNormIsZero` what pgvector will compute of the
stored row; that the first is at least as strict is a property
(`AcceptedVectorsAreStorable`, proved for every vector). Comments in four places
say the contrary of that very case, that Python validates in float64
and cannot see a norm that vanishes in float4 (`passage_search.py:116`,
`models/passage.py:65`, the migrations `17be352b1a4c` and `9439c6362bb3`) and a test
repeats it (`test_passages_schema.py:254`); the code is stricter than they
say, which the run `norm_underflow` shows. What is left for the generated column
`embedding_degenerate` to catch are rows that ingest did not write. A vector that
is no list at all counts among the `unreadable` replies: the same error.

**`Search`** — the search handler and what happens around it, one action for
each statement or wait:

| action | code |
|---|---|
| `Receive`, `Authenticate` | `get_current_client`: the session's first statement checks a connection out; an invalid body is reported only after it |
| `EndAuthRead` | `db.commit()` before the embedding: the connection goes back to the pool |
| `EmbedQuery` | `get_query_embedding`; only the base class `EmbeddingError` degrades the search |
| `ApplyGuards`, `ReadBack` | `search_guards.py`: three `set_config(..., true)` and their read-back; under AUTOCOMMIT a setting is gone with its statement |
| `RunHybrid` | the hybrid statement: results, a cancellation, or a NUL in the text |
| `EndIngest` | an ingest, as far as the pool sees it: it keeps its connection while it embeds |
| `PoolTimeout`, `DatabaseFails` | QueuePool gives up; the database is gone |
| `Close` | `get_db`'s finally |

A wait for a connection can time out only while the holder of some connection
does something long: it waits for the backend, or it runs the hybrid statement in
a deployment whose `STATEMENT_TIMEOUT_MS` (at most 60000, by default 5000) is not
below QueuePool's own 30 s (`HoldsLong`). All else is short; that a queue of many
short holders may also outlast the wait is left out, so the model says of the
pool what a single holder can do to it. A
duration is a number and a unit, and `TimeoutSpellings` is the code's list of
the ways PostgreSQL may show `statement_timeout` back.

**`BodyLimit`**, **`SearchService`** — `BodySizeLimitMiddleware` pulls the
messages of a body one by one, refuses by the declared length or by the bytes
counted, keeps them and replays them to the application, which pulls again.
`SearchService` composes it with `Search`: a request is handed over when its
body is complete, and the handler's answer is the response that is started.

**`RankFusion`** — the hybrid statement. A passage is what the statement can tell
of it: client, scope, text rank, distance (`NaN` for none), degenerate flag. The
vector arm may miss anything: the HNSW scan returns an arbitrary subset
(`reached`), and among equal distances at the cut the choice is arbitrary.
That a page is full (`FillsToTopK`) is claimed only for a scan that misses nothing
it could take: `search.py` and `schemas/search.py` say "always fills up to top_k"
without that condition, the repository's README ("Search recall is bounded, not
guaranteed") with it.
Scores are exact fractions; the code computes them in double precision, whose
rounding is far below the differences that ranks up to 1000 make but may part
two equal sums of different terms, so the order of such a tie by id is the
model's. Weights are natural numbers.

**`Reingest`** — `main`, `select_files`, `_ingest_one` and the Retry-After
parsing, one action for each walk, request, answer and report. The tree may
change between any two of them (`Edit`). The server is `NoteStore`: by
`HandlersImplementStore` an ingest is one atomic `Create` or `Rewrite`, or
nothing. The script ends before its first request when a root, a URL or a walk is
unusable, and after the walks when it has no key. An answer may be lost after the commit (503), before it (503 or
another status), or never come: `TransportError` is the timeout or broken
connection, after which the request is `adrift` and may be served at any later
moment, in a later run too, or never. A path is the sequence of its
components, a glob a sequence of names, `*` and `**`; `PathMatch` is
`PurePath.match`, which knows `**` only as `*`.

**`Schema`**, **`Migrations`**, **`Deploy`** — a database is a set of schema
objects, the tables that hold rows and the columns those rows leave NULL.
`Schema` says when PostgreSQL refuses a statement and what one changes; these
rules are not in the repository and are marked external. `Migrations` lists the
statements of every `upgrade()` and `downgrade()` in their order. `Deploy` runs
them: one transaction for a whole run (`env.py`), committed or abandoned as a
whole, with the tables it names locked, while rows arrive in the other tables
and replicas boot through the three checks of `schema_checks.py`, each on a
connection of its own, so that a migration may commit between two of them.

Definitions named `Fault...` are plausible bugs, kept in front of the
definition each would replace; `PROJECT.json` names the property each breaks.

### Runs

| run | shows |
|---|---|
| `ingest_safety` | 3 workers, 2 clients on one path, 2 documents (2 and 1 passages), 2 pipeline versions, forced and unforced ingests, 4 requests, 3 ids: all invariants, the tenant action property and the refinement of `NoteStore` (0.3 million states) |
| `ingest_liveness` | 3 workers, 4 requests on one note: every request is answered |
| `ingest_contention` | refutes "the only contender is another ingest": DELETE waits too |
| `late_counts` | refutes "`passages` returned unchanged" of a skip, which counts after it unlocks, and "`passage_count` is the count" of a GET's body, counted in a second statement: one behaviour, in which one DELETE spoils both answers |
| `status_stored` | refutes "stored as given" for status and meta of a skipped ingest |
| `splitter` | every body of up to 4 lines of any kind, 5 of the fenced kinds and 7 of the plain ones: types, cap, target, no loss, maximal merging, labels (0.2 million states) |
| `splitter_fences` | refutes "headings that are outside fenced code": a `~~~` line inside a ```` ``` ```` block ends it for the scan |
| `search_service` | one request alone against every reply of the backend (all endings, all statuses that differ, all pairs of 13 components, wrong widths and counts), every shape of body up to four messages, every key and text, every deployment (AUTOCOMMIT, presets, weight 0, four timeouts); and three requests, searches and ingests mixed, on two connections, with a short and a long statement timeout: types, pool timeouts only where an ingest or a long statement is to blame, guards, degradation, storable vectors, one response, whole bodies, and every request answered |
| `norm_underflow` | refutes that Python's validation accepts a vector that only float4 leaves without a norm: the request is answered 503 |
| `rank_fusion` | three passages of every kind and a foreign one under every filter, and four passages that differ in text and distance under several weightings and cuts, for every result of the index scan: tenancy and scope, that what both arms favour comes first, that one arm alone keeps its order, that the page is full when it can be |
| `reingest` | two runs (plain, forced, dry, with lifted excludes, without a key; Retry-After absent, above the cap, negative, no number) over two notes and two files the defaults exclude, one of them at the top, with one edit between any two steps: what is reported is stored, the summary and the exit code, the excludes, the patience, and that every run ends |
| `deploy` | every revision as a target of every run, rows in every table at every moment, a replica of either width booting at any moment, pgvector 0.7 and 0.10: no statement is refused, a revision fixes the schema, and what serves has been at head |

Bounds. Three workers are what it takes for one to hold a row, one to wait for
it and a third to remove or replace it; four requests let a note be written,
erased, written again and met by a request that still knows the old one; three
ids with four requests make the sequence run out; a document of two passages
embedded one at a time puts a step between two sub-batches. Two clients share
the path, so only the client tells their notes apart.

The splitter's sizes are scaled down (target 14, cap 20, minimum 6) with lines
to match: a heading alone is short, two headings fit into one unit and three
overflow it, a preamble of one short line and two headings hit the target
exactly, a heading with text is long, two texts overflow the cap and the longest
line has to be cut. Seven lines are enough for a run that overflows, is flushed
and is met by two more sections.

Two connections and three workers are the least with which one search waits for
a connection while others hold or await the backend. Bodies of up to three
messages of up to four bytes against a limit of three hit, miss and overrun it
in each message. Width 2 is enough for a vector with one good and one bad
component and for too few and too many; the components include both sides of
each boundary of float32 and of the square root of its smallest number. Four
passages let one be cut, one tie and one be hidden, for cuts of 1 to 3. Two runs
are needed for a request of the first to be served in the second; one edit makes
the two runs send different content. In `deploy` nothing is scaled down but the
number of replicas, which do not interact: the chain is the real one, 0.10 is
above 0.8 only when compared as numbers, and 384 and 1024 are the two widths the
chain has known.

Fairness. `FairSpec` asks that a worker that can go on does go on
(`WF_vars(Proceed(w))`): threads are scheduled, PostgreSQL wakes a waiter when
the lock is free, and the embedding call has a timeout, after which
`EmbedFails` (part of `Proceed`) ends it. Nothing makes clients send or
connections fail: `Receive` and `Abort` have no fairness. Weak fairness is
enough because the requests of a behaviour are bounded by `MaxRequests`; with
endless traffic on one note a single waiter could be overtaken for ever, which
PostgreSQL's lock queue rules out and the model does not represent.
`ServiceSpec` asks the same of each request behind the body limit: the server
delivers the messages or the disconnect, threads are scheduled, a backend call
and a pool wait have timeouts, a statement has `statement_timeout`. In
`Reingest` only the script is fair (`WF_vars(Script)`): httpx ends every silence
of the server after its timeout (`TransportError`), so the runs end although the
server need never answer. The timeout is one of each connect and read and not of
the whole request; a server that sends an answer byte by byte for ever is not
modelled, and `EveryRunEnds` says nothing of it. `Deploy` states no fairness; nobody has to migrate or boot.

### Proofs

`NoteIngestProofs` proves `TypeCorrect`. Types need more than `TypeOK`: an
ingest worker's `spot` is its request's key, a writer's draft row carries its
request's document and version (`ReqShape`), and the tables stay finite, since
the answers count passages (`FiniteTables`). `PassagesOfCount` proves that a
document has as many passages as its split says.

Its second part proves the seven safety invariants of the first run from one
inductive invariant, `SafeInv`. None of them is inductive alone. That a note is
complete after a commit holds because the transaction deletes exactly the
committed passages and inserts exactly the new ones (`DraftWrites`), which
stays true until the commit because nobody else can change that note
(`Owner`: the worker holds the lock), whose id is the note's own or nobody's
(`DraftId`, `DraftsApart`, `IdsSane`). `Reading` says that what `lock_note`
returned is still the row while it matters; the two statements about skipping
follow from it. The preservation proof has one lemma per action; the actions
that write nothing share `LocalStep`.

The last part of the module proves the action property on tenants and the
refinement: only the two COMMITs change the tables (`OnlyCommitsWrite`), and each is one
step of `NoteStore` on the view `StoredNotes`.

These theorems assume `DataAssumption` and `IngestAssumption` only: types of the
constants and sentinels that differ from real values. They hold for any number
of workers, requests, clients, documents and versions, and for any `SplitLen`.

`SplitterProofs` proves, for every body and all sizes with minimum <= target <=
maximum, that passages consist of the body's own characters (`SplitTypes`),
that none exceeds the cap (`CapHolds`) and that short sections alone never make
a unit over the target (`TargetHolds`). The inductive invariant adds what ties
the phases together: the waiting run lies among the sections already looked at
and is within the target (`MergeInv`), the buffer is within the cap and the
packing is never past the end of its paragraph (`PackInv`). The last conjunct
is what makes a chunk's length a natural number, and rests on a paragraph
having only one end. Each phase has a lemma for what its steps leave alone
(`MergeStep`, `PackStep`), and each action one for what it changes.

`SplitterSafety` proves the other three from `SInv`, one more layer for each
phase. `NothingLost` at the end rests on the whole way there: the sections tile
the body, with only blank lines between them (`Tiled`); the units fold the
sections without a gap up to the one the merge is at (`Folded`); and everything
before the place the packing is at is in a passage, or in the buffer and behind
all passages (`Packed`, `Chunked`). No part is inductive without the one before
it: that a new passage lies behind the others follows from the order of lines,
hence of sections, hence of units (`LineOrder`, `SectionOrder`, `UnitOrder`).
`Folded` says too that a run can wait only before the first unit, which is why a
flush can never put two units in the wrong order, and carries the labels and
`ShortSectionsMerge`: when a unit grows, the unit after it does not exist yet.

The theorems of the splitter assume `SplitterAssumption`: the order of the three
sizes, and that a body's lines are laid out one after the other.

`SearchProofs` proves the five invariants of `Search` for any number of workers
and connections, any scenario and any vector width. Each is carried by an
invariant about one worker at a time: what its program counter says of its
connection and answer (`ShapeAt`), of the settings on that connection
(`GuardAt`, with `Clean` for idle ones), and of the reply its answer stands for
(`AnswerAt`). `PoolInv` says that a timed-out wait had an ingest or a long
statement to blame: a search that awaits the backend holds no connection. `SearchVectors` rests on
arithmetic of exponents: a component whose square survives the flush survives
without it. `ServiceImplementsSearch` is the refinement: each step of the
composition is a step of `Search` or leaves its variables alone, so all five
hold behind the body limit too. They assume `PoolAssumption`,
`ScenarioAssumption` and `DimensionAssumption`.

`ServiceInv` carries the two invariants of the body limit. What is buffered is
what has been received, what the application has read is a prefix of it, and no
message but the last received one ends the buffering (`BufferAt`); each phase
says how far that has come (`PhaseAt`); only the message a request is refused for
may pass the limit (`LimitAt`); and the number of responses is the sum of the
middleware's and the handlers', who run only once the body is complete
(`ResponseAt`). `Bytes` is a sum over a sequence. No induction over data is
available, so what is needed of it (the sum of a prefix with one more message,
that it only grows) is proved by looking at the least position where it would
fail (`Least`, `BytesIsSum`, `BytesOfParts`). These two theorems also assume
`MaxBytesAssumption` and `BodiesAssumption`: the limit and the sizes are natural
numbers and a delivery ends with a disconnect that carries nothing.

`RankFusionProofs` proves the five invariants of the hybrid statement for every
finite corpus, filter, weighting, cut and result of the index scan. The
invariant (`RInv`) says what each column holds after its step; the work is in the
operators. `Ranking` shows that a row number under a strict total order is a
bijection onto 1..n that respects the order, `Limiting` that a cut by it keeps
the n best; both by taking a greatest or least counterexample. The order of
scores compares sums of fractions by cross-multiplication, and that it is a
strict total order with the id as tie-break is `ScoreOrderTotal`, on
`FractionsTransitive` and `FractionsAdd`. `FavouredComesFirst` then compares two
scores term by term (`TermLeads`): better in one arm and no worse in the other.
They assume `IdsAssumption` and `SearchesAssumption`: text ranks and distances
are natural numbers (or NaN), the weights are not both 0.

`ReingestProofs` proves, for any tree, any sequence of runs, any headers and any
number of edits, the types and three properties of the script.
`ReportedIsStored` is not inductive: what makes a report true is that a 200 not
yet read is still true (`AnswerHolds`), and that every request that can still
be served is reported as FAILED (`adrift` is a subset of `failed`), so that
whatever takes the place of reported content has been reported too. The summary
follows from `CountsAddUp` (each selected file is counted, in progress or to do)
and `NothingFailed` (a run without failures has reported every file it is done
with). `PatienceHolds` bounds the sleep by the cap times the files taken up,
with an allowance for a first attempt that has not slept yet.
`ExcludedStayOut` needs `KeptOut`: what is selected passed the excludes of the
run it is selected in (`SelectionKept`), and as long as the first run keeps the
defaults nothing of theirs is in flight, adrift or stored (`DefaultsKeptOut`);
`NameMatches` is what `PathMatch` makes of any directories and a name. They assume
`DataAssumption` and `ReingestAssumption`; that the set of files is finite and that a path has at least one component are
part of the latter.

`DeployProofs` proves `TypeOK` and `ServesOnlyAtHead`, for any replicas, targets,
widths, versions of pgvector and tables written to. `ChainFacts` goes through the
73 statements of the chain and says of each what it creates and drops at most,
whether it spares the embedding column of passages and which columns it leaves
NULL (`RevisionFacts`). From `Possible` and `Fine` it follows that a statement
turns a well-formed database into one (`EffectIsDatabase`): PostgreSQL's refusal
of a name that exists, or of a dropped column that a generated one reads, is what
keeps objects unique and NULLs with their columns. The invariant follows the run
statement by statement: the NULLs that may be there are those of the revision at
hand (`Pending`), and at each place it is known whether the embedding column and
the extension must exist (`WidthDue`, `ExtensionDue`). `LockInv` makes the rows
that arrive meanwhile harmless: a table that is not locked has not been dropped.
For the replicas the argument is that the column has had one width in all
revisions, so that a check passed on an older database still counts at head.
They assume `DeployAssumption`.

`DeploySchema` proves the other two invariants of `Deploy` on top of that.
`SchemaAt(n)` writes out the objects at each of the thirteen revisions, and
`Connects` says of a revision that its `upgrade()` leads from `SchemaAt(n - 1)` to
`SchemaAt(n)` and its `downgrade()` back. To lead is more than to end there: a
`Route` names a stage between any two statements, and from every well-formed
database that fits a stage the next statement is possible and what it makes fits
the next stage (`Leads`). A stage has its objects (up to the extension, which no
downgrade removes), the columns that may be NULL, and the tables that must be
empty; the last is what lets a vector column change its width, and it holds
because the run's own statement emptied and locked the table. A stage says
nothing else of rows, so the routes hold for whatever the service has written.

The lemmas about single statements (`CreateLeads` and those for backfills,
drops, tables and deletions) are stated for any table of the shape all tables of
the chain have; they reduce a revision to the objects it adds and takes. What is
left are the twelve lemmas that apply them, one for each revision, collected in
`EveryRevisionConnects`. The inductive invariant `SchemaInv` puts a run on such a
route: between two revisions its database fits the revision it has reached,
within one it fits the stage before its next statement, with every table that has
to be empty locked (`Midway`). `NoStatementIsRefused` is then immediate.
`DowngradesUndoUpgrades` needs `SchemaOf[n]` to be `SchemaAt(n)` as well.
`SchemaOf` is recursive, over revisions and over statements; both recursions are
bounded by the chain, so they are unfolded with a function written out
(`ResultUnfolds`, `UpgradedUnfolds`), and the same routes, walked from the empty
database, give the schema of every revision. Only `DeployAssumption` is assumed.

Model-checked only: liveness (`WF_` and `ENABLED` are out of the prover's reach),
that is `EveryRequestAnswered`, `EverySearchAnswered` and `EveryRunEnds`; and the six
refuted claims.

## 4. What is not modelled, and why

* Text processing as such (regular expressions, front matter, provenance,
  hashing, the FTS composition), tracing, OpenAPI export: they keep no state and
  no property here is about them.
* Configuration parsing: settings are validated once, at import. What the
  validators guarantee are the assumptions on the models' constants.
* The evaluation script `eval_queries.py`: metrics of a fixed list of queries,
  computed from one answer after the other, without a state that outlives one.
* Operator scripts (key creation, probes, the dimension check) and
  `_cli_safety.py`: one-shot input and output around code modelled above. Key
  issuing and revocation is one statement; a key revoked during a request still
  completes it, since the lookup is the request's first statement.
* The probe of the embedding backend and the cache of the local model:
  diagnostics, and a memo that no answer depends on. Two sub-batches of one
  note may be embedded by different models when the backend swaps its model;
  nothing in the code could tell.
* A killed re-ingest script: it keeps nothing, and a killed run followed by
  another is a run whose last request is adrift. An answer of status 2xx that is
  no JSON is not modelled either; the server sends none.
* Two migration runs at once: `env.py` takes no lock, and PostgreSQL's locks on
  `alembic_version` and the catalogue, which would order them, are not
  represented. Column types other than a vector's width and the order of columns
  are left out of the schema.
* An infinite norm: what pgvector does with one is not stated anywhere in the
  repository; the statement drops a NaN distance.
