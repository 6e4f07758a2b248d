------------------------------- MODULE Deploy -------------------------------
(***************************************************************************)
(* Deploying the service: an operator migrates the database up and down    *)
(* the chain of revisions, one transaction for a whole run, while the      *)
(* running versions of the service go on writing rows and replicas boot    *)
(* through the three checks of schema_checks.py.                           *)
(***************************************************************************)
EXTENDS Migrations, SequencesExt

CONSTANTS
    Replicas,
    Targets,            \* the revisions the operator migrates to
    Dimensions,         \* the values of EMBEDDING_DIMENSION
    PgVectors,          \* the versions of pgvector the server may provide
    Written             \* the tables whose rows the service may add

ASSUME DeployAssumption ==
    /\ Targets \subseteq Revisions
    /\ Dimensions \subseteq Nat
    /\ PgVectors \subseteq Nat \X Nat
    /\ Written \subseteq {"learnings", "notes", "passages"}

VARIABLES
    db, version,   \* what is committed: the database and its alembic_version
    pgvector,      \* the version of the extension the server installs
    run,           \* the migration run in progress
    boot           \* each replica: its configuration and how far it has come

vars == <<db, version, pgvector, run, boot>>

NoRun == [on |-> FALSE, work |-> EmptyDatabase, at |-> 0, next |-> 1, to |-> 0,
          locked |-> {}]

(* A bug to tell: the revision is read before the objects it stands for.   *)
FaultChecks == <<"head", "pgvector", "dimension">>

Checks == <<"pgvector", "dimension", "head">>
Stages == Range(Checks) \union {"down", "serving", "refused"}

Init ==
    /\ db = EmptyDatabase /\ version = 0
    /\ pgvector \in PgVectors
    /\ run = NoRun
    /\ boot \in [Replicas -> [stage : {"down"}, dimension : Dimensions]]

(***************************************************************************)
(* The migration run of env.py.                                            *)
(***************************************************************************)
Begin ==
    /\ ~run.on
    /\ \E t \in Targets \ {version} :
          run' = [NoRun EXCEPT !.on = TRUE, !.work = db, !.at = version, !.to = t]
    /\ UNCHANGED <<db, version, pgvector, boot>>

(* The statements of the revision the run is on.                           *)
Statements ==
    IF run.to > run.at THEN Chain[run.at + 1].up ELSE Chain[run.at].down

TablesOf(s) == ({o.table : o \in s.what} \union {o.to : o \in s.what}) \ {""}

Execute ==
    /\ run.on /\ run.at # run.to
    /\ LET s == Statements[run.next]
           last == run.next = Len(Statements)
       IN  /\ Possible(run.work, s)
           /\ run' = [run EXCEPT
                         !.work = Effect(@, s),
                         !.locked = @ \union TablesOf(s),
                         !.next = IF last THEN 1 ELSE @ + 1,
                         !.at = IF ~last THEN @ ELSE IF run.to > @ THEN @ + 1 ELSE @ - 1]
    /\ UNCHANGED <<db, version, pgvector, boot>>

Commit ==
    /\ run.on /\ run.at = run.to
    /\ db' = run.work /\ version' = run.at
    /\ run' = NoRun
    /\ UNCHANGED <<pgvector, boot>>

(* The run is killed or loses its connection: its transaction rolls back.  *)
Abandon ==
    /\ run.on
    /\ run' = NoRun
    /\ UNCHANGED <<db, version, pgvector, boot>>

(***************************************************************************)
(* The first row of a table, from a version of the service that is         *)
(* serving.  The statements of a run lock the tables they name until it    *)
(* ends; what is committed meanwhile in another table, the run sees.       *)
(***************************************************************************)
Insert(t) ==
    /\ Table(t) \in db.objects
    /\ t \notin db.rows \union run.locked
    /\ t = "passages" => "notes" \in db.rows
    /\ db' = [db EXCEPT !.rows = @ \union {t}]
    /\ run' = IF run.on THEN [run EXCEPT !.work.rows = @ \union {t}] ELSE run
    /\ UNCHANGED <<version, pgvector, boot>>

(***************************************************************************)
(* lifespan(): three checks, each on a connection of its own.              *)
(***************************************************************************)
MinimumPgvector == <<0, 8>>

VerifyPgvectorVersion ==
    /\ Extension \in db.objects
    /\ \/ pgvector[1] > MinimumPgvector[1]
       \/ pgvector[1] = MinimumPgvector[1] /\ pgvector[2] >= MinimumPgvector[2]

VerifyEmbeddingDimension(r) ==
    Vector("passages", "embedding", boot[r].dimension) \in db.objects

VerifyMigrationHead == version = HeadRevision

Passes(r) ==
    CASE boot[r].stage = "pgvector" -> VerifyPgvectorVersion
      [] boot[r].stage = "dimension" -> VerifyEmbeddingDimension(r)
      [] boot[r].stage = "head" -> VerifyMigrationHead

After(stage) ==
    IF stage = Last(Checks) THEN "serving"
    ELSE Checks[1 + CHOOSE i \in DOMAIN Checks : Checks[i] = stage]

Start(r) ==
    /\ boot[r].stage \in {"down", "refused", "serving"}
    /\ \E n \in Dimensions :
          boot' = [boot EXCEPT ![r] = [stage |-> Checks[1], dimension |-> n]]
    /\ UNCHANGED <<db, version, pgvector, run>>

Check(r) ==
    /\ boot[r].stage \in Range(Checks)
    /\ Passes(r)
    /\ boot' = [boot EXCEPT ![r].stage = After(@)]
    /\ UNCHANGED <<db, version, pgvector, run>>

(* The check fails, or the database cannot be reached.                     *)
RefuseToStart(r) ==
    /\ boot[r].stage \in Range(Checks)
    /\ boot' = [boot EXCEPT ![r].stage = "refused"]
    /\ UNCHANGED <<db, version, pgvector, run>>

Next ==
    \/ Begin \/ Execute \/ Commit \/ Abandon
    \/ \E t \in Written : Insert(t)
    \/ \E r \in Replicas : Start(r) \/ Check(r) \/ RefuseToStart(r)

Spec == Init /\ [][Next]_vars
-----------------------------------------------------------------------------
IsDatabase(d) ==
    /\ d.rows \subseteq {o.table : o \in d.objects}
    /\ \A n \in d.nulls : n[1] \in d.rows /\ Named(d, Column(n[1], n[2])) # {}
    /\ \A x \in d.objects, y \in d.objects : Same(x, y) => x = y

(* The committed database and the one inside the migration's transaction   *)
(* name every object once and hold rows and NULLs only where they can be;  *)
(* nothing committed waits for a backfill.                                 *)
TypeOK ==
    /\ IsDatabase(db) /\ db.nulls = {}
    /\ version \in Revisions
    /\ pgvector \in PgVectors
    /\ run.on \in BOOLEAN /\ IsDatabase(run.work)
    /\ run.at \in Revisions /\ run.to \in Revisions
    /\ boot \in [Replicas -> [stage : Stages, dimension : Dimensions]]

(* Whatever revision a run starts from and goes to, whatever rows are      *)
(* there or arrive meanwhile, PostgreSQL refuses none of its statements:   *)
(* no NOT NULL before its backfill, no vector width changed under rows, an *)
(* index or a generated column, no constraint dropped that a foreign key   *)
(* relies on (the order in the upgrade and downgrade functions).           *)
EveryStatementRuns ==
    run.on /\ run.at # run.to => Possible(run.work, Statements[run.next])

(* What the statements ss make of the database d, one after the other.     *)
Result(d, ss) ==
    LET after[i \in 0..Len(ss)] == IF i = 0 THEN d ELSE Effect(after[i - 1], ss[i])
    IN  after[Len(ss)]

Upgraded[n \in Revisions] ==
    IF n = 0 THEN EmptyDatabase ELSE Result(Upgraded[n - 1], Chain[n].up)

SchemaOf == [n \in Revisions |-> Upgraded[n].objects \ {Extension}]

(* A database at a revision has the schema the upgrades to it build from   *)
(* nothing, whatever upgrades, downgrades and abandoned runs led there:    *)
(* downgrade() restores exactly what its upgrade() changed, learnings      *)
(* included.  Only the vector extension stays behind at "base".            *)
RevisionFixesSchema == db.objects \ {Extension} = SchemaOf[version]

(* A replica that passes its last check serves on a database that is, at   *)
(* that moment, at head, with passages of its width and a pgvector of at   *)
(* least 0.8, which knows hnsw.iterative_scan, although the three checks   *)
(* read the database one after the other and runs commit between them.     *)
ServesOnlyAtHead ==
    [][\A r \in Replicas :
          boot'[r].stage = "serving" /\ boot[r].stage # "serving" =>
              /\ version = HeadRevision
              /\ Vector("passages", "embedding", boot[r].dimension) \in db.objects
              /\ Extension \in db.objects /\ pgvector \notin {0} \X (0..7)]_vars
=============================================================================
