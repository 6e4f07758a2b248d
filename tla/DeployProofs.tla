---------------------------- MODULE DeployProofs ----------------------------
(***************************************************************************)
(* Theorems about Deploy, for any replicas, targets, widths, versions of   *)
(* pgvector and tables that are written: the databases a migration run     *)
(* goes through are well formed, no NULL that a revision adds is left when *)
(* it is committed, and a replica serves only where it may.  They rest on  *)
(* what each statement of the chain may do (ChainFacts).                *)
(***************************************************************************)
EXTENDS Deploy, TLAPS

Width == Vector("passages", "embedding", 1024)
IsEmbedding(o) == o.kind = "column" /\ o.table = "passages" /\ o.name = "embedding"

(* What every object of the chain is like. *)
Well(o) ==
    /\ IsEmbedding(o) => o = Width
    /\ o.kind = "extension" => o = Extension
    /\ o.kind = "column" => o.on = <<>> \/ o.type = "generated"

Kinds == {"create", "create_if_absent", "drop", "drop_if_exists", "drop_table",
          "truncate", "backfill", "retype"}

(* A statement names what it may: it creates good objects, each once, and  *)
(* drops neither an extension nor, but by DROP TABLE, a table.             *)
Fine(s) ==
    /\ s = Statement(s.do, s.what) /\ s.do \in Kinds
    /\ s.do \in {"create", "create_if_absent", "retype"} => \A o \in s.what : Well(o)
    /\ s.do = "create" => \A o \in s.what, p \in s.what : Same(o, p) => o = p
    /\ s.do = "create_if_absent" => s.what = {Extension}
    /\ s.do \in {"drop", "drop_if_exists", "retype"} =>
          \A o \in s.what : o.kind \notin {"extension", "table"}
    /\ s.do = "drop_if_exists" => \A o \in s.what : o.kind # "column"
    /\ s.do = "retype" => /\ \A o \in s.what : o.kind = "column"
                          /\ \A o \in s.what, p \in s.what : o = p
    /\ s.do = "drop_table" => \A o \in s.what : o.table # ""

(* The embedding column of passages outlives the statement. *)
Spares(s) ==
    /\ s.do \in {"drop", "drop_if_exists", "retype"} =>
          \A o \in s.what : ~IsEmbedding(o)
    /\ s.do = "drop_table" => \A o \in s.what : o.table # "passages"

(* The statement leaves no column NULL in existing rows but those in N. *)
Fills(s, N) ==
    s.do = "create" =>
        \A y \in s.what :
            y.kind = "column" /\ y.type \in {"plain", "vector"} =>
                <<y.table, y.name>> \in N \/ Table(y.table) \in s.what

Good(s) == Fine(s) /\ Spares(s) /\ Fills(s, {})

(* The column that revision n adds without a value. *)
Missing(n) ==
    IF n = 4 THEN {<<"learnings", "client_name">>}
    ELSE IF n = 11 THEN {<<"passages", "scope">>} ELSE {}

RevisionFacts(revision, n) ==
    LET up == revision.up
        down == revision.down
    IN  /\ Len(up) \in Nat \ {0} /\ Len(down) \in Nat \ {0}
        /\ \A i \in 1..Len(up) :
              Fine(up[i]) /\ Spares(up[i])
              /\ Fills(up[i], IF i = 1 THEN Missing(n) ELSE {})
        /\ \A i \in 1..Len(down) :
              Fine(down[i]) /\ Fills(down[i], {})
              /\ (Spares(down[i]) \/ (n = 10 /\ i = 4))
        /\ n = 1 => up[1] = CreateIfAbsent({Extension})
        /\ n = 10 => up[2].do = "create" /\ Width \in up[2].what
        /\ n \in {4, 10, 11} => Len(up) > 1
        /\ n \in {4, 11} =>
              /\ up[2].do = "backfill"
              /\ \A x \in Missing(n) : Column(x[1], x[2]) \in up[2].what

-----------------------------------------------------------------------------
(* Databases. *)

Database(d) ==
    /\ d = [objects |-> d.objects, rows |-> d.rows, nulls |-> d.nulls]
    /\ \A o \in d.objects : Well(o)
    /\ \A t \in d.rows : Table(t) \in d.objects
    /\ \A n \in d.nulls : n[1] \in d.rows /\ Named(d, Column(n[1], n[2])) # {}
    /\ \A x \in d.objects, y \in d.objects : Same(x, y) => x = y

WidthDue ==
    \/ run.at > 10
    \/ run.at = 10 /\ (run.to >= 10 \/ run.next <= 4)
    \/ run.at = 9 /\ run.to > 9 /\ run.next > 2

ExtensionDue == run.at > 0 \/ run.next > 1

Pending == IF run.to > run.at /\ run.next = 2 THEN Missing(run.at + 1) ELSE {}

RunInv ==
    /\ run = [on |-> run.on, work |-> run.work, at |-> run.at, next |-> run.next,
              to |-> run.to, locked |-> run.locked]
    /\ run.on \in BOOLEAN /\ run.at \in Revisions /\ run.to \in Revisions
    /\ run.at = run.to => run.next = 1
    /\ run.at # run.to => run.next \in 1..Len(Statements)
    /\ Database(run.work) /\ run.work.nulls \subseteq Pending
    /\ WidthDue => Width \in run.work.objects
    /\ ExtensionDue => Extension \in run.work.objects

(* Who is not locked out finds its table in the migration, too. *)
LockInv ==
    run.on => \A t \in Written :
        Table(t) \in db.objects /\ t \notin run.locked => Table(t) \in run.work.objects

StoredInv ==
    /\ Database(db) /\ db.nulls = {} /\ version \in Revisions
    /\ version >= 10 => Width \in db.objects
    /\ version > 0 => Extension \in db.objects

BootInv ==
    /\ pgvector \in PgVectors
    /\ boot \in [Replicas -> [stage : Stages, dimension : Dimensions]]
    /\ \A r \in Replicas :
          /\ boot[r].stage \in {"dimension", "head"} => pgvector \notin {0} \X (0..7)
          /\ boot[r].stage = "head" => boot[r].dimension = 1024

DeployInv == RunInv /\ LockInv /\ StoredInv /\ BootInv
-----------------------------------------------------------------------------
(* The objects and the statements of the chain. *)

LEMMA ShapeOfColumns ==
    /\ \A t, c : LET o == Column(t, c) IN
          o.kind = "column" /\ o.table = t /\ o.name = c /\ o.on = <<>> /\ o.type = "plain"
    /\ \A t, c : LET o == Defaulted(t, c) IN
          o.kind = "column" /\ o.table = t /\ o.name = c /\ o.on = <<>> /\ o.type = "default"
    /\ \A t, c, w : LET o == Vector(t, c, w) IN
          o.kind = "column" /\ o.table = t /\ o.name = c /\ o.on = <<>> /\ o.type = "vector"
    /\ \A t, c, reads : LET o == Generated(t, c, reads) IN
          o.kind = "column" /\ o.table = t /\ o.name = c /\ o.type = "generated"
  BY DEF Column, Defaulted, Vector, Generated, Object

LEMMA ShapeOfOthers ==
    /\ \A t : LET o == Table(t) IN
          o.kind = "table" /\ o.table = t /\ o.name = t /\ o.on = <<>>
    /\ \A t, c : LET o == NotNull(t, c) IN
          o.kind = "not_null" /\ o.table = t /\ o.name = c
    /\ \A t, name, on : LET o == Index(t, name, on) IN
          o.kind = "index" /\ o.table = t /\ o.name = name
    /\ \A t, name, on : LET o == Gin(t, name, on) IN
          o.kind = "index" /\ o.table = t /\ o.name = name
    /\ \A t, name, on : LET o == Hnsw(t, name, on) IN
          o.kind = "index" /\ o.table = t /\ o.name = name
    /\ \A t, name, on : LET o == Unique(t, name, on) IN
          o.kind = "unique" /\ o.table = t /\ o.name = name
    /\ \A t, name, on, to, refs : LET o == ForeignKey(t, name, on, to, refs) IN
          o.kind = "foreign_key" /\ o.table = t /\ o.name = name
  BY DEF Table, NotNull, Index, Gin, Hnsw, Unique, ForeignKey, Object

LEMMA ShapeOfExtension ==
    /\ Extension.kind = "extension" /\ Extension.table = "" /\ Extension.on = <<>>
    /\ Extension.name = "vector"
  BY DEF Extension, Object

(* What a revision may create, drop and so on without ado. *)
LEMMA CreateIsFine ==
    ASSUME NEW new, NEW N,
           \A o \in new : Well(o),
           \A o \in new, p \in new : Same(o, p) => o = p,
           \A y \in new : y.kind = "column" /\ y.type \in {"plain", "vector"} =>
                              <<y.table, y.name>> \in N \/ Table(y.table) \in new
    PROVE  Fine(Create(new)) /\ Spares(Create(new)) /\ Fills(Create(new), N)
  BY DEF Create, Statement, Good, Fine, Spares, Fills, Kinds

LEMMA CreateOneIsFine ==
    ASSUME NEW o, Well(o), o.kind # "column"
    PROVE  Good(Create({o}))
  BY CreateIsFine DEF Good

LEMMA DropIsFine ==
    ASSUME NEW old, \A o \in old : o.kind \notin {"extension", "table"} /\ ~IsEmbedding(o)
    PROVE  Good(Drop(old))
  BY DEF Drop, Statement, Good, Fine, Spares, Fills, Kinds

LEMMA DropIfExistsIsFine ==
    ASSUME NEW o, o.kind \notin {"extension", "table", "column"}
    PROVE  /\ Good(DropIfExists({o}))
  BY DEF DropIfExists, Statement, Good, Fine, Spares, Fills, Kinds, IsEmbedding

LEMMA DropTableIsFine ==
    ASSUME NEW t, t # ""
    PROVE  /\ Fine(DropTable(t)) /\ (t # "passages" => Spares(DropTable(t)))
           /\ Fills(DropTable(t), {})
  <1> DEFINE s == DropTable(t)
  <1>1. s.do = "drop_table" /\ s.what = {Table(t)} /\ s = Statement(s.do, s.what)
    BY DEF DropTable, Statement
  <1>2. \A o \in s.what : o.table = t
    BY <1>1, ShapeOfOthers
  <1> HIDE DEF s
  <1>3. Fine(s) /\ (t # "passages" => Spares(s)) /\ Fills(s, {})
    BY <1>1, <1>2 DEF Fine, Spares, Fills, Kinds
  <1> QED BY <1>3 DEF s

LEMMA OthersAreFine ==
    ASSUME NEW t, NEW c, NEW w, t # "passages"
    PROVE  /\ Good(Truncate(t))
           /\ Good(Retype(t, c, w))
           /\ Well(Vector(t, c, w))
  <1>1. Well(Vector(t, c, w))
    BY ShapeOfColumns DEF Well, IsEmbedding
  <1> QED BY <1>1, ShapeOfColumns
          DEF Truncate, Retype, Statement, Good, Fine, Spares, Fills, Kinds, IsEmbedding

LEMMA BackfillIsFine ==
    ASSUME NEW t, NEW c
    PROVE  /\ Good(Backfill(t, c))
           /\ Backfill(t, c).do = "backfill" /\ Column(t, c) \in Backfill(t, c).what
  BY DEF Backfill, Statement, Good, Fine, Spares, Fills, Kinds

LEMMA WellMade ==
    /\ \A t, c, w, on : t # "passages" \/ c # "embedding" =>
          /\ Well(Column(t, c)) /\ Well(Defaulted(t, c)) /\ Well(Vector(t, c, w))
          /\ Well(Generated(t, c, on))
    /\ Well(Width)
    /\ \A t : Well(Table(t))
    /\ \A t, c : Well(NotNull(t, c))
    /\ \A t, name, on : Well(Index(t, name, on)) /\ Well(Gin(t, name, on))
    /\ \A t, name, on : Well(Hnsw(t, name, on)) /\ Well(Unique(t, name, on))
    /\ \A t, name, on, to, refs : Well(ForeignKey(t, name, on, to, refs))
  <1>1. ASSUME NEW t, NEW c, NEW w, NEW on, t # "passages" \/ c # "embedding"
        PROVE  /\ Well(Column(t, c)) /\ Well(Defaulted(t, c)) /\ Well(Vector(t, c, w))
               /\ Well(Generated(t, c, on))
    BY <1>1, ShapeOfColumns DEF Well, IsEmbedding
  <1>2. Well(Width)
    <2>1. Width.kind = "column" /\ Width.on = <<>>
      BY ShapeOfColumns DEF Width
    <2> QED BY <2>1 DEF Well
  <1>3. ASSUME NEW o, o.kind \notin {"column", "extension"} PROVE Well(o)
    BY <1>3 DEF Well, IsEmbedding
  <1>4. \A t : Well(Table(t))
    BY <1>3, ShapeOfOthers
  <1>5. \A t, c : Well(NotNull(t, c))
    BY <1>3, ShapeOfOthers
  <1>6. \A t, name, on : Well(Index(t, name, on)) /\ Well(Gin(t, name, on))
    BY <1>3, ShapeOfOthers
  <1>7. \A t, name, on : Well(Hnsw(t, name, on)) /\ Well(Unique(t, name, on))
    BY <1>3, ShapeOfOthers
  <1>8. \A t, name, on, to, refs : Well(ForeignKey(t, name, on, to, refs))
    BY <1>3, ShapeOfOthers
  <1> QED BY <1>1, <1>2, <1>4, <1>5, <1>6, <1>7, <1>8

LEMMA CreateTableIsFine ==
    ASSUME NEW t, NEW columns, NEW nullable, NEW others,
           \A x \in columns : x.kind = "column" /\ x.table = t /\ Well(x),
           \A x \in columns, y \in columns : x.name = y.name => x = y,
           \A x \in others : Well(x) /\ x.kind # "table" /\ x.table = t
                             /\ (x.kind = "unique" => x.name # "pkey"),
           \A x \in others, y \in others \union columns : Same(x, y) => x = y,
           \A x \in others : x.kind = "not_null" => x = NotNull(t, x.name)
    PROVE  LET s == CreateTable(t, columns, nullable, others) IN
           /\ Good(s)
           /\ s.do = "create" /\ columns \subseteq s.what
  <1> DEFINE made == {NotNull(t, c.name) : c \in {x \in columns : x.name \notin nullable}}
             new == {Table(t), Unique(t, "pkey", <<"id">>)} \union columns
                        \union others \union made
  <1>1. CreateTable(t, columns, nullable, others) = Create(new)
    BY DEF CreateTable
  <1>2. ASSUME NEW m \in made
        PROVE  m.kind = "not_null" /\ m.table = t /\ m = NotNull(t, m.name) /\ Well(m)
    <2>1. PICK c \in columns : m = NotNull(t, c.name)
      OBVIOUS
    <2>2. m.kind = "not_null" /\ m.table = t /\ m.name = c.name
      BY <2>1 DEF NotNull, Object
    <2>3. Well(m)
      BY <2>1, WellMade
    <2> QED BY <2>1, <2>2, <2>3
  <1>3. /\ Table(t).kind = "table" /\ Table(t).table = t /\ Well(Table(t))
        /\ Unique(t, "pkey", <<"id">>).kind = "unique"
        /\ Unique(t, "pkey", <<"id">>).name = "pkey" /\ Well(Unique(t, "pkey", <<"id">>))
        /\ Unique(t, "pkey", <<"id">>).table = t
    <2>1. Table(t).kind = "table" /\ Table(t).table = t
      BY ShapeOfOthers, Zenon
    <2>2. /\ Unique(t, "pkey", <<"id">>).kind = "unique"
          /\ Unique(t, "pkey", <<"id">>).name = "pkey"
          /\ Unique(t, "pkey", <<"id">>).table = t
      BY DEF Unique, Object
    <2>3. Well(Table(t)) /\ Well(Unique(t, "pkey", <<"id">>))
      BY WellMade, Zenon
    <2> QED BY <2>1, <2>2, <2>3
  <1> HIDE DEF made
  <1>4. \A o \in new : Well(o) /\ o.table = t
    BY <1>2, <1>3
  <1>5. \A o \in new, p \in new : Same(o, p) => o = p
    <2> SUFFICES ASSUME NEW o \in new, NEW p \in new, Same(o, p) PROVE o = p
      OBVIOUS
    <2>0. o.kind = p.kind /\ o.table = p.table /\ o.name = p.name
      BY DEF Same
    <2>1. CASE o \in others \/ p \in others
      BY <2>0, <2>1, <1>2, <1>3 DEF Same
    <2>2. CASE o \in made \/ p \in made
      BY <2>0, <2>1, <2>2, <1>2, <1>3
    <2>3. CASE o \in columns \/ p \in columns
      BY <2>0, <2>1, <2>2, <2>3, <1>3
    <2> QED BY <2>0, <2>1, <2>2, <2>3, <1>3
  <1>6. Table(t) \in new /\ columns \subseteq new
    OBVIOUS
  <1> HIDE DEF new
  <1>7. Good(Create(new))
    BY <1>4, <1>5, <1>6, CreateIsFine DEF Good
  <1>8. Create(new).do = "create" /\ Create(new).what = new
    BY DEF Create, Statement
  <1> QED BY <1>1, <1>6, <1>7, <1>8

-----------------------------------------------------------------------------
(* The revisions. *)

LEMMA ColumnsAreFine ==
    ASSUME NEW t, NEW names, t # "passages" \/ "embedding" \notin names
    PROVE  \A x \in Plain(t, names) :
               /\ x = Column(t, x.name) /\ x.kind = "column" /\ x.table = t
               /\ x.name \in names /\ Well(x)
  <1> SUFFICES ASSUME NEW c \in names
               PROVE  LET x == Column(t, c) IN
                      /\ x = Column(t, x.name) /\ x.kind = "column" /\ x.table = t
                      /\ x.name \in names /\ Well(x)
    BY DEF Plain
  <1>1. Column(t, c).kind = "column" /\ Column(t, c).table = t /\ Column(t, c).name = c
    BY DEF Column, Object
  <1>2. Well(Column(t, c))
    BY WellMade
  <1> QED BY <1>1, <1>2

LEMMA CreateColumnIsFine ==
    ASSUME NEW t, NEW c, t # "passages" \/ c # "embedding"
    PROVE  /\ Fine(Create({Column(t, c)})) /\ Spares(Create({Column(t, c)}))
           /\ Fills(Create({Column(t, c)}), {<<t, c>>})
  <1>1. Column(t, c).table = t /\ Column(t, c).name = c
    BY DEF Column, Object
  <1>2. Well(Column(t, c))
    BY WellMade
  <1> QED BY <1>1, <1>2, CreateIsFine

LEMMA IndexesAreFine ==
    \A o \in {LearningsHnsw, RepoNameIndex, ClientNameIndex, FilePathIndex, CompositeIndex,
             ClientNoteIndex, TsvIndex, PassagesHnsw} :
        Good(Create({o})) /\ Good(Drop({o})) /\ Good(DropIfExists({o}))
  <1>1. ASSUME NEW o, o.kind = "index"
        PROVE  Good(Create({o})) /\ Good(Drop({o})) /\ Good(DropIfExists({o}))
    <2>1. Well(o) /\ ~IsEmbedding(o)
      BY <1>1 DEF Well, IsEmbedding
    <2> QED BY <1>1, <2>1, CreateOneIsFine, DropIsFine, DropIfExistsIsFine
  <1>2. /\ LearningsHnsw.kind = "index" /\ RepoNameIndex.kind = "index"
        /\ ClientNameIndex.kind = "index" /\ FilePathIndex.kind = "index"
        /\ CompositeIndex.kind = "index" /\ ClientNoteIndex.kind = "index"
        /\ TsvIndex.kind = "index" /\ PassagesHnsw.kind = "index"
    BY DEF LearningsHnsw, RepoNameIndex, ClientNameIndex, FilePathIndex, CompositeIndex,
       ClientNoteIndex, TsvIndex, PassagesHnsw, Hnsw, Gin, Index, Object
  <1> QED BY <1>1, <1>2

LEMMA ResizeFacts ==
    ASSUME NEW n \in {2, 8}, NEW revision, NEW w1, NEW w2,
           revision = [up |-> Resize("learnings", LearningsHnsw, w1),
                       down |-> Resize("learnings", LearningsHnsw, w2)]
    PROVE  RevisionFacts(revision, n)
  <1>2. ASSUME NEW w
        PROVE  LET s == Resize("learnings", LearningsHnsw, w) IN
               /\ Len(s) = 4
               /\ \A i \in 1..4 : Good(s[i])
    <2>1. /\ Good(Truncate("learnings"))
          /\ Good(Retype("learnings", "embedding", w))
      BY OthersAreFine
    <2>2. Good(DropIfExists({LearningsHnsw})) /\ Good(Create({LearningsHnsw}))
      BY IndexesAreFine
    <2> QED BY <2>1, <2>2 DEF Resize
  <1>3. Missing(n) = {}
    BY DEF Missing
  <1> QED BY <1>2, <1>3 DEF RevisionFacts, Good

LEMMA CreateLearningsFacts == RevisionFacts(CreateLearnings, 1)
  <1> DEFINE columns == Plain("learnings", {"id", "repo_name", "file_path", "content",
                                            "metadata"})
                        \union {Vector("learnings", "embedding", 1024)}
  <1>1. \A x \in Plain("learnings", {"id", "repo_name", "file_path", "content", "metadata"}) :
            /\ x = Column("learnings", x.name) /\ x.kind = "column" /\ x.table = "learnings"
            /\ x.name \in {"id", "repo_name", "file_path", "content", "metadata"} /\ Well(x)
    BY ColumnsAreFine
  <1>2. LET x == Vector("learnings", "embedding", 1024) IN
        x.kind = "column" /\ x.table = "learnings" /\ x.name = "embedding" /\ Well(x)
    <2>1. LET x == Vector("learnings", "embedding", 1024) IN
          x.kind = "column" /\ x.table = "learnings" /\ x.name = "embedding"
      BY DEF Vector, Column, Object
    <2> QED BY <2>1, WellMade
  <1>3. LET s == CreateTable("learnings", columns, {}, {}) IN
        Good(s)
    <2>1. \A x \in columns : x.kind = "column" /\ x.table = "learnings" /\ Well(x)
      BY <1>1, <1>2
    <2>2. \A x \in columns, y \in columns : x.name = y.name => x = y
      BY <1>1, <1>2
    <2> HIDE DEF columns
    <2> QED BY <2>1, <2>2, CreateTableIsFine
  <1>6. Good(CreateIfAbsent({Extension}))
    <2>1. Well(Extension)
      BY ShapeOfExtension DEF Well, IsEmbedding
    <2> QED BY <2>1 DEF CreateIfAbsent, Statement, Good, Fine, Spares, Fills, Kinds
  <1>7. /\ Good(Create({RepoNameIndex})) /\ Good(Drop({RepoNameIndex}))
        /\ Good(Create({LearningsHnsw})) /\ Good(DropIfExists({LearningsHnsw}))
    BY IndexesAreFine
  <1>11. Good(DropTable("learnings"))
    BY DropTableIsFine DEF Good
  <1>12. Missing(1) = {}
    BY DEF Missing
  <1>13. /\ CreateLearnings.up = <<CreateIfAbsent({Extension}),
                                   CreateTable("learnings", columns, {}, {}),
                                   Create({RepoNameIndex}), Create({LearningsHnsw})>>
         /\ CreateLearnings.down = <<DropIfExists({LearningsHnsw}), Drop({RepoNameIndex}),
                                     DropTable("learnings")>>
    BY DEF CreateLearnings
  <1> HIDE DEF columns
  <1> QED BY <1>3, <1>6, <1>7, <1>11, <1>12, <1>13 DEF RevisionFacts, Good

LEMMA SwitchDimensionFacts == RevisionFacts(SwitchDimension, 2)
  BY ResizeFacts DEF SwitchDimension

LEMMA RestoreDimensionFacts == RevisionFacts(RestoreDimension, 8)
  BY ResizeFacts DEF RestoreDimension

LEMMA DropColumnIsFine ==
    ASSUME NEW t, NEW c, t # "passages" \/ c # "embedding"
    PROVE  Good(Drop({Column(t, c)}))
  <1>1. /\ Column(t, c).kind = "column" /\ Column(t, c).table = t /\ Column(t, c).name = c
    BY DEF Column, Object
  <1> QED BY <1>1, DropIsFine DEF IsEmbedding

LEMMA AddApiKeysFacts == RevisionFacts(AddApiKeys, 3)
  <1> DEFINE names == {"id", "key_prefix", "key_hash", "client_name", "revoked_at"}
             columns == Plain("api_keys", names) \union {Defaulted("api_keys", "created_at")}
             others == {Unique("api_keys", "key_hash", <<"key_hash">>)}
  <1>1. \A x \in Plain("api_keys", names) :
            /\ x = Column("api_keys", x.name) /\ x.kind = "column" /\ x.table = "api_keys"
            /\ x.name \in names /\ Well(x)
    BY ColumnsAreFine
  <1>2. LET x == Defaulted("api_keys", "created_at") IN
        x.kind = "column" /\ x.table = "api_keys" /\ x.name = "created_at" /\ Well(x)
    <2>1. LET x == Defaulted("api_keys", "created_at") IN
          x.kind = "column" /\ x.table = "api_keys" /\ x.name = "created_at"
      BY DEF Defaulted, Column, Object
    <2> QED BY <2>1, WellMade
  <1>3. \A x \in others : /\ x.kind = "unique" /\ x.table = "api_keys"
                          /\ x.name = "key_hash" /\ Well(x)
    <2>1. LET x == Unique("api_keys", "key_hash", <<"key_hash">>) IN
          x.kind = "unique" /\ x.table = "api_keys" /\ x.name = "key_hash"
      BY DEF Unique, Object
    <2> QED BY <2>1 DEF Well, IsEmbedding
  <1>4. Good(CreateTable("api_keys", columns, {"revoked_at"}, others))
    <2>1. \A x \in columns : x.kind = "column" /\ x.table = "api_keys" /\ Well(x)
      BY <1>1, <1>2
    <2>2. \A x \in columns, y \in columns : x.name = y.name => x = y
      BY <1>1, <1>2
    <2>3. \A x \in others, y \in others : x = y
      OBVIOUS
    <2> HIDE DEF columns, others
    <2>4. \A x \in others, y \in others \union columns : Same(x, y) => x = y
      BY <1>3, <2>1, <2>3 DEF Same
    <2> QED BY <1>3, <2>1, <2>2, <2>4, CreateTableIsFine
  <1>5. Good(DropTable("api_keys"))
    BY DropTableIsFine DEF Good
  <1>6. Missing(3) = {}
    BY DEF Missing
  <1>7. /\ AddApiKeys.up = <<CreateTable("api_keys", columns, {"revoked_at"}, others)>>
        /\ AddApiKeys.down = <<DropTable("api_keys")>>
    BY DEF AddApiKeys
  <1> HIDE DEF columns, others
  <1> QED BY <1>4, <1>5, <1>6, <1>7 DEF RevisionFacts, Good

LEMMA AddClientNameFacts == RevisionFacts(AddClientName, 4)
  <1>1. /\ Fine(Create({Column("learnings", "client_name")}))
        /\ Spares(Create({Column("learnings", "client_name")}))
        /\ Fills(Create({Column("learnings", "client_name")}), {<<"learnings", "client_name">>})
    BY CreateColumnIsFine
  <1>2. /\ Good(Backfill("learnings", "client_name"))
        /\ Backfill("learnings", "client_name").do = "backfill"
        /\ Column("learnings", "client_name") \in Backfill("learnings", "client_name").what
    BY BackfillIsFine
  <1>3. Good(Create({NotNull("learnings", "client_name")}))
    <2>1. NotNull("learnings", "client_name").kind = "not_null"
      BY DEF NotNull, Object
    <2> QED BY <2>1, WellMade, CreateOneIsFine
  <1>4. Good(Create({ClientNameIndex})) /\ Good(Drop({ClientNameIndex}))
    BY IndexesAreFine
  <1>5. Good(Drop({Column("learnings", "client_name")}))
    BY DropColumnIsFine
  <1>6. Missing(4) = {<<"learnings", "client_name">>}
    BY DEF Missing
  <1>7. \A x \in Missing(4) : Column(x[1], x[2]) = Column("learnings", "client_name")
    BY <1>6
  <1>8. /\ AddClientName.up = <<Create({Column("learnings", "client_name")}),
                                Backfill("learnings", "client_name"),
                                Create({NotNull("learnings", "client_name")}),
                                Create({ClientNameIndex})>>
        /\ AddClientName.down = <<Drop({ClientNameIndex}),
                                  Drop({Column("learnings", "client_name")})>>
    BY DEF AddClientName
  <1> QED BY <1>1, <1>2, <1>3, <1>4, <1>5, <1>6, <1>7, <1>8 DEF RevisionFacts, Good

LEMMA AddTimestampsFacts == RevisionFacts(AddTimestamps, 5)
  <1>1. ASSUME NEW c PROVE Good(Create(DefaultedNotNull("learnings", c)))
    <2>1. /\ Defaulted("learnings", c).kind = "column" /\ Defaulted("learnings", c).type = "default"
          /\ NotNull("learnings", c).kind = "not_null"
      BY DEF Defaulted, Column, NotNull, Object
    <2>2. Well(Defaulted("learnings", c)) /\ Well(NotNull("learnings", c))
      BY WellMade
    <2> QED BY <2>1, <2>2, CreateIsFine DEF DefaultedNotNull, Same, Good
  <1>2. /\ Good(Drop({Column("learnings", "updated_at")}))
        /\ Good(Drop({Column("learnings", "created_at")}))
    BY DropColumnIsFine
  <1>3. Missing(5) = {}
    BY DEF Missing
  <1> QED BY <1>1, <1>2, <1>3 DEF RevisionFacts, Good, AddTimestamps

LEMMA AddFilePathIndexFacts == RevisionFacts(AddFilePathIndex, 6)
  <1>1. Good(Create({FilePathIndex})) /\ Good(Drop({FilePathIndex}))
    BY IndexesAreFine
  <1>2. Missing(6) = {}
    BY DEF Missing
  <1> QED BY <1>1, <1>2 DEF RevisionFacts, Good, AddFilePathIndex

LEMMA CompositeLearningsIndexFacts == RevisionFacts(CompositeLearningsIndex, 7)
  <1>1. \A o \in {CompositeIndex, ClientNameIndex, RepoNameIndex, FilePathIndex} :
            Good(Create({o})) /\ Good(Drop({o}))
    BY IndexesAreFine
  <1>2. Missing(7) = {}
    BY DEF Missing
  <1> QED BY <1>1, <1>2 DEF RevisionFacts, Good, CompositeLearningsIndex

(* The two generated columns and their NOT NULL constraints. *)
LEMMA ChunkStatsAreFine ==
    /\ \A x \in ChunkStats :
          /\ x.table = "learnings" /\ Well(x)
          /\ \/ x.kind = "column" /\ x.type = "generated"
             \/ x.kind = "not_null" /\ x = NotNull("learnings", x.name)
          /\ x.name \in {"embedding_degenerate", "content_chars"}
    /\ \A x \in ChunkStats, y \in ChunkStats : Same(x, y) => x = y
    /\ EmbeddingDegenerate("learnings") \in ChunkStats /\ ContentChars \in ChunkStats
    /\ EmbeddingDegenerate("learnings").kind = "column" /\ ContentChars.kind = "column"
  <1>1. LET o == EmbeddingDegenerate("learnings") IN
        /\ o.table = "learnings" /\ o.kind = "column" /\ o.type = "generated"
        /\ o.name = "embedding_degenerate"
    BY DEF EmbeddingDegenerate, Generated, Object
  <1>2. LET o == ContentChars IN
        /\ o.table = "learnings" /\ o.kind = "column" /\ o.type = "generated"
        /\ o.name = "content_chars"
    BY DEF ContentChars, Generated, Object
  <1>3. /\ LET o == NotNull("learnings", "embedding_degenerate") IN
           o.table = "learnings" /\ o.kind = "not_null" /\ o.name = "embedding_degenerate"
        /\ LET o == NotNull("learnings", "content_chars") IN
           o.table = "learnings" /\ o.kind = "not_null" /\ o.name = "content_chars"
    BY DEF NotNull, Object
  <1>4. \A x \in ChunkStats :
            /\ x.table = "learnings"
            /\ \/ x.kind = "column" /\ x.type = "generated"
               \/ x.kind = "not_null" /\ x = NotNull("learnings", x.name)
            /\ x.name \in {"embedding_degenerate", "content_chars"}
    BY <1>1, <1>2, <1>3 DEF ChunkStats
  <1>5. \A x \in ChunkStats : Well(x)
    BY <1>4 DEF Well, IsEmbedding
  <1>6. \A x \in ChunkStats, y \in ChunkStats : Same(x, y) => x = y
    BY ZenonT(60), <1>1, <1>2, <1>3 DEF ChunkStats, Same
  <1> QED BY <1>1, <1>2, <1>4, <1>5, <1>6 DEF ChunkStats

LEMMA AddStoredChunkStatsFacts == RevisionFacts(AddStoredChunkStats, 9)
  <1>1. Good(Create(ChunkStats))
    BY ChunkStatsAreFine, CreateIsFine DEF Good
  <1>2. Good(Drop({ContentChars, EmbeddingDegenerate("learnings")}))
    BY ChunkStatsAreFine, DropIsFine DEF IsEmbedding
  <1>3. Missing(9) = {}
    BY DEF Missing
  <1> QED BY <1>1, <1>2, <1>3 DEF RevisionFacts, Good, AddStoredChunkStats

LEMMA CreateNotesFacts ==
    LET optional == {"name", "description", "type", "provenance_kind", "status",
                     "provenance_date"}
        s == CreateTable("notes",
                 Plain("notes", {"id", "client_name", "path_or_uri", "content_hash",
                                 "pipeline_version", "body"} \union optional)
                 \union {Defaulted("notes", c) :
                            c \in {"scope", "meta", "created_at", "updated_at"}},
                 optional,
                 {NotesIdClient, Unique("notes", "uq_notes_client_scope_path",
                                        <<"client_name", "scope", "path_or_uri">>)})
    IN  Good(s)
  <1> DEFINE optional == {"name", "description", "type", "provenance_kind", "status",
                          "provenance_date"}
             names == {"id", "client_name", "path_or_uri", "content_hash",
                       "pipeline_version", "body"} \union optional
             defaults == {"scope", "meta", "created_at", "updated_at"}
             columns == Plain("notes", names) \union {Defaulted("notes", c) : c \in defaults}
             path == Unique("notes", "uq_notes_client_scope_path",
                            <<"client_name", "scope", "path_or_uri">>)
             others == {NotesIdClient, path}
  <1>1. \A x \in Plain("notes", names) :
            /\ x = Column("notes", x.name) /\ x.kind = "column" /\ x.table = "notes"
            /\ x.name \in names /\ Well(x)
    BY ColumnsAreFine
  <1>2. ASSUME NEW x \in {Defaulted("notes", c) : c \in defaults}
        PROVE  /\ x = Defaulted("notes", x.name) /\ x.kind = "column" /\ x.table = "notes"
               /\ x.name \in defaults /\ Well(x)
    <2>1. PICK c \in defaults : x = Defaulted("notes", c)
      OBVIOUS
    <2>2. x.kind = "column" /\ x.table = "notes" /\ x.name = c
      BY <2>1 DEF Defaulted, Column, Object
    <2>3. Well(x)
      BY <2>1, WellMade
    <2> QED BY <2>1, <2>2, <2>3
  <1>3. /\ NotesIdClient.kind = "unique" /\ NotesIdClient.table = "notes"
        /\ NotesIdClient.name = "uq_notes_id_client"
        /\ path.kind = "unique" /\ path.table = "notes"
        /\ path.name = "uq_notes_client_scope_path"
    BY DEF NotesIdClient, Unique, Object
  <1>4. names \intersect defaults = {}
    OBVIOUS
  <1> HIDE DEF names, defaults, path
  <1>5. \A x \in columns : x.kind = "column" /\ x.table = "notes" /\ Well(x)
    BY <1>1, <1>2
  <1>6. \A x \in columns, y \in columns : x.name = y.name => x = y
    BY <1>1, <1>2, <1>4
  <1>7. \A x \in others : /\ x.kind = "unique" /\ x.table = "notes"
                          /\ x.name # "pkey" /\ Well(x)
    BY <1>3 DEF Well, IsEmbedding
  <1>8. \A x \in others, y \in others : Same(x, y) => x = y
    BY <1>3 DEF Same
  <1> HIDE DEF columns, others
  <1>9. \A x \in others, y \in others \union columns : Same(x, y) => x = y
    BY <1>5, <1>7, <1>8 DEF Same
  <1>10. Good(CreateTable("notes", columns, optional, others))
    BY <1>5, <1>6, <1>7, <1>9, CreateTableIsFine
  <1> QED BY <1>10 DEF columns, others, names, defaults, path

LEMMA CreatePassagesFacts ==
    LET s == CreateTable("passages",
                 Plain("passages", {"id", "note_id", "client_name", "ordinal",
                                    "heading_path", "content", "tsv"})
                 \union {Vector("passages", "embedding", 1024)},
                 {"heading_path"},
                 {NoteOfClient, Unique("passages", "uq_passages_note_ordinal",
                                       <<"note_id", "ordinal">>)})
    IN  Good(s) /\ s.do = "create" /\ Width \in s.what
  <1> DEFINE names == {"id", "note_id", "client_name", "ordinal", "heading_path",
                       "content", "tsv"}
             columns == Plain("passages", names) \union {Vector("passages", "embedding", 1024)}
             ordinal == Unique("passages", "uq_passages_note_ordinal", <<"note_id", "ordinal">>)
             others == {NoteOfClient, ordinal}
  <1>1. \A x \in Plain("passages", names) :
            /\ x = Column("passages", x.name) /\ x.kind = "column" /\ x.table = "passages"
            /\ x.name \in names /\ Well(x)
    BY ColumnsAreFine
  <1>2. LET x == Vector("passages", "embedding", 1024) IN
        /\ x.kind = "column" /\ x.table = "passages" /\ x.name = "embedding"
        /\ Well(x) /\ x = Width
    <2>1. LET x == Vector("passages", "embedding", 1024) IN
          x.kind = "column" /\ x.table = "passages" /\ x.name = "embedding"
      BY DEF Vector, Column, Object
    <2> QED BY <2>1, WellMade DEF Width
  <1>3. /\ NoteOfClient.kind = "foreign_key" /\ NoteOfClient.table = "passages"
        /\ ordinal.kind = "unique" /\ ordinal.table = "passages"
        /\ ordinal.name = "uq_passages_note_ordinal"
    BY DEF NoteOfClient, ForeignKey, Unique, Object
  <1>4. "embedding" \notin names
    OBVIOUS
  <1> HIDE DEF names, ordinal
  <1>5. \A x \in columns : x.kind = "column" /\ x.table = "passages" /\ Well(x)
    BY <1>1, <1>2
  <1>6. \A x \in columns, y \in columns : x.name = y.name => x = y
    BY <1>1, <1>2, <1>4
  <1>7. \A x \in others : /\ x.kind \in {"foreign_key", "unique"} /\ x.table = "passages"
                          /\ (x.kind = "unique" => x.name # "pkey") /\ Well(x)
    BY <1>3 DEF Well, IsEmbedding
  <1>8. \A x \in others, y \in others : Same(x, y) => x = y
    BY <1>3 DEF Same
  <1>9. Width \in columns
    BY <1>2
  <1> HIDE DEF columns, others
  <1>10. \A x \in others, y \in others \union columns : Same(x, y) => x = y
    BY <1>5, <1>7, <1>8 DEF Same
  <1>11. LET s == CreateTable("passages", columns, {"heading_path"}, others) IN
         Good(s) /\ s.do = "create" /\ Width \in s.what
    <2>1. \A x \in others : x.kind = "not_null" => x = NotNull("passages", x.name)
      BY <1>7
    <2>2. \A x \in others : Well(x) /\ x.kind # "table" /\ x.table = "passages"
                            /\ (x.kind = "unique" => x.name # "pkey")
      BY <1>7
    <2>3. LET s == CreateTable("passages", columns, {"heading_path"}, others) IN
          Good(s) /\ s.do = "create" /\ columns \subseteq s.what
      BY ZenonT(60), <1>5, <1>6, <1>10, <2>1, <2>2, CreateTableIsFine
    <2> QED BY <1>9, <2>3
  <1> QED BY <1>11 DEF columns, others, names, ordinal

LEMMA CreateNotesAndPassagesFacts == RevisionFacts(CreateNotesAndPassages, 10)
  <1>1. PICK notes, passages :
            /\ Good(notes) /\ Good(passages)
            /\ passages.do = "create" /\ Width \in passages.what
            /\ CreateNotesAndPassages.up =
                  <<notes, passages, Create({ClientNoteIndex}), Create({TsvIndex}),
                    Create({PassagesHnsw})>>
    BY ZenonT(60), CreateNotesFacts, CreatePassagesFacts DEF CreateNotesAndPassages
  <1>2. CreateNotesAndPassages.down =
            <<DropIfExists({PassagesHnsw}), DropIfExists({TsvIndex}),
              Drop({ClientNoteIndex}), DropTable("passages"), DropTable("notes")>>
    BY DEF CreateNotesAndPassages
  <1>3. \A o \in {ClientNoteIndex, TsvIndex, PassagesHnsw} :
            Good(Create({o})) /\ Good(Drop({o})) /\ Good(DropIfExists({o}))
    BY IndexesAreFine
  <1>4. /\ Fine(DropTable("passages")) /\ Fills(DropTable("passages"), {})
        /\ Good(DropTable("notes"))
    BY DropTableIsFine DEF Good
  <1>5. Missing(10) = {}
    BY DEF Missing
  <1> QED BY <1>1, <1>2, <1>3, <1>4, <1>5 DEF RevisionFacts, Good

LEMMA AddPassageScopeFacts == RevisionFacts(AddPassageScope, 11)
  <1>1. LET s == Create({Column("passages", "scope")}) IN
        Fine(s) /\ Spares(s) /\ Fills(s, {<<"passages", "scope">>})
    BY CreateColumnIsFine
  <1>2. LET s == Backfill("passages", "scope") IN
        Good(s) /\ s.do = "backfill" /\ Column("passages", "scope") \in s.what
    BY BackfillIsFine
  <1>3. LET o == EmbeddingDegenerate("passages") IN
        /\ o.kind = "column" /\ o.type = "generated" /\ o.name = "embedding_degenerate"
        /\ Well(o)
    <2>1. LET o == EmbeddingDegenerate("passages") IN
          o.kind = "column" /\ o.type = "generated" /\ o.name = "embedding_degenerate"
      BY DEF EmbeddingDegenerate, Generated, Object
    <2> QED BY <2>1 DEF Well, IsEmbedding
  <1>4. Good(Create({NotNull("passages", "scope"), EmbeddingDegenerate("passages"),
                     NotNull("passages", "embedding_degenerate")}))
    <2> DEFINE a == NotNull("passages", "scope")
               b == NotNull("passages", "embedding_degenerate")
               e == EmbeddingDegenerate("passages")
    <2>1. /\ a.kind = "not_null" /\ a.name = "scope"
          /\ b.kind = "not_null" /\ b.name = "embedding_degenerate"
      BY DEF NotNull, Object
    <2>2. Well(a) /\ Well(b)
      BY WellMade
    <2> HIDE DEF a, b, e
    <2>3. e.kind = "column" /\ e.type = "generated" /\ Well(e)
      BY <1>3 DEF e
    <2>4. Good(Create({a, e, b}))
      BY <2>1, <2>2, <2>3, CreateIsFine DEF Same, Good
    <2> QED BY <2>4 DEF a, b, e
  <1>5. /\ NotesIdClientScope.kind = "unique" /\ NotesIdClient.kind = "unique"
        /\ NoteOfClient.kind = "foreign_key" /\ NoteOfClientScope.kind = "foreign_key"
    BY DEF NotesIdClientScope, NotesIdClient, NoteOfClient, NoteOfClientScope, Unique,
       ForeignKey, Object
  <1>6. \A o \in {NotesIdClientScope, NotesIdClient, NoteOfClient, NoteOfClientScope} :
            Good(Create({o})) /\ Good(Drop({o}))
    <2>1. \A o \in {NotesIdClientScope, NotesIdClient, NoteOfClient, NoteOfClientScope} :
              Well(o) /\ ~IsEmbedding(o)
      BY <1>5 DEF Well, IsEmbedding
    <2> QED BY <1>5, <2>1, CreateOneIsFine, DropIsFine
  <1>7. Good(Drop({EmbeddingDegenerate("passages"), Column("passages", "scope")}))
    <2>1. LET o == Column("passages", "scope") IN o.kind = "column" /\ o.name = "scope"
      BY DEF Column, Object
    <2> QED BY <1>3, <2>1, DropIsFine DEF IsEmbedding
  <1>8. Missing(11) = {<<"passages", "scope">>}
    BY DEF Missing
  <1>9. \A x \in Missing(11) : Column(x[1], x[2]) = Column("passages", "scope")
    BY <1>8
  <1>10. /\ AddPassageScope.up =
                <<Create({Column("passages", "scope")}), Backfill("passages", "scope"),
                  Create({NotNull("passages", "scope"), EmbeddingDegenerate("passages"),
                          NotNull("passages", "embedding_degenerate")}),
                  Create({NotesIdClientScope}), Drop({NoteOfClient}),
                  Create({NoteOfClientScope}), Drop({NotesIdClient})>>
         /\ AddPassageScope.down =
                <<Create({NotesIdClient}), Drop({NoteOfClientScope}),
                  Create({NoteOfClient}), Drop({NotesIdClientScope}),
                  Drop({EmbeddingDegenerate("passages"), Column("passages", "scope")})>>
    BY DEF AddPassageScope
  <1> QED BY <1>1, <1>2, <1>4, <1>6, <1>7, <1>8, <1>9, <1>10 DEF RevisionFacts, Good

LEMMA DropLearningsFacts == RevisionFacts(DropLearnings, 12)
  <1> DEFINE names == {"id", "repo_name", "file_path", "content", "metadata", "client_name"}
             plain == Plain("learnings", names)
             columns == plain \union {Vector("learnings", "embedding", 1024),
                                      Defaulted("learnings", "created_at"),
                                      Defaulted("learnings", "updated_at")}
  <1>1. \A x \in plain : /\ x = Column("learnings", x.name) /\ x.kind = "column"
                         /\ x.table = "learnings" /\ x.name \in names /\ Well(x)
    BY ColumnsAreFine
  <1>2. LET x == Vector("learnings", "embedding", 1024) IN
        x.kind = "column" /\ x.table = "learnings" /\ x.name = "embedding" /\ Well(x)
    <2>1. LET x == Vector("learnings", "embedding", 1024) IN
          x.kind = "column" /\ x.table = "learnings" /\ x.name = "embedding"
      BY DEF Vector, Column, Object
    <2> QED BY <2>1, WellMade
  <1>3. /\ LET x == Defaulted("learnings", "created_at") IN
           x.kind = "column" /\ x.table = "learnings" /\ x.name = "created_at" /\ Well(x)
        /\ LET x == Defaulted("learnings", "updated_at") IN
           x.kind = "column" /\ x.table = "learnings" /\ x.name = "updated_at" /\ Well(x)
    <2>1. /\ LET x == Defaulted("learnings", "created_at") IN
             x.kind = "column" /\ x.table = "learnings" /\ x.name = "created_at"
          /\ LET x == Defaulted("learnings", "updated_at") IN
             x.kind = "column" /\ x.table = "learnings" /\ x.name = "updated_at"
      BY DEF Defaulted, Column, Object
    <2> QED BY <2>1, WellMade
  <1>4. {"embedding", "created_at", "updated_at"} \intersect names = {}
    OBVIOUS
  <1>5. {"embedding_degenerate", "content_chars"}
            \intersect (names \union {"embedding", "created_at", "updated_at"}) = {}
    OBVIOUS
  <1> HIDE DEF names, plain
  <1>6. \A x \in columns : /\ x.kind = "column" /\ x.table = "learnings" /\ Well(x)
                           /\ x.name \in names \union {"embedding", "created_at", "updated_at"}
    BY <1>1, <1>2, <1>3
  <1>7. \A x \in columns, y \in columns : x.name = y.name => x = y
    BY <1>1, <1>2, <1>3, <1>4
  <1> HIDE DEF columns
  <1>8. \A x \in ChunkStats, y \in ChunkStats \union columns : Same(x, y) => x = y
    BY <1>5, <1>6, ChunkStatsAreFine DEF Same
  <1>9. /\ \A x \in ChunkStats : Well(x) /\ x.kind # "table" /\ x.table = "learnings"
                                 /\ (x.kind = "unique" => x.name # "pkey")
        /\ \A x \in ChunkStats : x.kind = "not_null" => x = NotNull("learnings", x.name)
    BY ChunkStatsAreFine
  <1>10. Good(CreateTable("learnings", columns, {}, ChunkStats))
    BY <1>6, <1>7, <1>8, <1>9, CreateTableIsFine
  <1>11. \A o \in {CompositeIndex, LearningsHnsw} : Good(Create({o}))
    BY IndexesAreFine
  <1>12. Good(DropTable("learnings"))
    BY DropTableIsFine DEF Good
  <1>13. Missing(12) = {}
    BY DEF Missing
  <1>14. /\ DropLearnings.up = <<DropTable("learnings")>>
         /\ DropLearnings.down = <<CreateTable("learnings", columns, {}, ChunkStats),
                                   Create({CompositeIndex}), Create({LearningsHnsw})>>
    BY DEF DropLearnings, columns, plain, names
  <1> QED BY <1>10, <1>11, <1>12, <1>13, <1>14 DEF RevisionFacts, Good

LEMMA ChainFacts ==
    HeadRevision = 12 /\ \A n \in 1..12 : RevisionFacts(Chain[n], n)
  <1>1. /\ Len(Chain) = 12
        /\ Chain[1] = CreateLearnings /\ Chain[2] = SwitchDimension
        /\ Chain[3] = AddApiKeys /\ Chain[4] = AddClientName
        /\ Chain[5] = AddTimestamps /\ Chain[6] = AddFilePathIndex
        /\ Chain[7] = CompositeLearningsIndex /\ Chain[8] = RestoreDimension
        /\ Chain[9] = AddStoredChunkStats /\ Chain[10] = CreateNotesAndPassages
        /\ Chain[11] = AddPassageScope /\ Chain[12] = DropLearnings
    BY DEF Chain
  <1>2. ASSUME NEW n \in 1..12
        PROVE  n \in {1, 2, 3, 4, 5, 6, 7, 8, 9, 10, 11, 12}
    OBVIOUS
  <1>3. ASSUME NEW n \in {1, 2, 3, 4, 5, 6, 7, 8, 9, 10, 11, 12}
        PROVE  RevisionFacts(Chain[n], n)
    BY <1>1, CreateLearningsFacts, SwitchDimensionFacts, AddApiKeysFacts,
       AddClientNameFacts, AddTimestampsFacts, AddFilePathIndexFacts,
       CompositeLearningsIndexFacts, RestoreDimensionFacts, AddStoredChunkStatsFacts,
       CreateNotesAndPassagesFacts, AddPassageScopeFacts, DropLearningsFacts
  <1> QED BY <1>1, <1>2, <1>3 DEF HeadRevision

-----------------------------------------------------------------------------
(* What a statement leaves of a database. *)

Filled(d, what) ==
    {n \in d.nulls : \A o \in what : ~Same(o, Column(n[1], n[2]))}

TablesIn(s) == {o.table : o \in s.what}

ObjectsAfter(d, s) ==
    IF s.do \in {"create", "create_if_absent"} THEN d.objects \union s.what
    ELSE IF s.do \in {"drop", "drop_if_exists"} THEN d.objects \ Gone(d, s.what)
    ELSE IF s.do = "drop_table" THEN {x \in d.objects : x.table \notin TablesIn(s)}
    ELSE IF s.do = "retype"
         THEN {x \in d.objects : \A o \in s.what : ~Same(x, o)} \union s.what
    ELSE d.objects

RowsAfter(d, s) ==
    IF s.do \in {"drop_table", "truncate"} THEN d.rows \ TablesIn(s) ELSE d.rows

NullsAfter(d, s) ==
    IF s.do = "create" THEN d.nulls \union NullsOf(d, s.what)
    ELSE IF s.do \in {"drop", "drop_if_exists", "backfill"} THEN Filled(d, s.what)
    ELSE IF s.do \in {"drop_table", "truncate"}
         THEN {n \in d.nulls : n[1] \notin TablesIn(s)}
    ELSE d.nulls

LEMMA EffectOf ==
    ASSUME NEW d, NEW s, d = [objects |-> d.objects, rows |-> d.rows, nulls |-> d.nulls],
           s.do \in Kinds
    PROVE  /\ Effect(d, s) = [objects |-> ObjectsAfter(d, s), rows |-> RowsAfter(d, s),
                              nulls |-> NullsAfter(d, s)]
           /\ Effect(d, s).objects = ObjectsAfter(d, s)
           /\ Effect(d, s).rows = RowsAfter(d, s)
           /\ Effect(d, s).nulls = NullsAfter(d, s)
  <1> DEFINE t == {o.table : o \in s.what}
             kept == {n \in d.nulls : n[1] \notin t}
             others == {x \in d.objects : x.table \notin t}
             filled == Filled(d, s.what)
             gone == Gone(d, s.what)
             typed == {x \in d.objects : \A o \in s.what : ~Same(x, o)} \union s.what
             new == NullsOf(d, s.what)
  <1>1. Effect(d, s) =
            CASE s.do = "create" ->
                   [d EXCEPT !.objects = @ \union s.what, !.nulls = @ \union new]
              [] s.do = "create_if_absent" -> [d EXCEPT !.objects = @ \union s.what]
              [] s.do \in {"drop", "drop_if_exists"} ->
                   [d EXCEPT !.objects = @ \ gone, !.nulls = filled]
              [] s.do = "drop_table" ->
                   [d EXCEPT !.objects = others, !.rows = @ \ t, !.nulls = kept]
              [] s.do = "truncate" -> [d EXCEPT !.rows = @ \ t, !.nulls = kept]
              [] s.do = "backfill" -> [d EXCEPT !.nulls = filled]
              [] s.do = "retype" -> [d EXCEPT !.objects = typed]
    BY DEF Effect, Filled
  <1> HIDE DEF t, kept, others, filled, gone, typed, new
  <1>2. Effect(d, s) =
            [objects |->
                 IF s.do \in {"create", "create_if_absent"} THEN d.objects \union s.what
                 ELSE IF s.do \in {"drop", "drop_if_exists"} THEN d.objects \ gone
                 ELSE IF s.do = "drop_table" THEN others
                 ELSE IF s.do = "retype" THEN typed ELSE d.objects,
             rows |-> IF s.do \in {"drop_table", "truncate"} THEN d.rows \ t ELSE d.rows,
             nulls |->
                 IF s.do = "create" THEN d.nulls \union new
                 ELSE IF s.do \in {"drop", "drop_if_exists", "backfill"} THEN filled
                 ELSE IF s.do \in {"drop_table", "truncate"} THEN kept ELSE d.nulls]
    <2>1. CASE s.do = "create"
      BY <1>1, <2>1
    <2>2. CASE s.do = "create_if_absent"
      BY <1>1, <2>2
    <2>3. CASE s.do \in {"drop", "drop_if_exists"}
      BY <1>1, <2>3
    <2>4. CASE s.do = "drop_table"
      BY <1>1, <2>4
    <2>5. CASE s.do = "truncate"
      BY <1>1, <2>5
    <2>6. CASE s.do = "backfill"
      BY <1>1, <2>6
    <2>7. CASE s.do = "retype"
      BY <1>1, <2>7
    <2> QED BY <2>1, <2>2, <2>3, <2>4, <2>5, <2>6, <2>7 DEF Kinds
  <1>3. Effect(d, s) = [objects |-> ObjectsAfter(d, s), rows |-> RowsAfter(d, s),
                        nulls |-> NullsAfter(d, s)]
    BY <1>2 DEF t, kept, others, filled, gone, typed, new, ObjectsAfter, RowsAfter,
       NullsAfter, TablesIn
  <1> QED BY <1>3

(* What goes is named, or reads a column that is. *)
LEMMA GoneIsNamed ==
    ASSUME NEW d, NEW old, NEW x \in Gone(d, old)
    PROVE  /\ x \in d.objects
           /\ \/ \E o \in old : Same(x, o)
              \/ /\ x.on # <<>>
                 /\ \E c \in d.objects : \E o \in old :
                       Same(c, o) /\ c.kind = "column" /\ Reads(x, c)
  <1>1. \A c \in UNION {Named(d, o) : o \in old} :
            c \in d.objects /\ \E o \in old : Same(c, o)
    BY DEF Named
  <1>2. CASE x \in UNION {Named(d, o) : o \in old}
    BY <1>1, <1>2
  <1>3. CASE x \notin UNION {Named(d, o) : o \in old}
    <2>1. PICK c \in UNION {Named(d, o) : o \in old} : c.kind = "column" /\ Reads(x, c)
      BY <1>3 DEF Gone
    <2>2. x \in d.objects
      BY <1>3 DEF Gone
    <2>3. x.on # <<>>
      <3> SUFFICES ASSUME x.on = <<>> PROVE FALSE
        OBVIOUS
      <3>1. Range(x.on) = {}
        BY DEF Range
      <3> QED BY <2>1, <3>1 DEF Reads
    <2> QED BY <1>1, <2>1, <2>2, <2>3
  <1> QED BY <1>2, <1>3

LEMMA StaysUnlessNamed ==
    ASSUME NEW d, NEW s, d = [objects |-> d.objects, rows |-> d.rows, nulls |-> d.nulls],
           Fine(s), NEW x \in d.objects, x.on = <<>>,
           s.do \in {"drop", "drop_if_exists", "retype"} => \A o \in s.what : ~Same(x, o),
           s.do = "drop_table" => \A o \in s.what : o.table # x.table
    PROVE  x \in Effect(d, s).objects
  <1>1. s.do \in Kinds
    BY DEF Fine
  <1>2. s.do \in {"drop", "drop_if_exists"} => x \notin Gone(d, s.what)
    BY GoneIsNamed
  <1>3. s.do = "drop_table" => x.table \notin TablesIn(s)
    BY DEF TablesIn
  <1>4. Effect(d, s).objects = ObjectsAfter(d, s)
    BY <1>1, EffectOf
  <1> QED BY <1>1, <1>2, <1>3, <1>4 DEF Kinds, ObjectsAfter

LEMMA TableStays ==
    ASSUME NEW d, NEW s, Database(d), Fine(s), NEW t, Table(t) \in d.objects,
           s.do = "drop_table" => \A o \in s.what : o.table # t
    PROVE  Table(t) \in Effect(d, s).objects
  <1>1. Table(t).on = <<>> /\ Table(t).kind = "table" /\ Table(t).table = t
    BY DEF Table, Object
  <1>2. s.do \in {"drop", "drop_if_exists", "retype"} => \A o \in s.what : ~Same(Table(t), o)
    BY <1>1 DEF Fine, Same
  <1> QED BY <1>1, <1>2, StaysUnlessNamed DEF Database

LEMMA ExtensionStays ==
    ASSUME NEW d, NEW s, Database(d), Fine(s), Extension \in d.objects
    PROVE  Extension \in Effect(d, s).objects
  <1>1. s.do \in {"drop", "drop_if_exists", "retype"} => \A o \in s.what : ~Same(Extension, o)
    BY ShapeOfExtension DEF Fine, Same
  <1>2. s.do = "drop_table" => \A o \in s.what : o.table # Extension.table
    BY ShapeOfExtension DEF Fine
  <1> QED BY <1>1, <1>2, ShapeOfExtension, StaysUnlessNamed DEF Database

LEMMA WidthStays ==
    ASSUME NEW d, NEW s, Database(d), Fine(s), Spares(s), Width \in d.objects
    PROVE  Width \in Effect(d, s).objects
  <1>1. /\ Width.on = <<>> /\ Width.kind = "column" /\ Width.table = "passages"
        /\ Width.name = "embedding"
    BY DEF Width, Vector, Column, Object
  <1>2. s.do \in {"drop", "drop_if_exists", "retype"} => \A o \in s.what : ~Same(Width, o)
    BY <1>1 DEF Spares, Same, IsEmbedding
  <1>3. s.do = "drop_table" => \A o \in s.what : o.table # Width.table
    BY <1>1 DEF Spares
  <1> QED BY <1>1, <1>2, <1>3, StaysUnlessNamed DEF Database

(* A column that rows leave NULL stays as long as they do, or is forgotten.*)
LEMMA NullsHaveColumns ==
    ASSUME NEW d, NEW s, Database(d), Fine(s), Possible(d, s),
           NEW n \in Effect(d, s).nulls
    PROVE  n[1] \in Effect(d, s).rows /\ Named(Effect(d, s), Column(n[1], n[2])) # {}
  <1> DEFINE e == Effect(d, s)
             c == Column(n[1], n[2])
  <1>1. c.kind = "column" /\ c.table = n[1] /\ c.name = n[2]
    BY DEF Column, Object
  <1>2. s.do \in Kinds
    BY DEF Fine
  <1>3. /\ e.objects = ObjectsAfter(d, s) /\ e.rows = RowsAfter(d, s)
        /\ e.nulls = NullsAfter(d, s)
    BY <1>2, EffectOf DEF Database
  <1> HIDE DEF e, c
  <1>4. SUFFICES n[1] \in e.rows /\ \E x \in e.objects : Same(x, c)
    BY DEF Named, e, c
  <1>5. n \in d.nulls \/ (s.do = "create" /\ n \in NullsOf(d, s.what))
    <2>1. n \in NullsAfter(d, s)
      BY <1>3 DEF e
    <2> QED BY <2>1 DEF NullsAfter, Filled
  <1>6. CASE s.do = "create" /\ n \in NullsOf(d, s.what)
    <2>1. PICK x \in s.what : /\ x.kind = "column" /\ x.table \in d.rows
                              /\ n = <<x.table, x.name>>
      BY <1>6 DEF NullsOf
    <2>2. Same(x, c)
      BY <1>1, <2>1 DEF Same
    <2> QED BY <1>3, <1>6, <2>1, <2>2 DEF ObjectsAfter, RowsAfter
  <1>7. CASE n \in d.nulls
    <2>1. n[1] \in d.rows /\ \E x \in d.objects : Same(x, c)
      BY <1>7 DEF Database, Named, c
    <2>2. PICK x \in d.objects : Same(x, c)
      BY <2>1
    <2>3. x.kind = "column" /\ x.table = n[1] /\ x.name = n[2]
      BY <1>1, <2>2 DEF Same
    <2>4. CASE s.do \in {"create", "create_if_absent", "truncate", "backfill"}
      <3>1. x \in e.objects
        BY <1>3, <2>2, <2>4 DEF ObjectsAfter
      <3>2. n[1] \in e.rows
        <4>1. CASE s.do = "truncate"
          <5>1. n[1] \notin TablesIn(s)
            BY <1>3, <4>1 DEF e, NullsAfter
          <5> QED BY <1>3, <2>1, <4>1, <5>1 DEF RowsAfter
        <4>2. CASE s.do # "truncate"
          BY <1>3, <2>1, <2>4, <4>2 DEF RowsAfter
        <4> QED BY <4>1, <4>2
      <3> QED BY <2>2, <3>1, <3>2
    <2>5. CASE s.do \in {"drop", "drop_if_exists"}
      <3>1. \A o \in s.what : ~Same(o, c)
        BY <1>3, <2>5 DEF e, Filled, NullsAfter, c
      <3>2. \A o \in s.what : ~Same(x, o)
        BY <2>2, <3>1 DEF Same
      <3>3. x \notin Gone(d, s.what)
        <4> SUFFICES ASSUME x \in Gone(d, s.what) PROVE FALSE
          OBVIOUS
        <4>1. PICK y \in d.objects, o \in s.what :
                  Same(y, o) /\ y.kind = "column" /\ Reads(x, y) /\ x.on # <<>>
          BY <3>2, GoneIsNamed
        <4>2. s.do = "drop"
          BY <2>5, <4>1 DEF Fine, Same
        <4>3. x.type = "generated"
          BY <2>3, <4>1 DEF Database, Well
        <4>4. x \in Readers(d, y) /\ y \in UNION {Named(d, p) : p \in s.what}
          BY <4>1, <4>3 DEF Readers, Named
        <4>5. Droppable(d, s.what)
          BY <4>2 DEF Possible
        <4> QED BY <3>2, <4>1, <4>4, <4>5 DEF Droppable
      <3> QED BY <1>3, <2>1, <2>2, <2>5, <3>3 DEF ObjectsAfter, RowsAfter
    <2>6. CASE s.do = "drop_table"
      <3>1. n[1] \notin TablesIn(s)
        BY <1>3, <2>6 DEF e, NullsAfter
      <3> QED BY <1>3, <2>1, <2>2, <2>3, <2>6, <3>1 DEF ObjectsAfter, RowsAfter
    <2>7. CASE s.do = "retype"
      <3>1. CASE \E o \in s.what : Same(x, o)
        <4>1. PICK o \in s.what : Same(x, o)
          BY <3>1
        <4>2. Same(o, c)
          BY <2>2, <4>1 DEF Same
        <4> QED BY <1>3, <2>1, <2>7, <4>1, <4>2 DEF ObjectsAfter, RowsAfter
      <3> QED BY <1>3, <2>1, <2>2, <2>7, <3>1 DEF ObjectsAfter, RowsAfter
    <2> QED BY <1>2, <2>4, <2>5, <2>6, <2>7 DEF Kinds
  <1> QED BY <1>5, <1>6, <1>7

LEMMA EffectIsDatabase ==
    ASSUME NEW d, NEW s, Database(d), Fine(s), Possible(d, s)
    PROVE  Database(Effect(d, s))
  <1> DEFINE e == Effect(d, s)
  <1>2. s.do \in Kinds
    BY DEF Fine
  <1>3. /\ e = [objects |-> e.objects, rows |-> e.rows, nulls |-> e.nulls]
        /\ e.objects = ObjectsAfter(d, s) /\ e.rows = RowsAfter(d, s)
    BY <1>2, EffectOf DEF Database
  <1> HIDE DEF e
  <1>4. \A o \in e.objects : Well(o)
    BY <1>3 DEF Database, Fine, ObjectsAfter
  <1>5. ASSUME NEW u \in e.rows PROVE Table(u) \in e.objects
    <2>1. Table(u) \in d.objects
      BY <1>3 DEF Database, RowsAfter
    <2>2. s.do = "drop_table" => \A o \in s.what : o.table # u
      BY <1>3 DEF RowsAfter, TablesIn
    <2> QED BY <2>1, <2>2, TableStays DEF e
  <1>6. \A n \in e.nulls : n[1] \in e.rows /\ Named(e, Column(n[1], n[2])) # {}
    BY NullsHaveColumns DEF e
  <1>7. ASSUME NEW x \in e.objects, NEW y \in e.objects, Same(x, y) PROVE x = y
    <2>1. CASE x \in d.objects /\ y \in d.objects
      BY <1>7, <2>1 DEF Database
    <2>2. CASE s.do = "create"
      <3>1. \A o \in s.what : \A p \in d.objects : ~Same(p, o)
        BY <2>2 DEF Possible, Creatable, Named
      <3>2. \A o \in s.what, p \in s.what : Same(o, p) => o = p
        BY <2>2 DEF Fine
      <3> QED BY <1>3, <1>7, <2>1, <2>2, <3>1, <3>2 DEF Same, ObjectsAfter
    <2>3. CASE s.do = "create_if_absent"
      <3>1. s.what = {Extension}
        BY <2>3 DEF Fine
      <3>2. CASE x = Extension \/ y = Extension
        <4>1. x.kind = "extension" /\ y.kind = "extension"
          BY <1>7, <3>2, ShapeOfExtension DEF Same
        <4> QED BY <1>4, <4>1 DEF Well
      <3>3. CASE x # Extension /\ y # Extension
        BY <1>3, <2>1, <2>3, <3>1, <3>3 DEF ObjectsAfter
      <3> QED BY <3>2, <3>3
    <2>4. CASE s.do = "retype"
      <3>1. \A o \in s.what, p \in s.what : o = p
        BY <2>4 DEF Fine
      <3> QED BY <1>3, <1>7, <2>1, <2>4, <3>1 DEF Same, ObjectsAfter
    <2> QED BY <1>2, <1>3, <2>1, <2>2, <2>3, <2>4 DEF ObjectsAfter
  <1> QED BY <1>3, <1>4, <1>5, <1>6, <1>7 DEF Database, e

(* No new NULL but where the statement may leave one. *)
LEMMA EffectFills ==
    ASSUME NEW d, NEW s, NEW N, Database(d), Fine(s), Possible(d, s), Fills(s, N)
    PROVE  /\ Effect(d, s).nulls \subseteq d.nulls \union N
           /\ s.do = "backfill" =>
                 \A n \in Effect(d, s).nulls : Column(n[1], n[2]) \notin s.what
  <1>1. s.do \in Kinds
    BY DEF Fine
  <1>2. Effect(d, s).nulls = NullsAfter(d, s)
    BY <1>1, EffectOf DEF Database
  <1>3. s.do = "create" => NullsOf(d, s.what) \subseteq N
    <2> SUFFICES ASSUME s.do = "create", NEW n \in NullsOf(d, s.what) PROVE n \in N
      OBVIOUS
    <2>1. PICK y \in s.what : /\ y.kind = "column" /\ y.table \in d.rows
                              /\ y.type \in {"plain", "vector"} /\ n = <<y.table, y.name>>
      BY DEF NullsOf
    <2>2. Table(y.table) \in d.objects
      BY <2>1 DEF Database
    <2>3. Table(y.table) \notin s.what
      <3>1. \A o \in s.what : \A p \in d.objects : ~Same(p, o)
        BY DEF Possible, Creatable, Named
      <3> QED BY <2>2, <3>1 DEF Same
    <2> QED BY <2>1, <2>3 DEF Fills
  <1>4. s.do = "backfill" => \A n \in Filled(d, s.what) : Column(n[1], n[2]) \notin s.what
    BY DEF Filled, Same
  <1> QED BY <1>2, <1>3, <1>4 DEF Filled, NullsAfter

-----------------------------------------------------------------------------
(* The invariant. *)

LEMMA RowsMatterNot ==
    ASSUME NEW d, Database(d), NEW t, Table(t) \in d.objects,
           NEW e, e = [d EXCEPT !.rows = @ \union {t}]
    PROVE  Database(e) /\ e.objects = d.objects /\ e.nulls = d.nulls
  <1>1. e = [objects |-> d.objects, rows |-> d.rows \union {t}, nulls |-> d.nulls]
    BY DEF Database
  <1>2. /\ e.objects = d.objects /\ e.nulls = d.nulls /\ e.rows = d.rows \union {t}
        /\ e = [objects |-> e.objects, rows |-> e.rows, nulls |-> e.nulls]
    BY <1>1
  <1> QED BY <1>2 DEF Database, Named

LEMMA EmptyIsDatabase == Database(EmptyDatabase)
  BY DEF Database, EmptyDatabase

LEMMA IdleIsFine == run = NoRun => RunInv /\ LockInv
  <1> SUFFICES ASSUME run = NoRun PROVE RunInv /\ LockInv
    OBVIOUS
  <1>1. /\ run.on = FALSE /\ run.work = EmptyDatabase /\ run.at = 0 /\ run.next = 1
        /\ run.to = 0
        /\ run = [on |-> run.on, work |-> run.work, at |-> run.at, next |-> run.next,
                  to |-> run.to, locked |-> run.locked]
    BY DEF NoRun
  <1>2. 0 \in Revisions
    BY ChainFacts DEF Revisions
  <1>3. EmptyDatabase.nulls = {}
    BY DEF EmptyDatabase
  <1>4. ~WidthDue /\ ~ExtensionDue
    BY <1>1 DEF WidthDue, ExtensionDue
  <1>5. RunInv
    BY <1>1, <1>2, <1>3, <1>4, EmptyIsDatabase DEF RunInv
  <1>6. LockInv
    BY <1>1 DEF LockInv
  <1> QED BY <1>5, <1>6

LEMMA DeployStarts == Init => DeployInv
  <1> SUFFICES ASSUME Init PROVE DeployInv
    OBVIOUS
  <1>1. HeadRevision = 12 /\ Revisions = 0..12
    BY ChainFacts DEF Revisions
  <1>3. EmptyDatabase.nulls = {}
    BY DEF EmptyDatabase
  <1>4. RunInv /\ LockInv
    BY IdleIsFine DEF Init
  <1>6. StoredInv
    BY <1>1, <1>3, EmptyIsDatabase DEF StoredInv, Init
  <1>7. BootInv
    <2>1. "down" \in Stages
      BY DEF Stages
    <2>2. \A r \in Replicas : boot[r].stage = "down"
      BY DEF Init
    <2>3. boot \in [Replicas -> [stage : Stages, dimension : Dimensions]]
      BY <2>1 DEF Init
    <2> QED BY <2>2, <2>3 DEF BootInv, Init
  <1> QED BY <1>4, <1>6, <1>7 DEF DeployInv

LEMMA FirstStatement ==
    ASSUME NEW at \in 0..12, NEW to \in 0..12, at # to
    PROVE  LET statements == IF to > at THEN Chain[at + 1].up ELSE Chain[at].down IN
           1 \in 1..Len(statements) /\ Len(statements) \in Nat \ {0}
  <1>1. CASE to > at
    <2>1. at + 1 \in 1..12
      BY <1>1
    <2>2. RevisionFacts(Chain[at + 1], at + 1)
      BY <2>1, ChainFacts
    <2> QED BY <1>1, <2>2 DEF RevisionFacts
  <1>2. CASE ~(to > at)
    <2>1. at \in 1..12
      BY <1>2
    <2>2. RevisionFacts(Chain[at], at)
      BY <2>1, ChainFacts
    <2> QED BY <1>2, <2>2 DEF RevisionFacts
  <1> QED BY <1>1, <1>2

LEMMA BeginKeeps ==
    ASSUME DeployInv, Begin
    PROVE  DeployInv'
  <1>1. HeadRevision = 12 /\ Revisions = 0..12
    BY ChainFacts DEF Revisions
  <1>2. PICK t \in Targets \ {version} :
            run' = [NoRun EXCEPT !.on = TRUE, !.work = db, !.at = version, !.to = t]
    BY DEF Begin
  <1>3. /\ run'.on = TRUE /\ run'.work = db /\ run'.at = version /\ run'.next = 1
        /\ run'.to = t /\ run'.locked = {}
        /\ run' = [on |-> run'.on, work |-> run'.work, at |-> run'.at, next |-> run'.next,
                   to |-> run'.to, locked |-> run'.locked]
    BY <1>2 DEF NoRun
  <1>4. t \in 0..12 /\ version \in 0..12 /\ t # version
    BY <1>1, <1>2, DeployAssumption DEF DeployInv, StoredInv
  <1>5. UNCHANGED <<db, version, pgvector, boot>>
    BY DEF Begin
  <1>6. RunInv'
    <2>1. run'.at # run'.to => run'.next \in 1..Len(Statements)'
      BY <1>3, <1>4, FirstStatement DEF Statements
    <2>2. WidthDue' => Width \in run'.work.objects
      BY <1>3, <1>4 DEF WidthDue, DeployInv, StoredInv
    <2>3. ExtensionDue' => Extension \in run'.work.objects
      BY <1>3, <1>4 DEF ExtensionDue, DeployInv, StoredInv
    <2>4. Database(run'.work) /\ run'.work.nulls \subseteq Pending'
      BY <1>3 DEF DeployInv, StoredInv
    <2> QED BY <1>1, <1>3, <1>4, <2>1, <2>2, <2>3, <2>4 DEF RunInv
  <1>7. LockInv'
    BY <1>3, <1>5 DEF LockInv
  <1>8. StoredInv' /\ BootInv'
    BY <1>5 DEF DeployInv, StoredInv, BootInv
  <1> QED BY <1>6, <1>7, <1>8 DEF DeployInv

LEMMA CommitKeeps ==
    ASSUME DeployInv, Commit
    PROVE  DeployInv'
  <1>1. HeadRevision = 12 /\ Revisions = 0..12
    BY ChainFacts DEF Revisions
  <1>2. /\ run.on /\ run.at = run.to /\ db' = run.work /\ version' = run.at
        /\ run' = NoRun /\ UNCHANGED <<pgvector, boot>>
    BY DEF Commit
  <1>3. /\ run.next = 1 /\ Database(run.work) /\ run.work.nulls = {}
        /\ run.at \in 0..12
        /\ (WidthDue => Width \in run.work.objects)
        /\ (ExtensionDue => Extension \in run.work.objects)
    BY <1>1, <1>2 DEF DeployInv, RunInv, Pending
  <1>4. StoredInv'
    BY <1>1, <1>2, <1>3 DEF StoredInv, WidthDue, ExtensionDue
  <1>5. (run = NoRun => RunInv /\ LockInv)'
    BY IdleIsFine, PTL
  <1>6. RunInv' /\ LockInv'
    BY <1>2, <1>5
  <1>7. BootInv'
    BY <1>2 DEF DeployInv, BootInv
  <1> QED BY <1>4, <1>6, <1>7 DEF DeployInv

LEMMA AbandonKeeps ==
    ASSUME DeployInv, Abandon
    PROVE  DeployInv'
  <1>1. HeadRevision = 12 /\ Revisions = 0..12
    BY ChainFacts DEF Revisions
  <1>2. run' = NoRun /\ UNCHANGED <<db, version, pgvector, boot>>
    BY DEF Abandon
  <1>5. (run = NoRun => RunInv /\ LockInv)'
    BY IdleIsFine, PTL
  <1>6. RunInv' /\ LockInv'
    BY <1>2, <1>5
  <1>7. StoredInv' /\ BootInv'
    BY <1>2 DEF DeployInv, BootInv, StoredInv
  <1> QED BY <1>6, <1>7 DEF DeployInv

LEMMA InsertKeeps ==
    ASSUME DeployInv, NEW t \in Written, Insert(t)
    PROVE  DeployInv'
  <1>1. /\ Table(t) \in db.objects /\ t \notin run.locked
        /\ db' = [db EXCEPT !.rows = @ \union {t}]
        /\ UNCHANGED <<version, pgvector, boot>>
        /\ run' = IF run.on THEN [run EXCEPT !.work.rows = @ \union {t}] ELSE run
    BY DEF Insert
  <1>2. Database(db') /\ db'.objects = db.objects /\ db'.nulls = db.nulls
    BY <1>1, RowsMatterNot DEF DeployInv, StoredInv
  <1>3. StoredInv' /\ BootInv'
    BY <1>1, <1>2 DEF DeployInv, StoredInv, BootInv
  <1>4. CASE ~run.on
    BY <1>1, <1>2, <1>3, <1>4
       DEF DeployInv, RunInv, LockInv, WidthDue, ExtensionDue, Pending, Statements
  <1>5. CASE run.on
    <2>1. Table(t) \in run.work.objects
      BY <1>1, <1>5 DEF DeployInv, LockInv
    <2> DEFINE w == [run.work EXCEPT !.rows = @ \union {t}]
    <2>2. Database(w) /\ w.objects = run.work.objects /\ w.nulls = run.work.nulls
      BY <2>1, RowsMatterNot DEF DeployInv, RunInv
    <2>3. /\ run' = [on |-> run.on, work |-> w, at |-> run.at, next |-> run.next,
                     to |-> run.to, locked |-> run.locked]
      BY <1>1, <1>5 DEF DeployInv, RunInv
    <2> HIDE DEF w
    <2>4. /\ run'.on = run.on /\ run'.work = w /\ run'.at = run.at /\ run'.next = run.next
          /\ run'.to = run.to /\ run'.locked = run.locked
          /\ run' = [on |-> run'.on, work |-> run'.work, at |-> run'.at, next |-> run'.next,
                     to |-> run'.to, locked |-> run'.locked]
      BY <2>3
    <2>5. /\ Statements' = Statements /\ Pending' = Pending
          /\ WidthDue' = WidthDue /\ ExtensionDue' = ExtensionDue
      BY <2>4 DEF Statements, Pending, WidthDue, ExtensionDue
    <2>6. RunInv'
      BY <2>2, <2>4, <2>5 DEF DeployInv, RunInv
    <2>7. LockInv'
      BY <1>2, <2>2, <2>4 DEF DeployInv, LockInv
    <2> QED BY <1>3, <2>6, <2>7 DEF DeployInv
  <1> QED BY <1>4, <1>5

(* The statement of the run, its revision and its place there. *)
LEMMA StatementFacts ==
    ASSUME RunInv, run.at # run.to
    PROVE  LET s == Statements[run.next]
               up == run.to > run.at
               n == IF up THEN run.at + 1 ELSE run.at
           IN  /\ n \in 1..12 /\ run.at \in 0..12 /\ run.to \in 0..12
               /\ Statements = IF up THEN Chain[n].up ELSE Chain[n].down
               /\ Len(Statements) \in Nat \ {0} /\ run.next \in 1..Len(Statements)
               /\ Fine(s)
               /\ Fills(s, IF up /\ run.next = 1 THEN Missing(n) ELSE {})
               /\ Spares(s) \/ (~up /\ n = 10 /\ run.next = 4)
               /\ up /\ n = 1 /\ run.next = 1 => s = CreateIfAbsent({Extension})
               /\ up /\ n = 10 /\ run.next = 2 => s.do = "create" /\ Width \in s.what
               /\ up /\ n \in {4, 10, 11} => Len(Statements) > 1
               /\ up /\ n \in {4, 11} /\ run.next = 2 =>
                     /\ s.do = "backfill"
                     /\ \A x \in Missing(n) : Column(x[1], x[2]) \in s.what
  <1>1. run.at \in 0..12 /\ run.to \in 0..12
    BY ChainFacts DEF RunInv, Revisions
  <1>2. run.next \in 1..Len(Statements)
    BY DEF RunInv
  <1>3. CASE run.to > run.at
    <2>1. run.at + 1 \in 1..12
      BY <1>1, <1>3
    <2>2. RevisionFacts(Chain[run.at + 1], run.at + 1)
      BY <2>1, ChainFacts
    <2>3. Statements = Chain[run.at + 1].up
      BY <1>3 DEF Statements
    <2> QED BY <1>1, <1>2, <1>3, <2>1, <2>2, <2>3 DEF RevisionFacts
  <1>4. CASE ~(run.to > run.at)
    <2>1. run.at \in 1..12
      BY <1>1, <1>4
    <2>2. RevisionFacts(Chain[run.at], run.at)
      BY <2>1, ChainFacts
    <2>3. Statements = Chain[run.at].down
      BY <1>4 DEF Statements
    <2> QED BY <1>1, <1>2, <1>4, <2>1, <2>2, <2>3 DEF RevisionFacts
  <1> QED BY <1>3, <1>4

LEMMA ExecuteKeeps ==
    ASSUME DeployInv, Execute
    PROVE  DeployInv'
  <1> DEFINE s == Statements[run.next]
             last == run.next = Len(Statements)
             up == run.to > run.at
             n == IF up THEN run.at + 1 ELSE run.at
             w == Effect(run.work, s)
             at == IF ~last THEN run.at ELSE IF up THEN run.at + 1 ELSE run.at - 1
             next == IF last THEN 1 ELSE run.next + 1
             locked == run.locked \union TablesOf(s)
  <1>1. /\ run.on /\ run.at # run.to /\ Possible(run.work, s)
        /\ UNCHANGED <<db, version, pgvector, boot>>
    BY DEF Execute
  <1>2. run' = [on |-> run.on, work |-> w, at |-> at, next |-> next, to |-> run.to,
                locked |-> locked]
    <2>1. run = [on |-> run.on, work |-> run.work, at |-> run.at, next |-> run.next,
                 to |-> run.to, locked |-> run.locked]
      BY DEF DeployInv, RunInv
    <2>2. run' = [run EXCEPT !.work = w, !.locked = locked, !.next = next, !.at = at]
      BY DEF Execute
    <2> HIDE DEF s, w, at, next, locked
    <2> QED BY <2>1, <2>2
  <1>3. /\ n \in 1..12 /\ run.at \in 0..12 /\ run.to \in 0..12
        /\ Statements = (IF up THEN Chain[n].up ELSE Chain[n].down)
        /\ Len(Statements) \in Nat \ {0} /\ run.next \in 1..Len(Statements)
        /\ Fine(s)
        /\ Fills(s, IF up /\ run.next = 1 THEN Missing(n) ELSE {})
        /\ Spares(s) \/ (~up /\ n = 10 /\ run.next = 4)
        /\ up /\ n = 1 /\ run.next = 1 => s = CreateIfAbsent({Extension})
        /\ up /\ n = 10 /\ run.next = 2 => s.do = "create" /\ Width \in s.what
        /\ up /\ n \in {4, 10, 11} => Len(Statements) > 1
        /\ up /\ n \in {4, 11} /\ run.next = 2 =>
              /\ s.do = "backfill"
              /\ \A x \in Missing(n) : Column(x[1], x[2]) \in s.what
    BY <1>1, StatementFacts DEF DeployInv
  <1>4. /\ Database(run.work) /\ run.work.nulls \subseteq Pending
        /\ (WidthDue => Width \in run.work.objects)
        /\ (ExtensionDue => Extension \in run.work.objects)
    BY DEF DeployInv, RunInv
  <1> HIDE DEF s, w, next, locked
  <1>5. Database(w)
    BY <1>1, <1>3, <1>4, EffectIsDatabase DEF w
  <1>6. /\ run'.on = run.on /\ run'.work = w /\ run'.at = at /\ run'.next = next
        /\ run'.to = run.to /\ run'.locked = locked
        /\ run' = [on |-> run'.on, work |-> run'.work, at |-> run'.at, next |-> run'.next,
                   to |-> run'.to, locked |-> run'.locked]
    BY <1>2
  <1>7. /\ at \in 0..12
        /\ at = run.to \/ (up <=> run.to > at)
        /\ ~last => at = run.at /\ next = run.next + 1
        /\ last => next = 1 /\ at = IF up THEN run.at + 1 ELSE run.at - 1
    BY <1>1, <1>3 DEF next
  <1> HIDE DEF at
  <1>8. w.nulls \subseteq Pending'
    <2>1. /\ w.nulls \subseteq run.work.nulls
                \union (IF up /\ run.next = 1 THEN Missing(n) ELSE {})
          /\ s.do = "backfill" => \A x \in w.nulls : Column(x[1], x[2]) \notin s.what
      BY <1>1, <1>3, <1>4, EffectFills DEF w
    <2>2. Pending = IF up /\ run.next = 2 THEN Missing(n) ELSE {}
      BY DEF Pending
    <2>3. Pending' = IF run.to > at /\ next = 2 THEN Missing(at + 1) ELSE {}
      BY <1>6 DEF Pending
    <2>4. n \notin {4, 11} => Missing(n) = {}
      BY DEF Missing
    <2>5. CASE up /\ run.next = 1
      <3>1. CASE last
        <4>1. Missing(n) = {}
          BY <1>3, <2>4, <2>5, <3>1
        <4> QED BY <1>4, <2>1, <2>2, <2>5, <4>1
      <3>2. CASE ~last
        <4>1. at = run.at /\ next = 2
          BY <1>7, <2>5, <3>2
        <4>2. Pending' = Missing(n)
          BY <2>3, <2>5, <4>1
        <4> QED BY <1>4, <2>1, <2>2, <2>5, <4>2
      <3> QED BY <3>1, <3>2
    <2>6. CASE up /\ run.next = 2
      <3>1. w.nulls \subseteq Missing(n)
        BY <1>4, <2>1, <2>2, <2>6
      <3>2. n \in {4, 11} => w.nulls = {}
        BY <1>3, <2>1, <2>6, <3>1
      <3> QED BY <2>4, <3>1, <3>2
    <2>7. CASE ~up \/ run.next \notin {1, 2}
      BY <1>4, <2>1, <2>2, <2>7
    <2> QED BY <2>5, <2>6, <2>7
  <1>9. ExtensionDue' => Extension \in w.objects
    <2>1. CASE ExtensionDue
      BY <1>3, <1>4, <2>1, ExtensionStays DEF w
    <2>2. CASE ~ExtensionDue
      <3>1. run.at = 0 /\ run.next = 1
        BY <1>3, <2>2 DEF ExtensionDue
      <3>2. s = CreateIfAbsent({Extension})
        BY <1>1, <1>3, <3>1
      <3>3. s.do = "create_if_absent" /\ Extension \in s.what
        BY <3>2 DEF CreateIfAbsent, Statement
      <3>4. w.objects = ObjectsAfter(run.work, s)
        BY <1>4, <3>3, EffectOf DEF w, Database, Kinds
      <3> QED BY <3>3, <3>4 DEF ObjectsAfter
    <2> QED BY <2>1, <2>2
  <1>10. WidthDue' => Width \in w.objects
    <2> SUFFICES ASSUME WidthDue' PROVE Width \in w.objects
      OBVIOUS
    <2>1. \/ at > 10
          \/ at = 10 /\ (run.to >= 10 \/ next <= 4)
          \/ at = 9 /\ run.to > 9 /\ next > 2
      BY <1>6 DEF WidthDue
    <2>2. CASE up /\ n = 10 /\ run.next = 2
      <3>1. s.do = "create" /\ Width \in s.what
        BY <1>3, <2>2
      <3>2. w.objects = ObjectsAfter(run.work, s)
        BY <1>4, <3>1, EffectOf DEF w, Database, Kinds
      <3> QED BY <3>1, <3>2 DEF ObjectsAfter
    <2>3. CASE ~(up /\ n = 10 /\ run.next = 2)
      <3>1. WidthDue /\ ~(~up /\ n = 10 /\ run.next = 4)
        BY SMTT(30), <1>1, <1>3, <1>7, <2>1, <2>3 DEF WidthDue
      <3>2. Spares(s)
        BY <1>3, <3>1
      <3> QED BY <1>3, <1>4, <3>1, <3>2, WidthStays DEF w
    <2> QED BY <2>2, <2>3
  <1>11. run'.at # run'.to => run'.next \in 1..Len(Statements)'
    <2> SUFFICES ASSUME at # run.to PROVE next \in 1..Len(Statements)'
      BY <1>6
    <2>1. Statements' = IF run.to > at THEN Chain[at + 1].up ELSE Chain[at].down
      BY <1>6 DEF Statements
    <2>2. CASE last
      BY <1>3, <1>7, <2>1, <2>2, FirstStatement
    <2>3. CASE ~last
      <3>1. Statements' = Statements
        BY <1>7, <2>1, <2>3 DEF Statements
      <3> QED BY SMTT(30), <1>3, <1>7, <2>3, <3>1
    <2> QED BY <2>2, <2>3
  <1>12. run'.at = run'.to => run'.next = 1
    BY <1>1, <1>6, <1>7
  <1>13. RunInv'
    <2>1. Revisions = 0..12
      BY ChainFacts DEF Revisions
    <2>2. run.on \in BOOLEAN
      BY DEF DeployInv, RunInv
    <2> QED BY <1>3, <1>5, <1>6, <1>7, <1>8, <1>9, <1>10, <1>11, <1>12, <2>1, <2>2 DEF RunInv
  <1>14. LockInv'
    <2> SUFFICES ASSUME NEW t \in Written, Table(t) \in db.objects, t \notin locked
                 PROVE  Table(t) \in w.objects
      BY <1>1, <1>6 DEF LockInv
    <2>1. Table(t) \in run.work.objects
      BY <1>1 DEF DeployInv, LockInv, locked
    <2>2. s.do = "drop_table" => \A o \in s.what : o.table # t
      BY <1>3 DEF locked, TablesOf, Fine
    <2> QED BY <1>3, <1>4, <2>1, <2>2, TableStays DEF w
  <1>15. StoredInv' /\ BootInv'
    BY <1>1 DEF DeployInv, StoredInv, BootInv
  <1> QED BY <1>13, <1>14, <1>15 DEF DeployInv

LEMMA StagesAre ==
    /\ Range(Checks) = {"pgvector", "dimension", "head"}
    /\ Stages = {"pgvector", "dimension", "head", "down", "serving", "refused"}
    /\ Checks[1] = "pgvector"
    /\ After("pgvector") = "dimension" /\ After("dimension") = "head"
    /\ After("head") = "serving"
  <1>1. /\ Len(Checks) = 3 /\ DOMAIN Checks = {1, 2, 3}
        /\ Checks[1] = "pgvector" /\ Checks[2] = "dimension" /\ Checks[3] = "head"
    BY DEF Checks
  <1>2. Last(Checks) = "head"
    BY <1>1 DEF Last
  <1>3. Range(Checks) = {"pgvector", "dimension", "head"}
    BY <1>1 DEF Range
  <1>4. After("pgvector") = "dimension"
    <2>1. (CHOOSE i \in DOMAIN Checks : Checks[i] = "pgvector") = 1
      BY <1>1
    <2> QED BY <1>1, <1>2, <2>1 DEF After
  <1>5. After("dimension") = "head"
    <2>1. (CHOOSE i \in DOMAIN Checks : Checks[i] = "dimension") = 2
      BY <1>1
    <2> QED BY <1>1, <1>2, <2>1 DEF After
  <1>6. After("head") = "serving"
    BY <1>2 DEF After
  <1> QED BY <1>1, <1>3, <1>4, <1>5, <1>6 DEF Stages

LEMMA BootKeeps ==
    ASSUME DeployInv, NEW r \in Replicas, Start(r) \/ Check(r) \/ RefuseToStart(r)
    PROVE  DeployInv'
  <1>1. UNCHANGED <<db, version, pgvector, run>>
    BY DEF Start, Check, RefuseToStart
  <1>2. RunInv' /\ LockInv' /\ StoredInv'
    BY <1>1 DEF DeployInv, RunInv, LockInv, StoredInv, WidthDue, ExtensionDue, Pending,
       Statements
  <1>3. boot \in [Replicas -> [stage : Stages, dimension : Dimensions]]
    BY DEF DeployInv, BootInv
  <1>4. BootInv'
    <2>1. CASE Start(r)
      <3>1. PICK n \in Dimensions :
                boot' = [boot EXCEPT ![r] = [stage |-> Checks[1], dimension |-> n]]
        BY <2>1 DEF Start
      <3> QED BY <1>1, <1>3, <3>1, StagesAre DEF DeployInv, BootInv
    <2>2. CASE RefuseToStart(r)
      <3>1. boot' = [boot EXCEPT ![r].stage = "refused"]
        BY <2>2 DEF RefuseToStart
      <3> QED BY <1>1, <1>3, <3>1, StagesAre DEF DeployInv, BootInv
    <2>3. CASE Check(r)
      <3>1. /\ boot[r].stage \in {"pgvector", "dimension", "head"} /\ Passes(r)
            /\ boot' = [boot EXCEPT ![r].stage = After(boot[r].stage)]
        BY <2>3, StagesAre DEF Check
      <3>2. boot[r].stage = "pgvector" => pgvector \notin {0} \X (0..7)
        <4> SUFFICES ASSUME boot[r].stage = "pgvector", pgvector \in {0} \X (0..7) PROVE FALSE
          OBVIOUS
        <4>1. VerifyPgvectorVersion
          BY <3>1 DEF Passes
        <4> QED BY <4>1 DEF VerifyPgvectorVersion, MinimumPgvector
      <3>3. boot[r].stage = "dimension" => boot[r].dimension = 1024
        <4> SUFFICES ASSUME boot[r].stage = "dimension" PROVE boot[r].dimension = 1024
          OBVIOUS
        <4> DEFINE v == Vector("passages", "embedding", boot[r].dimension)
        <4>1. v \in db.objects
          BY <3>1 DEF Passes, VerifyEmbeddingDimension
        <4>2. v.kind = "column" /\ v.table = "passages" /\ v.name = "embedding"
              /\ v.width = boot[r].dimension
          BY DEF Vector, Column, Object
        <4>3. Width.width = 1024
          BY DEF Width, Vector, Column, Object
        <4>4. v = Width
          <5> HIDE DEF v
          <5> QED BY <4>1, <4>2 DEF DeployInv, StoredInv, Database, Well, IsEmbedding
        <4> QED BY <4>2, <4>3, <4>4
      <3>4. boot'[r].stage = After(boot[r].stage) /\ boot'[r].dimension = boot[r].dimension
        BY <1>3, <3>1
      <3>5. \A q \in Replicas \ {r} : boot'[q] = boot[q]
        BY <1>3, <3>1
      <3>6. After(boot[r].stage) \in Stages
        BY <3>1, StagesAre
      <3>7. boot' \in [Replicas -> [stage : Stages, dimension : Dimensions]]
        BY <1>3, <3>1, <3>6
      <3>8. \A q \in Replicas :
                /\ boot'[q].stage \in {"dimension", "head"} => pgvector \notin {0} \X (0..7)
                /\ boot'[q].stage = "head" => boot'[q].dimension = 1024
        <4>1. CASE boot[r].stage = "pgvector"
          BY <3>2, <3>4, <3>5, <4>1, StagesAre DEF DeployInv, BootInv
        <4>2. CASE boot[r].stage = "dimension"
          BY <3>3, <3>4, <3>5, <4>2, StagesAre DEF DeployInv, BootInv
        <4>3. CASE boot[r].stage = "head"
          BY <3>4, <3>5, <4>3, StagesAre DEF DeployInv, BootInv
        <4> QED BY <3>1, <4>1, <4>2, <4>3
      <3> QED BY <1>1, <3>7, <3>8 DEF DeployInv, BootInv
    <2> QED BY <2>1, <2>2, <2>3
  <1> QED BY <1>2, <1>4 DEF DeployInv

LEMMA DeployStep == DeployInv /\ [Next]_vars => DeployInv'
  <1> SUFFICES ASSUME DeployInv, [Next]_vars PROVE DeployInv'
    OBVIOUS
  <1>1. CASE Begin
    BY <1>1, BeginKeeps
  <1>2. CASE Execute
    BY <1>2, ExecuteKeeps
  <1>3. CASE Commit
    BY <1>3, CommitKeeps
  <1>4. CASE Abandon
    BY <1>4, AbandonKeeps
  <1>5. ASSUME NEW t \in Written, Insert(t) PROVE DeployInv'
    BY <1>5, InsertKeeps
  <1>6. ASSUME NEW r \in Replicas, Start(r) \/ Check(r) \/ RefuseToStart(r) PROVE DeployInv'
    BY <1>6, BootKeeps
  <1>7. CASE UNCHANGED vars
    BY <1>7 DEF vars, DeployInv, RunInv, LockInv, StoredInv, BootInv, WidthDue,
       ExtensionDue, Pending, Statements
  <1> QED BY <1>1, <1>2, <1>3, <1>4, <1>5, <1>6, <1>7 DEF Next

LEMMA DeployAlways == Spec => []DeployInv
  BY DeployStarts, DeployStep, PTL DEF Spec

-----------------------------------------------------------------------------
(* The theorems. *)

(* The database that is committed and the one inside a migration's         *)
(* transaction are well formed at every statement of every run, and no     *)
(* committed row waits for a value (the upgrade and downgrade functions of *)
(* alembic/versions, run by env.py).                                       *)
THEOREM DatabasesAreWellFormed == Spec => []TypeOK
  <1>1. ASSUME NEW d, Database(d) PROVE IsDatabase(d)
    <2>1. \A t : Table(t).table = t
      BY DEF Table, Object
    <2>2. d.rows \subseteq {o.table : o \in d.objects}
      BY <1>1, <2>1 DEF Database
    <2> QED BY <1>1, <2>2 DEF Database, IsDatabase
  <1>2. DeployInv => TypeOK
    BY <1>1 DEF DeployInv, RunInv, StoredInv, BootInv, TypeOK
  <1> QED BY <1>2, DeployAlways, PTL

(* A replica that passes its last check finds, at that moment, a database  *)
(* at head with passages of its own width and a good pgvector, whatever    *)
(* runs were committed between its checks (schema_checks.py).              *)
THEOREM ReplicasServeAtHead == Spec => ServesOnlyAtHead
  <1>1. DeployInv /\ [Next]_vars =>
            [\A r \in Replicas :
                boot'[r].stage = "serving" /\ boot[r].stage # "serving" =>
                    /\ version = HeadRevision
                    /\ Vector("passages", "embedding", boot[r].dimension) \in db.objects
                    /\ Extension \in db.objects /\ pgvector \notin {0} \X (0..7)]_vars
    <2> SUFFICES ASSUME DeployInv, Next, NEW r \in Replicas,
                        boot'[r].stage = "serving", boot[r].stage # "serving"
                 PROVE  /\ version = HeadRevision
                        /\ Vector("passages", "embedding", boot[r].dimension) \in db.objects
                        /\ Extension \in db.objects /\ pgvector \notin {0} \X (0..7)
      OBVIOUS
    <2>1. boot \in [Replicas -> [stage : Stages, dimension : Dimensions]]
      BY DEF DeployInv, BootInv
    <2>2. PICK q \in Replicas : Start(q) \/ Check(q) \/ RefuseToStart(q)
      BY DEF Next, Begin, Execute, Commit, Abandon, Insert
    <2>3. q = r /\ Check(r)
      BY <2>1, <2>2, StagesAre DEF Start, Check, RefuseToStart
    <2>4. boot[r].stage = "head" /\ Passes(r)
      BY <2>1, <2>3, StagesAre DEF Check
    <2>5. version = HeadRevision /\ version = 12
      BY <2>4, ChainFacts DEF Passes, VerifyMigrationHead
    <2>6. boot[r].dimension = 1024 /\ pgvector \notin {0} \X (0..7)
      BY <2>4 DEF DeployInv, BootInv
    <2>7. Width \in db.objects /\ Extension \in db.objects
      BY <2>5 DEF DeployInv, StoredInv
    <2> QED BY <2>5, <2>6, <2>7 DEF Width
  <1> QED BY <1>1, DeployAlways, PTL DEF Spec, ServesOnlyAtHead
=============================================================================
