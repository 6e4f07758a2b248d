------------------------------- MODULE Schema -------------------------------
(***************************************************************************)
(* What PostgreSQL does with the statements of the migrations: when it     *)
(* refuses one, and what one changes.  A database is a set of schema       *)
(* objects, the tables that hold rows, and the columns those rows leave    *)
(* NULL until a backfill.                                                  *)
(***************************************************************************)
EXTENDS Integers, Sequences, Functions

Object(kind, t, name, on) ==
    [kind |-> kind, table |-> t, name |-> name, on |-> on, type |-> "plain",
     width |-> 0, to |-> "", refs |-> <<>>]

Extension == Object("extension", "", "vector", <<>>)
Table(t) == Object("table", t, t, <<>>)
Column(t, c) == Object("column", t, c, <<>>)
Defaulted(t, c) == [Column(t, c) EXCEPT !.type = "default"]
Vector(t, c, w) == [Column(t, c) EXCEPT !.type = "vector", !.width = w]
Generated(t, c, reads) == [Object("column", t, c, reads) EXCEPT !.type = "generated"]
NotNull(t, c) == Object("not_null", t, c, <<c>>)
Index(t, name, on) == Object("index", t, name, on)
Gin(t, name, on) == [Index(t, name, on) EXCEPT !.type = "gin"]
Hnsw(t, name, on) == [Index(t, name, on) EXCEPT !.type = "hnsw"]
Unique(t, name, on) == Object("unique", t, name, on)
ForeignKey(t, name, on, to, refs) ==
    [Object("foreign_key", t, name, on) EXCEPT !.to = to, !.refs = refs]

(* The statements.                                                         *)
Statement(do, what) == [do |-> do, what |-> what]
Create(new) == Statement("create", new)
CreateIfAbsent(new) == Statement("create_if_absent", new)
Drop(old) == Statement("drop", old)
DropIfExists(old) == Statement("drop_if_exists", old)
DropTable(t) == Statement("drop_table", {Table(t)})
Truncate(t) == Statement("truncate", {Table(t)})
Backfill(t, c) == Statement("backfill", {Column(t, c)})
Retype(t, c, w) == Statement("retype", {Vector(t, c, w)})

EmptyDatabase == [objects |-> {}, rows |-> {}, nulls |-> {}]

Same(x, o) == x.kind = o.kind /\ x.table = o.table /\ x.name = o.name
Named(d, o) == {x \in d.objects : Same(x, o)}
OfTable(d, t) == {x \in d.objects : x.table = t}
Reads(x, c) == x.table = c.table /\ c.name \in Range(x.on)
RelyOn(d, u) ==
    {x \in d.objects : /\ x.kind = "foreign_key" /\ x.to = u.table
                       /\ Range(x.refs) = Range(u.on)}
Readers(d, c) == {x \in d.objects : x.type = "generated" /\ Reads(x, c)}
Referrers(d, t) ==
    {x \in d.objects : x.kind = "foreign_key" /\ x.to = t /\ x.table # t}

(* A new column that is neither defaulted nor generated is NULL in the     *)
(* rows that are there, and NOT NULL is refused while a row has a NULL.    *)
NullsOf(d, new) ==
    {<<x.table, x.name>> : x \in {y \in new : /\ y.kind = "column"
                                              /\ y.table \in d.rows
                                              /\ y.type \in {"plain", "vector"}}}

Creatable(d, new) ==
    LET all == d.objects \union new
    IN  \A o \in new :
          /\ Named(d, o) = {}
          /\ o.kind = "extension" \/ Table(o.table) \in all
          /\ \A c \in Range(o.on) :
                \E x \in all : Same(x, Column(o.table, c))
          /\ o.type = "vector" => Extension \in all
          /\ o.kind = "not_null" =>
                <<o.table, o.name>> \notin d.nulls \union NullsOf(d, new)
          /\ o.kind = "foreign_key" =>
                \E u \in all : /\ u.kind = "unique" /\ u.table = o.to
                               /\ Range(u.on) = Range(o.refs)

Droppable(d, old) ==
    /\ \A o \in old : Named(d, o) # {}
    /\ \A x \in UNION {Named(d, o) : o \in old} :
          /\ x.kind = "column" => \A y \in Readers(d, x) : \E o \in old : Same(y, o)
          /\ x.kind = "unique" => RelyOn(d, x) = {}

(* PostgreSQL accepts the statement s on the database d.                   *)
Possible(d, s) ==
    CASE s.do = "create" -> Creatable(d, s.what)
      [] s.do = "drop" -> Droppable(d, s.what)
      [] s.do \in {"drop_table", "truncate"} ->
            \A o \in s.what : Named(d, o) # {} /\ Referrers(d, o.table) = {}
      [] s.do = "backfill" -> \A o \in s.what : Named(d, o) # {}
      [] s.do = "retype" ->
            \A o \in s.what :
                /\ Named(d, o) # {}
                /\ o.table \notin d.rows
                /\ Readers(d, o) = {}
                /\ ~\E x \in d.objects : x.type = "hnsw" /\ Reads(x, o)
      [] OTHER -> TRUE

(* An index or a constraint on a dropped column goes with it.              *)
Gone(d, old) ==
    LET named == UNION {Named(d, o) : o \in old}
    IN  named \union {x \in d.objects : \E c \in named : c.kind = "column" /\ Reads(x, c)}

Effect(d, s) ==
    LET t == {o.table : o \in s.what}
        kept == {n \in d.nulls : n[1] \notin t}
    IN  CASE s.do = "create" ->
               [d EXCEPT !.objects = @ \union s.what,
                         !.nulls = @ \union NullsOf(d, s.what)]
          [] s.do = "create_if_absent" -> [d EXCEPT !.objects = @ \union s.what]
          [] s.do \in {"drop", "drop_if_exists"} ->
               [d EXCEPT !.objects = @ \ Gone(d, s.what),
                         !.nulls = {n \in @ : \A o \in s.what :
                                        ~Same(o, Column(n[1], n[2]))}]
          [] s.do = "drop_table" ->
               [d EXCEPT !.objects = {x \in @ : x.table \notin t},
                         !.rows = @ \ t, !.nulls = kept]
          [] s.do = "truncate" -> [d EXCEPT !.rows = @ \ t, !.nulls = kept]
          [] s.do = "backfill" ->
               [d EXCEPT !.nulls = {n \in @ : \A o \in s.what :
                                        ~Same(o, Column(n[1], n[2]))}]
          [] s.do = "retype" ->
               [d EXCEPT !.objects = {x \in @ : \A o \in s.what : ~Same(x, o)}
                                     \union s.what]
=============================================================================
