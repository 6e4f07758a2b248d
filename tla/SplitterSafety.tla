--------------------------- MODULE SplitterSafety ---------------------------
(***************************************************************************)
(* For every body and every choice of the three sizes: nothing is lost and *)
(* nothing changes places, a unit carries the heading of its long section, *)
(* and short sections are merged as far as there is room.                  *)
(***************************************************************************)
EXTENDS SplitterProofs

Holds(s, i) == i \in sections[s].first..sections[s].last

(* Sections follow each other, and only blank lines lie between them.      *)
Tiled ==
    /\ \A s, t \in DOMAIN sections : s < t => sections[s].last < sections[t].first
    /\ phase = "scan" => \A s \in DOMAIN sections : sections[s].last < line
    /\ \A i \in DOMAIN body :
          (phase = "scan" => i < line) =>
             Blank(i) \/ \E s \in DOMAIN sections : Holds(s, i)

Contains(v, s) == s \in v.first..v.last

Labelled(v) ==
    \/ \E s \in DOMAIN sections :
          /\ {t \in v.first..v.last : ~Short(t)} = {s}
          /\ v.path = sections[s].path
    \/ /\ \A s \in v.first..v.last : Short(s)
       /\ v.path = sections[v.first].path

(* Units follow each other without a gap, up to the section the merge is   *)
(* at.  A run can only wait before the first unit.                         *)
Folded ==
    /\ \A u, v \in DOMAIN units : u < v => units[u].last < units[v].first
    /\ pending # NoRun =>
          units = <<>> /\ \A s \in pending.first..(next - 1) : Short(s)
    /\ phase = "merge" /\ pending = NoRun /\ units # <<>> =>
          units[Len(units)].last = next - 1
    /\ phase # "scan" =>
          \A s \in DOMAIN sections :
             (phase = "merge" => s < next) =>
                \/ pending # NoRun /\ pending.first <= s
                \/ \E u \in DOMAIN units : Contains(units[u], s)
    /\ \A u \in DOMAIN units : Labelled(units[u])
    /\ ShortSectionsMerge

LineChars(i) == body[i].from..(body[i].to - 1)

UnitFirst(u) == sections[units[u].first].first
UnitLast(u) == sections[units[u].last].last

InPassage(c) == \E p \in DOMAIN passages : c \in passages[p].chars

InOrder ==
    \A q \in DOMAIN passages : \A p \in 1..(q - 1) :
       \A c \in passages[p].chars, d \in passages[q].chars : c < d

(* Passages follow each other, before the buffer and before what is still  *)
(* to be packed; and what has been passed is in a passage or the buffer.   *)
Packed ==
    /\ InOrder
    /\ phase \in {"scan", "merge"} => passages = <<>>
    /\ phase # "chunk" => buffer = NoPiece
    /\ phase = "done" => next > Len(units)
    /\ phase = "pack" =>
          \A u \in DOMAIN units : u >= next =>
             \A p \in DOMAIN passages : \A c \in passages[p].chars :
                c < body[UnitFirst(u)].from
    /\ phase \in {"pack", "chunk", "done"} =>
          \A u \in DOMAIN units : u < next =>
             \A i \in UnitFirst(u)..UnitLast(u) : \A c \in LineChars(i) : InPassage(c)

Chunked ==
    phase = "chunk" =>
        /\ at <= body[LastLine].to + 1
        /\ line <= LastLine => body[line].from <= at
        /\ line > LastLine => body[LastLine].to < at
        /\ line <= LastLine /\ Blank(line) => at = body[line].from
        /\ \A c \in buffer.chars : c < at
        /\ body[UnitFirst(next)].from <= at
        /\ \A p \in DOMAIN passages : \A c \in passages[p].chars :
              c < at /\ \A d \in buffer.chars : c < d
        /\ \A i \in UnitFirst(next)..LastLine : \A c \in LineChars(i) :
              c < at => InPassage(c) \/ c \in buffer.chars

SInv == IInv /\ Tiled /\ Folded /\ Packed /\ Chunked

-----------------------------------------------------------------------------
(* The order of lines, sections and units is that of their characters. *)
LEMMA LineOrder ==
    ASSUME NEW b \in Bodies, NEW i \in 1..Len(b), NEW j \in 1..Len(b), i <= j
    PROVE  /\ b[i].from \in Nat /\ b[i].to \in Nat /\ b[j].from \in Nat /\ b[j].to \in Nat
           /\ b[i].from <= b[i].to /\ b[i].from <= b[j].from /\ b[i].to <= b[j].to
           /\ i < j => b[i].to < b[j].from
           /\ j = i + 1 => b[j].from = b[i].to + 1
           /\ b[i].kind = "blank" => b[i].from = b[i].to
<1>1. /\ b[i].from \in Nat /\ b[i].to \in Nat /\ b[j].from \in Nat /\ b[j].to \in Nat
      /\ b[i].from <= b[i].to /\ b[j].from <= b[j].to /\ Len(b) \in Nat
  BY BodyLines
<1>2. i < j => b[i].to < b[j].from
  <2>1. i < j => j \in (i + 1)..Len(b)
    BY <1>1
  <2> QED BY <2>1, BodyLines
<1>3. b[i].kind = "blank" => b[i].from = b[i].to
  BY SplitterAssumption
<1>4. j = i + 1 => b[j].from = b[i].to + 1
  <2>1. j = i + 1 => i < Len(b)
    BY <1>1
  <2> QED BY <2>1, SplitterAssumption
<1> QED BY <1>1, <1>2, <1>3, <1>4

LEMMA SectionOrder ==
    ASSUME IInv, Tiled, NEW s \in DOMAIN sections, NEW t \in DOMAIN sections, s <= t
    PROVE  /\ s \in 1..Len(sections) /\ t \in 1..Len(sections) /\ Len(sections) \in Nat
           /\ sections[s].first \in 1..Len(body) /\ sections[s].last \in 1..Len(body)
           /\ sections[t].first \in 1..Len(body) /\ sections[t].last \in 1..Len(body)
           /\ sections[s].first <= sections[s].last
           /\ sections[s].first <= sections[t].first
           /\ sections[s].last <= sections[t].last
           /\ s < t => sections[s].last < sections[t].first
<1>1. /\ sections[s].first \in 1..Len(body) /\ sections[s].last \in 1..Len(body)
      /\ sections[t].first \in 1..Len(body) /\ sections[t].last \in 1..Len(body)
      /\ sections[s].first <= sections[s].last /\ sections[t].first <= sections[t].last
  BY SectionLength DEF IInv
<1>2. s \in 1..Len(sections) /\ t \in 1..Len(sections) /\ Len(sections) \in Nat
  <2>1. sections \in Seq(Section)
    BY DEF IInv, TypeOK
  <2> QED BY <2>1
<1>3. s < t => sections[s].last < sections[t].first
  BY DEF Tiled
<1> QED BY <1>1, <1>2, <1>3

LEMMA UnitOrder ==
    ASSUME IInv, Tiled, NEW u \in DOMAIN units
    PROVE  /\ u \in 1..Len(units) /\ Len(units) \in Nat
           /\ units[u].first \in DOMAIN sections /\ units[u].last \in DOMAIN sections
           /\ units[u].first \in Nat /\ units[u].last \in Nat
           /\ units[u].first <= units[u].last
           /\ UnitFirst(u) \in 1..Len(body) /\ UnitLast(u) \in 1..Len(body)
           /\ UnitFirst(u) <= UnitLast(u)
           /\ \A s \in units[u].first..units[u].last :
                 /\ s \in DOMAIN sections
                 /\ UnitFirst(u) <= sections[s].first
                 /\ sections[s].last <= UnitLast(u)
<1>1. /\ units \in Seq(Unit) /\ sections \in Seq(Section)
      /\ units[u].first \in DOMAIN sections /\ units[u].last \in DOMAIN sections
      /\ units[u].first <= units[u].last
  BY DEF IInv, TypeOK, UnitsInOrder
<1>2. u \in 1..Len(units) /\ Len(units) \in Nat
  BY <1>1
<1>3. /\ units[u].first \in 1..Len(sections) /\ units[u].last \in 1..Len(sections)
      /\ Len(sections) \in Nat
  BY <1>1
<1>4. /\ UnitFirst(u) \in 1..Len(body) /\ UnitLast(u) \in 1..Len(body)
      /\ sections[units[u].last].first <= UnitLast(u)
      /\ UnitFirst(u) <= sections[units[u].last].first
      /\ UnitFirst(u) <= UnitLast(u)
  BY SMTT(30), <1>1, SectionOrder DEF UnitFirst, UnitLast
<1>5. ASSUME NEW s \in units[u].first..units[u].last
      PROVE  /\ s \in DOMAIN sections
             /\ UnitFirst(u) <= sections[s].first
             /\ sections[s].last <= UnitLast(u)
  <2>1. s \in DOMAIN sections /\ units[u].first <= s /\ s <= units[u].last
    BY <1>1, <1>3
  <2> QED BY <1>1, <2>1, SectionOrder DEF UnitFirst, UnitLast
<1> QED BY <1>1, <1>2, <1>3, <1>4, <1>5

LEMMA UnitsApart ==
    ASSUME IInv, Tiled, Folded, NEW u \in DOMAIN units, NEW v \in DOMAIN units, u < v
    PROVE  /\ UnitLast(u) < UnitFirst(v)
           /\ body[UnitLast(u)].to < body[UnitFirst(v)].from
           /\ body[UnitLast(u)].to \in Nat /\ body[UnitFirst(v)].from \in Nat
<1>1. units[u].last < units[v].first
  BY DEF Folded
<1>2. /\ units[u].last \in DOMAIN sections /\ units[v].first \in DOMAIN sections
      /\ UnitLast(u) \in 1..Len(body) /\ UnitFirst(v) \in 1..Len(body)
  BY UnitOrder
<1>3. UnitLast(u) < UnitFirst(v)
  <2>1. units[u].last \in Nat /\ units[v].first \in Nat /\ units[u].last <= units[v].first
    BY <1>1, UnitOrder
  <2> QED BY <1>1, <1>2, <2>1, SectionOrder DEF UnitFirst, UnitLast
<1>4. UnitLast(u) <= UnitFirst(v)
  BY <1>2, <1>3
<1> QED BY <1>2, <1>3, <1>4, LineOrder DEF IInv

(* A character of a unit's lines is in one of the unit's sections.         *)
LEMMA UnitCharacters ==
    ASSUME IInv, Tiled, phase # "scan", NEW u \in DOMAIN units,
           NEW i \in UnitFirst(u)..UnitLast(u), NEW c \in LineChars(i)
    PROVE  \E s \in units[u].first..units[u].last :
              c \in body[sections[s].first].from..(body[sections[s].last].to - 1)
<1>1. /\ i \in 1..Len(body) /\ i \in DOMAIN body /\ Len(body) \in Nat
      /\ body[i].from \in Nat /\ body[i].to \in Nat
  <2>1. i \in 1..Len(body) /\ Len(body) \in Nat
    BY UnitOrder, BodyLines DEF IInv
  <2> QED BY <2>1, BodyLines DEF IInv
<1>2. ~Blank(i)
  BY <1>1, LineOrder DEF LineChars, Blank, IInv
<1>3. PICK s \in DOMAIN sections : Holds(s, i)
  BY <1>1, <1>2 DEF Tiled
<1>4. s \in units[u].first..units[u].last
  <2>1. /\ units[u].first \in DOMAIN sections /\ units[u].last \in DOMAIN sections
        /\ units[u].first \in Nat /\ units[u].last \in Nat
    BY UnitOrder
  <2>2. /\ s \in Nat /\ sections[s].first \in Nat /\ sections[s].last \in Nat
        /\ sections[s].first <= i /\ i <= sections[s].last
    <3>1. s \in 1..Len(sections) /\ sections[s].first \in 1..Len(body)
          /\ sections[s].last \in 1..Len(body)
      BY SectionOrder DEF IInv, TypeOK
    <3> QED BY <1>3, <3>1 DEF Holds
  <2>3. ~(s < units[u].first)
    <3>1. SUFFICES ASSUME s < units[u].first PROVE FALSE
      OBVIOUS
    <3>2. s <= units[u].first
      BY <2>1, <2>2, <3>1
    <3>3. /\ sections[s].last < sections[units[u].first].first
          /\ sections[units[u].first].first \in Nat
      BY <2>1, <3>1, <3>2, SectionOrder
    <3>4. sections[units[u].first].first <= i
      BY DEF UnitFirst
    <3> QED BY <1>1, <2>2, <3>3, <3>4
  <2>4. ~(units[u].last < s)
    <3>1. SUFFICES ASSUME units[u].last < s PROVE FALSE
      OBVIOUS
    <3>2. units[u].last <= s
      BY <2>1, <2>2, <3>1
    <3>3. /\ sections[units[u].last].last < sections[s].first
          /\ sections[units[u].last].last \in Nat
      BY <2>1, <3>1, <3>2, SectionOrder
    <3>4. i <= sections[units[u].last].last
      BY DEF UnitLast
    <3> QED BY <1>1, <2>2, <3>3, <3>4
  <2> QED BY <2>1, <2>2, <2>3, <2>4
<1>5. /\ sections[s].first \in 1..Len(body) /\ sections[s].last \in 1..Len(body)
      /\ sections[s].first <= i /\ i <= sections[s].last
  BY <1>1, <1>3, SectionOrder DEF Holds, IInv, TypeOK
<1>6. /\ body[sections[s].first].from <= body[i].from
      /\ body[i].to <= body[sections[s].last].to
      /\ body[sections[s].first].from \in Nat /\ body[sections[s].last].to \in Nat
  BY <1>1, <1>5, LineOrder DEF IInv
<1> QED BY SMTT(30), <1>1, <1>4, <1>6 DEF LineChars

-----------------------------------------------------------------------------
(* Sections. *)
LEMMA ScanTiles == ASSUME IInv, Tiled, ScanSection PROVE Tiled'
<1>1. /\ phase = "scan" /\ phase' = "scan" /\ line \in 1..Len(body)
      /\ Len(body) \in Nat /\ sections \in Seq(Section) /\ body' = body
      /\ DOMAIN body = 1..Len(body)
  BY BodyLines DEF ScanSection, IInv, TypeOK
<1>2. PICK end \in line..Len(body) : \E last \in line..end :
         /\ \A i \in (last + 1)..end : Blank(i)
         /\ line' = end + 1
         /\ sections' =
               Append(sections, [first |-> line, last |-> last,
                                 path |-> IF Cut(line) THEN line ELSE NoPath])
  BY DEF ScanSection
<1>3. PICK last \in line..end :
       /\ \A i \in (last + 1)..end : Blank(i)
       /\ line' = end + 1
       /\ sections' =
             Append(sections, [first |-> line, last |-> last,
                               path |-> IF Cut(line) THEN line ELSE NoPath])
  BY <1>2
<1> DEFINE new == [first |-> line, last |-> last,
                   path |-> IF Cut(line) THEN line ELSE NoPath]
           n == Len(sections)
<1>4. new.first = line /\ new.last = last /\ new \in Section
  BY <1>1 DEF Section, Path, NoPath
<1>5. n \in Nat /\ DOMAIN sections = 1..n /\ sections' = Append(sections, new)
  BY <1>1, <1>3
<1> HIDE DEF new
<1>6. /\ DOMAIN sections' = 1..(n + 1)
      /\ sections'[n + 1] = new
      /\ \A s \in 1..n : sections'[s] = sections[s]
  BY <1>1, <1>4, <1>5, Appending
<1>7. \A s \in 1..n :
         /\ sections[s].last < line
         /\ sections[s].first \in 1..Len(body) /\ sections[s].last \in 1..Len(body)
  BY <1>1, <1>5, SectionLength DEF IInv, Tiled
<1> HIDE DEF n
<1>8. \A s, t \in DOMAIN sections' : s < t => sections'[s].last < sections'[t].first
  <2> SUFFICES ASSUME NEW s \in 1..(n + 1), NEW t \in 1..(n + 1), s < t
               PROVE  sections'[s].last < sections'[t].first
    BY <1>6
  <2>1. s \in 1..n
    BY <1>5
  <2>2. CASE t = n + 1
    BY <1>4, <1>6, <1>7, <2>1, <2>2
  <2>3. CASE t # n + 1
    <3>1. t \in 1..n
      BY <1>5, <2>3
    <3> QED BY <1>5, <1>6, <2>1, <3>1 DEF Tiled
  <2> QED BY <2>2, <2>3
<1>9. \A s \in DOMAIN sections' : sections'[s].last < line'
  <2> SUFFICES ASSUME NEW s \in 1..(n + 1) PROVE sections'[s].last < line'
    BY <1>6
  <2>1. CASE s = n + 1
    BY <1>1, <1>3, <1>4, <1>6, <2>1
  <2>2. CASE s # n + 1
    <3>1. s \in 1..n
      BY <1>5, <2>2
    <3>2. sections'[s].last = sections[s].last
      BY <1>6, <3>1
    <3>3. sections[s].last < line /\ sections[s].last \in Nat
      BY <1>7, <3>1
    <3>4. line < line' /\ line \in Nat /\ line' \in Nat
      BY <1>1, <1>3
    <3> QED BY <3>2, <3>3, <3>4
  <2> QED BY <2>1, <2>2
<1>10. ASSUME NEW i \in DOMAIN body, i < line'
      PROVE  Blank(i) \/ \E s \in DOMAIN sections' : i \in sections'[s].first..sections'[s].last
  <2>1. CASE i < line
    <3>1. Blank(i) \/ \E s \in DOMAIN sections : Holds(s, i)
      BY <2>1 DEF Tiled
    <3> QED BY <1>5, <1>6, <3>1 DEF Holds
  <2>2. CASE i \in line..last
    BY <1>4, <1>5, <1>6, <2>2
  <2>3. CASE i \in (last + 1)..end
    BY <1>3, <2>3
  <2> QED BY <1>1, <1>3, <1>10, <2>1, <2>2, <2>3
<1>11. \A i \in DOMAIN body' :
          (phase' = "scan" => i < line') =>
             Blank(i)' \/ \E s \in DOMAIN sections' : Holds(s, i)'
  BY <1>1, <1>10 DEF Holds, Blank
<1> QED BY <1>8, <1>9, <1>11 DEF Tiled

LEMMA UseTiles == ASSUME IInv, Tiled, UseSections PROVE Tiled'
<1>1. /\ phase = "scan" /\ phase' = "merge" /\ line > Len(body)
      /\ body' = body /\ sections' = sections /\ DOMAIN body = 1..Len(body)
      /\ Len(body) \in Nat /\ line \in 1..(Len(body) + 1)
  BY BodyLines DEF UseSections, IInv, TypeOK
<1>2. \A i \in DOMAIN body : i < line
  BY <1>1
<1> QED BY <1>1, <1>2 DEF Tiled, Holds, Blank

LEMMA KeepWholeTiles == ASSUME IInv, Tiled, KeepWhole PROVE Tiled'
<1>1. /\ phase' = "pack" /\ body' = body
      /\ sections' = <<[first |-> 1, last |-> Len(body), path |-> NoPath]>>
      /\ Len(body) \in Nat \ {0} /\ DOMAIN body = 1..Len(body)
  BY BodyLines DEF KeepWhole, IInv
<1>2. /\ DOMAIN sections' = {1} /\ sections'[1].first = 1 /\ sections'[1].last = Len(body)
  BY <1>1
<1>3. \A s, t \in DOMAIN sections' : ~(s < t)
  BY <1>2
<1>4. \A i \in DOMAIN body' : \E s \in DOMAIN sections' : Holds(s, i)'
  BY <1>1, <1>2 DEF Holds
<1> QED BY <1>1, <1>3, <1>4 DEF Tiled

LEMMA StillTiled ==
    ASSUME Tiled, phase # "scan", phase' # "scan", UNCHANGED <<body, sections>>
    PROVE  Tiled'
BY DEF Tiled, Holds, Blank

-----------------------------------------------------------------------------
(* Units.  A list of units that is good up to section n covers the first n *)
(* sections, in order, and no unit in it has room for the next one's short *)
(* first section.                                                          *)
FoldedTo(q, n) ==
    /\ q \in Seq(Unit)
    /\ \A u, v \in DOMAIN q : u < v => q[u].last < q[v].first
    /\ \A u \in DOMAIN q : q[u].first <= q[u].last /\ q[u].last <= n
    /\ q # <<>> => q[Len(q)].last = n
    /\ \A s \in 1..n : \E u \in DOMAIN q : Contains(q[u], s)
    /\ \A u \in DOMAIN q : Labelled(q[u])
    /\ \A u \in DOMAIN q \ {1} :
          Short(q[u].first)
             => q[u - 1].len + Gap + SectionLen(q[u].first) > TargetChars

LEMMA FoldedAppend ==
    ASSUME NEW n \in Nat, NEW q, FoldedTo(q, n), NEW v \in Unit,
           v.first = n + 1, v.first <= v.last, Labelled(v),
           q # <<>> /\ Short(v.first) =>
              q[Len(q)].len + Gap + SectionLen(v.first) > TargetChars
    PROVE  FoldedTo(Append(q, v), v.last)
<1> DEFINE r == Append(q, v)
           m == Len(q)
<1>1. /\ q \in Seq(Unit) /\ m \in Nat /\ DOMAIN q = 1..m
      /\ v.first \in Nat /\ v.last \in Nat /\ (q = <<>> <=> m = 0)
  BY DEF FoldedTo, Unit
<1>2. /\ r \in Seq(Unit) /\ Len(r) = m + 1 /\ DOMAIN r = 1..(m + 1)
      /\ r[m + 1] = v /\ \A u \in 1..m : r[u] = q[u]
  BY <1>1, Appending
<1>3. \A u \in 1..m : q[u] \in Unit /\ q[u].first \in Nat /\ q[u].last \in Nat
  <2>1. \A u \in 1..m : q[u] \in Unit
    BY <1>1
  <2> QED BY <2>1 DEF Unit
<1> HIDE DEF r, m
<1>4. \A u, w \in DOMAIN r : u < w => r[u].last < r[w].first
  <2> SUFFICES ASSUME NEW u \in 1..(m + 1), NEW w \in 1..(m + 1), u < w
               PROVE  r[u].last < r[w].first
    BY <1>2
  <2>1. u \in 1..m
    BY <1>1
  <2>2. CASE w = m + 1
    <3>1. q[u].last <= n
      BY <1>1, <2>1 DEF FoldedTo
    <3> QED BY <1>2, <1>3, <2>1, <2>2, <3>1
  <2>3. CASE w # m + 1
    <3>1. w \in 1..m
      BY <1>1, <2>3
    <3> QED BY <1>1, <1>2, <2>1, <3>1 DEF FoldedTo
  <2> QED BY <2>2, <2>3
<1>5. ASSUME NEW u \in DOMAIN r
      PROVE  r[u].first <= r[u].last /\ r[u].last <= v.last /\ Labelled(r[u])
  <2>1. CASE u = m + 1
    <3>1. r[u] = v
      BY <1>2, <2>1
    <3>2. r[u].first <= r[u].last /\ r[u].last <= v.last
      BY <1>1, <3>1
    <3>3. Labelled(r[u])
      BY <3>1 DEF Labelled
    <3> QED BY <3>2, <3>3
  <2>2. CASE u # m + 1
    <3>1. u \in 1..m
      BY <1>1, <1>2, <1>5, <2>2
    <3>2. r[u] = q[u] /\ q[u].first <= q[u].last /\ q[u].last <= n
      BY <1>1, <1>2, <3>1 DEF FoldedTo
    <3>3. r[u].first <= r[u].last /\ r[u].last <= v.last
      BY <1>1, <1>3, <3>1, <3>2
    <3>4. Labelled(q[u])
      BY <1>1, <3>1 DEF FoldedTo
    <3>5. Labelled(r[u])
      BY <3>2, <3>4 DEF Labelled
    <3> QED BY <3>3, <3>5
  <2> QED BY <2>1, <2>2
<1>6. ASSUME NEW s \in 1..v.last
      PROVE  \E u \in DOMAIN r : Contains(r[u], s)
  <2>1. CASE s \in 1..n
    <3>1. PICK u \in DOMAIN q : Contains(q[u], s)
      BY <2>1 DEF FoldedTo
    <3> QED BY <1>1, <1>2, <3>1
  <2>2. CASE s \notin 1..n
    <3>1. s \in v.first..v.last
      BY <1>1, <2>2
    <3>2. Contains(r[m + 1], s) /\ m + 1 \in DOMAIN r
      BY <1>1, <1>2, <3>1 DEF Contains
    <3> QED BY <3>2
  <2> QED BY <2>1, <2>2
<1>7. ASSUME NEW u \in DOMAIN r \ {1}, Short(r[u].first)
      PROVE  r[u - 1].len + Gap + SectionLen(r[u].first) > TargetChars
  <2>1. CASE u = m + 1
    <3>1. m # 0 /\ q # <<>> /\ u - 1 = m /\ r[u - 1] = q[m]
      BY <1>1, <1>2, <1>7, <2>1
    <3> QED BY <1>2, <1>7, <2>1, <3>1 DEF m
  <2>2. CASE u # m + 1
    <3>1. u \in 1..m /\ u - 1 \in 1..m /\ u \in DOMAIN q \ {1}
      BY <1>1, <1>2, <1>7, <2>2
    <3> QED BY <1>2, <1>7, <3>1 DEF FoldedTo
  <2> QED BY <2>1, <2>2
<1>8. r # <<>> /\ r[Len(r)].last = v.last
  BY <1>1, <1>2
<1>9. FoldedTo(r, v.last)
  BY <1>2, <1>4, <1>5, <1>6, <1>7, <1>8 DEF FoldedTo
<1> QED BY <1>9 DEF r

(* What the merge has folded, once the run that waits is flushed. *)
LEMMA FlushedFolded ==
    ASSUME IInv, Folded, phase = "merge"
    PROVE  /\ next - 1 \in Nat
           /\ pending = NoRun => FoldedTo(units, next - 1)
           /\ pending # NoRun =>
                 /\ units = <<>>
                 /\ pending.first = 1
                 /\ \A s \in 1..(next - 1) : Short(s)
                 /\ PendingUnit \in Unit
                 /\ FoldedTo(Append(units, PendingUnit), next - 1)
<1>1. /\ next \in Nat \ {0} /\ units \in Seq(Unit) /\ sections \in Seq(Section)
      /\ next <= Len(sections) + 1 /\ Len(sections) \in Nat
      /\ DOMAIN sections = 1..Len(sections)
      /\ \A u \in DOMAIN units : units[u].last < next
  BY DEF IInv, TypeOK, MergeInv
<1>2. \A u \in DOMAIN units : units[u].last \in Nat
  <2>1. \A u \in DOMAIN units : units[u] \in Unit
    BY <1>1
  <2> QED BY <2>1 DEF Unit
<1>3. \A s \in 1..(next - 1) :
         \/ pending # NoRun /\ pending.first <= s
         \/ \E u \in DOMAIN units : Contains(units[u], s)
  <2>1. \A s \in 1..(next - 1) : s \in DOMAIN sections /\ s < next
    BY <1>1
  <2> QED BY <2>1 DEF Folded
<1>4. ASSUME pending = NoRun
      PROVE  FoldedTo(units, next - 1)
  <2>1. \A u \in DOMAIN units : units[u].first <= units[u].last /\ units[u].last <= next - 1
    BY <1>1, <1>2 DEF IInv, UnitsInOrder
  <2>2. units # <<>> => units[Len(units)].last = next - 1
    BY <1>4 DEF Folded
  <2>3. \A s \in 1..(next - 1) : \E u \in DOMAIN units : Contains(units[u], s)
    BY <1>3, <1>4
  <2> QED BY <1>1, <2>1, <2>2, <2>3 DEF Folded, FoldedTo, ShortSectionsMerge
<1>5. ASSUME pending # NoRun
      PROVE  /\ units = <<>> /\ pending.first = 1
             /\ \A s \in 1..(next - 1) : Short(s)
             /\ PendingUnit \in Unit
             /\ FoldedTo(Append(units, PendingUnit), next - 1)
  <2>1. units = <<>> /\ \A s \in pending.first..(next - 1) : Short(s)
    BY <1>5 DEF Folded
  <2>2. pending.first \in 1..(next - 1)
    BY <1>5 DEF IInv, MergeInv
  <2>3. pending.first = 1
    <3>1. 1 \in 1..(next - 1)
      BY <1>1, <2>2
    <3>2. pending.first <= 1
      BY <1>3, <2>1, <3>1
    <3> QED BY <2>2, <3>2
  <2>4. PendingUnit \in Unit
    BY <1>5, PendingIsGood DEF GoodUnit
  <2>5. /\ PendingUnit.first = 1 /\ PendingUnit.last = next - 1
        /\ PendingUnit.path = sections[1].path
    BY <2>3 DEF PendingUnit
  <2> HIDE DEF PendingUnit
  <2>6. Labelled(PendingUnit)
    BY <2>1, <2>3, <2>5 DEF Labelled
  <2>7. FoldedTo(<<>>, 0)
    BY DEF FoldedTo
  <2>8. FoldedTo(Append(units, PendingUnit), PendingUnit.last)
    <3>1. PendingUnit.first = 0 + 1 /\ PendingUnit.first <= PendingUnit.last
      BY <1>1, <2>2, <2>5
    <3> QED BY <2>1, <2>4, <2>6, <2>7, <3>1, FoldedAppend
  <2> QED BY <2>1, <2>3, <2>4, <2>5, <2>8
<1> QED BY <1>1, <1>4, <1>5

(* A unit keeps its label when the sections stay as they are. *)
LEMMA SameLabel ==
    ASSUME UNCHANGED <<body, sections>>, NEW u, Labelled(units'[u])
    PROVE  Labelled(units[u])'
BY DEF Labelled, Short, SectionLen, TextLen

LEMMA SameMerging ==
    ASSUME UNCHANGED <<body, sections>>,
           \A u \in DOMAIN units' \ {1} :
              Short(units'[u].first)
                 => units'[u - 1].len + Gap + SectionLen(units'[u].first) > TargetChars
    PROVE  ShortSectionsMerge'
BY DEF ShortSectionsMerge, Short, SectionLen, TextLen

(* A step of the merge that leaves no run waiting. *)
LEMMA MergeFolds ==
    ASSUME IInv, Folded, phase = "merge", phase' \in {"merge", "pack"},
           NEW n, FoldedTo(units', n), pending' = NoRun,
           phase' = "merge" => next' \in Nat /\ n = next' - 1,
           phase' = "pack" => n = Len(sections),
           UNCHANGED <<body, sections>>
    PROVE  Folded'
<1>1. \A u, v \in DOMAIN units' : u < v => units'[u].last < units'[v].first
  BY DEF FoldedTo
<1>2. phase' = "merge" /\ units' # <<>> => units'[Len(units')].last = next' - 1
  BY DEF FoldedTo
<1>3. ASSUME NEW s \in DOMAIN sections, phase' = "merge" => s < next'
      PROVE  \E u \in DOMAIN units' : Contains(units'[u], s)
  <2>1. s \in 1..n
    <3>1. s \in 1..Len(sections) /\ Len(sections) \in Nat
      BY DEF IInv, TypeOK
    <3> QED BY <1>3, <3>1
  <2> QED BY <2>1 DEF FoldedTo
<1>4. \A u \in DOMAIN units' : Labelled(units[u])'
  <2>1. \A u \in DOMAIN units' : Labelled(units'[u])
    BY DEF FoldedTo
  <2> QED BY <2>1, SameLabel
<1>5. ShortSectionsMerge'
  <2>1. \A u \in DOMAIN units' \ {1} :
           Short(units'[u].first)
              => units'[u - 1].len + Gap + SectionLen(units'[u].first) > TargetChars
    BY DEF FoldedTo
  <2> QED BY <2>1, SameMerging
<1>6. \A s \in DOMAIN sections' :
         (phase' = "merge" => s < next') =>
            \E u \in DOMAIN units' : Contains(units[u], s)'
  BY <1>3 DEF Contains
<1> QED BY <1>1, <1>2, <1>4, <1>5, <1>6 DEF Folded

(* A step that leaves sections and units as they are, after the merge. *)
LEMMA StillFolded ==
    ASSUME IInv, Folded, phase \in {"pack", "chunk", "done"},
           phase' \in {"pack", "chunk", "done"},
           UNCHANGED <<body, sections, units, pending>>
    PROVE  Folded'
<1>1. \A u \in DOMAIN units' : Labelled(units[u])'
  <2>1. \A u \in DOMAIN units : Labelled(units[u])
    BY DEF Folded
  <2>2. \A u \in DOMAIN units' : Labelled(units'[u])
    BY <2>1
  <2> QED BY <2>2, SameLabel
<1>2. ShortSectionsMerge'
  BY SameMerging DEF Folded, ShortSectionsMerge
<1>3. pending = NoRun
  BY DEF IInv, MergeInv
<1> QED BY <1>1, <1>2, <1>3 DEF Folded, Contains

LEMMA ScanFolds == ASSUME IInv, ScanSection PROVE Folded'
<1>1. /\ phase' = "scan" /\ units' = <<>> /\ pending' = NoRun
  BY DEF ScanSection, IInv, ScanInv
<1>2. DOMAIN units' = {}
  BY <1>1
<1>3. ShortSectionsMerge'
  BY <1>2 DEF ShortSectionsMerge
<1> QED BY <1>1, <1>2, <1>3 DEF Folded

LEMMA UseFolds == ASSUME IInv, UseSections PROVE Folded'
<1>1. /\ phase' = "merge" /\ units' = <<>> /\ pending' = NoRun /\ next' = 1
      /\ sections' = sections /\ sections \in Seq(Section)
  BY DEF UseSections, IInv, ScanInv, TypeOK
<1>2. DOMAIN units' = {} /\ \A s \in DOMAIN sections' : ~(s < next')
  BY <1>1
<1>3. ShortSectionsMerge'
  BY <1>2 DEF ShortSectionsMerge
<1> QED BY <1>1, <1>2, <1>3 DEF Folded

LEMMA KeepWholeFolds == ASSUME IInv, KeepWhole PROVE Folded'
<1>1. /\ phase' = "pack" /\ pending' = NoRun
      /\ sections' = <<[first |-> 1, last |-> Len(body), path |-> NoPath]>>
      /\ units' = <<[first |-> 1, last |-> 1, path |-> NoPath, len |-> BodyLen]>>
  BY DEF KeepWhole, IInv, ScanInv
<1>2. /\ DOMAIN units' = {1} /\ DOMAIN sections' = {1}
      /\ units'[1].first = 1 /\ units'[1].last = 1
      /\ units'[1].path = sections'[1].path
  BY <1>1
<1>3. Labelled(units[1])'
  <2>1. units'[1].first..units'[1].last = {1}
    BY <1>2
  <2>2. CASE Short(1)'
    BY <1>2, <2>1, <2>2 DEF Labelled
  <2>3. CASE ~Short(1)'
    <3>1. {t \in units'[1].first..units'[1].last : ~Short(t)'} = {1}
      BY <2>1, <2>3
    <3> QED BY <1>2, <3>1 DEF Labelled
  <2> QED BY <2>2, <2>3
<1>4. ShortSectionsMerge'
  BY <1>2 DEF ShortSectionsMerge
<1>5. \A s \in DOMAIN sections' : \E u \in DOMAIN units' : Contains(units[u], s)'
  BY <1>2 DEF Contains
<1> QED BY <1>1, <1>2, <1>3, <1>4, <1>5 DEF Folded

LEMMA JoinPendingFolds == ASSUME IInv, Folded, JoinPending PROVE Folded'
<1>1. /\ phase = "merge" /\ phase' = "merge" /\ next' = next + 1 /\ next \in Nat \ {0}
      /\ Short(next) /\ pending # NoRun
      /\ pending' = [pending EXCEPT !.len = @ + Gap + SectionLen(next)]
      /\ pending \in Run
      /\ UNCHANGED <<body, sections, units>>
  BY DEF JoinPending, Merging, IInv, TypeOK
<1>2. units = <<>> /\ pending.first = 1 /\ \A s \in 1..(next - 1) : Short(s)
  BY <1>1, FlushedFolded
<1>3. pending'.first = 1 /\ pending' # NoRun
  BY <1>1, <1>2 DEF Run, NoRun
<1>4. \A s \in 1..(next' - 1) : Short(s)'
  <2>1. \A s : Short(s)' <=> Short(s)
    BY <1>1 DEF Short, SectionLen, TextLen
  <2>2. \A s \in 1..(next' - 1) : s = next \/ s \in 1..(next - 1)
    BY <1>1
  <2> QED BY <1>1, <1>2, <2>1, <2>2
<1>5. DOMAIN units' = {} /\ units' = <<>>
  BY <1>1, <1>2
<1>6. ShortSectionsMerge'
  BY <1>5 DEF ShortSectionsMerge
<1>7. \A s \in DOMAIN sections' : pending'.first <= s
  <2>1. sections \in Seq(Section)
    BY DEF IInv, TypeOK
  <2> QED BY <1>1, <1>3, <2>1
<1> QED BY <1>3, <1>4, <1>5, <1>6, <1>7 DEF Folded

LEMMA OpenPendingFolds == ASSUME IInv, Folded, OpenPending PROVE Folded'
<1>1. /\ phase = "merge" /\ phase' = "merge" /\ next' = next + 1 /\ next \in Nat \ {0}
      /\ Short(next) /\ Flushed(next) = <<>>
      /\ pending' = [first |-> next, len |-> SectionLen(next)]
      /\ UNCHANGED <<body, sections, units>>
  BY DEF OpenPending, Merging, IInv, TypeOK
<1>2. pending = NoRun /\ units = <<>>
  <2>1. \A v : Append(<<>>, v) # <<>>
    OBVIOUS
  <2>2. pending # NoRun => Flushed(next) = Append(<<>>, PendingUnit)
    BY <1>1, FlushedFolded DEF Flushed
  <2>3. pending = NoRun
    BY <1>1, <2>1, <2>2
  <2> QED BY <1>1, <2>3 DEF Flushed
<1>3. next = 1
  <2>1. FoldedTo(units, next - 1) /\ next - 1 \in Nat
    BY <1>1, <1>2, FlushedFolded
  <2>2. \A s \in 1..(next - 1) : FALSE
    BY <1>2, <2>1 DEF FoldedTo
  <2> QED BY <1>1, <2>1, <2>2
<1>4. pending'.first = 1 /\ pending' # NoRun
  BY <1>1, <1>3 DEF NoRun
<1>5. \A s \in 1..(next' - 1) : Short(s)'
  <2>1. \A s : Short(s)' <=> Short(s)
    BY <1>1 DEF Short, SectionLen, TextLen
  <2>2. \A s \in 1..(next' - 1) : s = next
    BY <1>1, <1>3
  <2> QED BY <1>1, <2>1, <2>2
<1>6. DOMAIN units' = {} /\ units' = <<>>
  BY <1>1, <1>2
<1>7. ShortSectionsMerge'
  BY <1>6 DEF ShortSectionsMerge
<1>8. \A s \in DOMAIN sections' : pending'.first <= s
  <2>1. sections \in Seq(Section)
    BY DEF IInv, TypeOK
  <2> QED BY <1>1, <1>4, <2>1
<1> QED BY <1>4, <1>5, <1>6, <1>7, <1>8 DEF Folded

LEMMA ExtendedLabel ==
    ASSUME NEW v \in Unit, Labelled(v), NEW s \in Nat, s = v.last + 1, Short(s)
    PROVE  Labelled(Extended(v, s))
<1> DEFINE w == Extended(v, s)
<1>1. w.first = v.first /\ w.last = s /\ w.path = v.path
  BY DEF Extended
<1>2. v.first \in Nat /\ v.last \in Nat
  BY DEF Unit
<1> HIDE DEF w
<1>3. {t \in w.first..w.last : ~Short(t)} = {t \in v.first..v.last : ~Short(t)}
  <2>1. \A t : t \in w.first..w.last /\ t # s <=> t \in v.first..v.last
    BY <1>1, <1>2
  <2> QED BY <2>1
<1>4. (\A t \in v.first..v.last : Short(t)) => \A t \in w.first..w.last : Short(t)
  BY <1>1, <1>2
<1>5. Labelled(w)
  BY <1>1, <1>3, <1>4 DEF Labelled
<1> QED BY <1>5 DEF w

LEMMA FoldedExtend ==
    ASSUME NEW n \in Nat, NEW q, FoldedTo(q, n), q # <<>>, Short(n + 1),
           NEW r, r = [q EXCEPT ![Len(q)] = Extended(q[Len(q)], n + 1)],
           r \in Seq(Unit)
    PROVE  FoldedTo(r, n + 1)
<1> DEFINE m == Len(q)
           w == Extended(q[m], n + 1)
<1>1. /\ q \in Seq(Unit) /\ m \in Nat \ {0} /\ DOMAIN q = 1..m /\ q[m].last = n
      /\ DOMAIN r = 1..m /\ Len(r) = m
      /\ r[m] = w /\ \A u \in 1..(m - 1) : r[u] = q[u]
  <2>1. q \in Seq(Unit) /\ m \in Nat \ {0} /\ DOMAIN q = 1..m /\ q[m].last = n
    BY DEF FoldedTo
  <2>2. DOMAIN r = 1..m /\ r[m] = w /\ \A u \in 1..(m - 1) : r[u] = q[u]
    <3> HIDE DEF w
    <3> QED BY <2>1 DEF w
  <2>3. Len(r) = m
    <3> HIDE DEF m
    <3>1. DOMAIN r = 1..Len(r) /\ Len(r) \in Nat
      OBVIOUS
    <3> QED BY <2>1, <2>2, <3>1
  <2> QED BY <2>1, <2>2, <2>3
<1>2. w.first = q[m].first /\ w.last = n + 1
  BY DEF Extended
<1>3. \A u \in 1..m :
         /\ q[u] \in Unit /\ q[u].first \in Nat /\ q[u].last \in Nat
         /\ q[u].first <= q[u].last /\ q[u].last <= n
         /\ r[u].first = q[u].first
  <2>1. \A u \in 1..m : q[u] \in Unit
    BY <1>1
  <2>2. \A u \in 1..m : q[u].first <= q[u].last /\ q[u].last <= n
    BY <1>1 DEF FoldedTo
  <2>3. \A u \in 1..m : r[u].first = q[u].first
    BY <1>1, <1>2
  <2> QED BY <2>1, <2>2, <2>3 DEF Unit
<1>4. Labelled(w)
  <2> HIDE DEF m
  <2>1. \A u \in DOMAIN q : Labelled(q[u])
    BY DEF FoldedTo
  <2>2. Labelled(q[m])
    BY <1>1, <2>1
  <2>3. q[m] \in Unit /\ n + 1 = q[m].last + 1
    BY <1>1
  <2> QED BY <2>2, <2>3, ExtendedLabel
<1> HIDE DEF m, w
<1>5. \A u, v \in DOMAIN r : u < v => r[u].last < r[v].first
  <2> SUFFICES ASSUME NEW u \in 1..m, NEW v \in 1..m, u < v
               PROVE  r[u].last < r[v].first
    BY <1>1
  <2>1. u \in 1..(m - 1) /\ r[u] = q[u]
    BY <1>1
  <2>2. q[u].last < q[v].first
    BY <1>1 DEF FoldedTo
  <2> QED BY <1>3, <2>1, <2>2
<1>6. ASSUME NEW u \in DOMAIN r
      PROVE  r[u].first <= r[u].last /\ r[u].last <= n + 1
  <2>1. CASE u = m
    <3>1. r[u] = w /\ q[m].first <= n /\ q[m].first \in Nat
      BY <1>1, <1>3, <2>1
    <3> QED BY <1>2, <3>1
  <2>2. CASE u # m
    <3>1. u \in 1..(m - 1) /\ u \in 1..m
      BY <1>1, <1>6, <2>2
    <3> QED BY <1>1, <1>3, <3>1
  <2> QED BY <2>1, <2>2
<1>7. ASSUME NEW u \in DOMAIN r
      PROVE  Labelled(r[u])
  <2>1. CASE u = m
    <3>1. r[u] = w
      BY <1>1, <2>1
    <3> QED BY <1>4, <3>1 DEF Labelled
  <2>2. CASE u # m
    <3>1. u \in 1..m /\ r[u] = q[u]
      BY <1>1, <1>7, <2>2
    <3>2. Labelled(q[u])
      BY <1>1, <3>1 DEF FoldedTo
    <3> QED BY <3>1, <3>2 DEF Labelled
  <2> QED BY <2>1, <2>2
<1>8. ASSUME NEW s \in 1..(n + 1)
      PROVE  \E u \in DOMAIN r : Contains(r[u], s)
  <2>1. CASE s \in 1..n
    <3>1. PICK u \in 1..m : Contains(q[u], s)
      BY <1>1, <2>1 DEF FoldedTo
    <3>2. CASE u = m
      <4>1. s \in w.first..w.last
        BY <1>1, <1>2, <1>3, <2>1, <3>1, <3>2 DEF Contains
      <4> QED BY <1>1, <4>1 DEF Contains
    <3>3. CASE u # m
      <4>1. r[u] = q[u]
        BY <1>1, <3>3
      <4> QED BY <1>1, <3>1, <4>1 DEF Contains
    <3> QED BY <3>2, <3>3
  <2>2. CASE s = n + 1
    <3>1. n + 1 \in w.first..w.last
      BY <1>1, <1>2, <1>3
    <3> QED BY <1>1, <2>2, <3>1 DEF Contains
  <2> QED BY <2>1, <2>2
<1>9. ASSUME NEW u \in DOMAIN r \ {1}, Short(r[u].first)
      PROVE  r[u - 1].len + Gap + SectionLen(r[u].first) > TargetChars
  <2>1. u \in 1..m /\ u - 1 \in 1..(m - 1) /\ u \in DOMAIN q \ {1}
    BY <1>1, <1>9
  <2>2. r[u - 1] = q[u - 1] /\ r[u].first = q[u].first
    BY <1>1, <1>3, <2>1
  <2> QED BY <1>9, <2>1, <2>2 DEF FoldedTo
<1>10. \A s \in 1..(n + 1) : \E u \in DOMAIN r : Contains(r[u], s)
  BY <1>8
<1>11. r # <<>> /\ r[Len(r)].last = n + 1
  BY <1>1, <1>2
<1>12. \A u \in DOMAIN r : Labelled(r[u])
  BY <1>7
<1> QED BY <1>5, <1>6, <1>9, <1>10, <1>11, <1>12 DEF FoldedTo

LEMMA FlushedList ==
    ASSUME IInv, Folded, phase = "merge", Short(next)
    PROVE  FoldedTo(Flushed(next), next - 1) /\ next - 1 \in Nat
BY FlushedFolded DEF Flushed

LEMMA JoinPreviousFolds == ASSUME IInv, IInv', Folded, JoinPrevious PROVE Folded'
<1> DEFINE base == Flushed(next)
<1>1. /\ phase = "merge" /\ phase' = "merge" /\ next' = next + 1 /\ next \in Nat \ {0}
      /\ Short(next) /\ pending' = NoRun /\ Len(base) > 0
      /\ units' = [base EXCEPT ![Len(base)] = Extended(base[Len(base)], next)]
      /\ UNCHANGED <<body, sections>>
  BY DEF JoinPrevious, Merging, IInv, TypeOK
<1>2. FoldedTo(base, next - 1) /\ next - 1 \in Nat
  BY <1>1, FlushedList
<1>3. base # <<>> /\ (next - 1) + 1 = next /\ next' - 1 = next
  BY <1>1
<1>4. units' \in Seq(Unit)
  BY DEF IInv, TypeOK
<1> HIDE DEF base
<1>5. FoldedTo(units', next)
  <2> DEFINE k == next - 1
  <2>1. k + 1 = next /\ k \in Nat
    BY <1>2, <1>3
  <2>2. /\ FoldedTo(base, k) /\ Short(k + 1)
        /\ units' = [base EXCEPT ![Len(base)] = Extended(base[Len(base)], k + 1)]
    BY <1>1, <1>2, <2>1
  <2> HIDE DEF k
  <2>3. FoldedTo(units', k + 1)
    BY <1>3, <1>4, <2>1, <2>2, FoldedExtend
  <2> QED BY <2>1, <2>3
<1>6. /\ phase = "merge" /\ phase' = "merge" /\ pending' = NoRun
      /\ next' \in Nat /\ next = next' - 1 /\ UNCHANGED <<body, sections>>
  BY <1>1, <1>3
<1> QED BY <1>5, <1>6, MergeFolds

LEMMA StandAloneFolds == ASSUME IInv, IInv', Folded, StandAlone PROVE Folded'
<1> DEFINE base == Flushed(next)
           run == IF Short(next) THEN NoRun ELSE pending
           v == [first |-> IF run = NoRun THEN next ELSE run.first,
                 last |-> next,
                 path |-> Label(next),
                 len |-> SectionLen(next) + (IF run = NoRun THEN 0 ELSE run.len + Gap)]
<1>1. /\ phase = "merge" /\ phase' = "merge" /\ next' = next + 1 /\ next \in Nat \ {0}
      /\ next <= Len(sections)
      /\ Short(next) => Len(base) > 0 /\ ~Fits(base[Len(base)].len, next)
      /\ units' = Append(base, v) /\ pending' = NoRun
      /\ UNCHANGED <<body, sections>>
  BY DEF StandAlone, Merging, IInv, TypeOK
<1>2. /\ next \in DOMAIN sections /\ SectionLen(next) \in Nat
      /\ sections[next].path \in Path
  <2>1. next \in DOMAIN sections
    BY <1>1 DEF IInv, TypeOK
  <2>2. sections[next] \in Section /\ SectionLen(next) \in Nat
    BY <2>1, SectionLength DEF IInv
  <2> QED BY <2>1, <2>2 DEF Section
<1>3. v.last = next /\ v.path = sections[next].path
  BY DEF Label
<1>4. CASE Short(next)
  <2>1. v.first = next /\ v.len = SectionLen(next)
    BY <1>2, <1>4
  <2>2. v \in Unit
    BY <1>1, <1>2, <1>4 DEF Unit, Label
  <2> HIDE DEF v, base
  <2>3. Labelled(v)
    <3>1. \A s \in v.first..v.last : s = next
      BY <1>1, <1>3, <2>1
    <3> QED BY <1>3, <1>4, <2>1, <3>1 DEF Labelled
  <2>4. FoldedTo(base, next - 1) /\ next - 1 \in Nat
    BY <1>1, <1>4, FlushedList DEF base
  <2>5. v.first = (next - 1) + 1 /\ v.first <= v.last
    BY <1>1, <1>3, <2>1
  <2>6. base[Len(base)].len + Gap + SectionLen(v.first) > TargetChars
    <3>1. Len(base) \in 1..Len(base) /\ base \in Seq(Unit)
      BY <1>1, <1>4, <2>4 DEF FoldedTo
    <3>2. base[Len(base)] \in Unit
      BY <3>1
    <3> QED BY <1>1, <1>2, <1>4, <2>1, <3>2, SplitterAssumption DEF Fits, Unit, Gap
  <2>7. FoldedTo(units', next)
    BY <1>1, <1>3, <2>2, <2>3, <2>4, <2>5, <2>6, FoldedAppend
  <2> QED BY <1>1, <2>7, MergeFolds
<1>5. CASE ~Short(next) /\ pending = NoRun
  <2>1. v.first = next /\ base = units
    BY <1>5 DEF Flushed
  <2>2. v \in Unit
    BY <1>1, <1>2, <1>5 DEF Unit, Label
  <2> HIDE DEF v, base
  <2>3. Labelled(v)
    <3>1. v.first..v.last = {next}
      BY <1>1, <1>3, <2>1
    <3>2. {t \in v.first..v.last : ~Short(t)} = {next}
      BY <1>5, <3>1
    <3> QED BY <1>2, <1>3, <3>2 DEF Labelled
  <2>4. FoldedTo(base, next - 1) /\ next - 1 \in Nat
    BY <1>1, <1>5, <2>1, FlushedFolded
  <2>5. v.first = (next - 1) + 1 /\ v.first <= v.last
    BY <1>1, <1>3, <2>1
  <2>6. ~Short(v.first)
    BY <1>5, <2>1
  <2>7. FoldedTo(units', next)
    BY <1>1, <1>3, <2>2, <2>3, <2>4, <2>5, <2>6, FoldedAppend
  <2> QED BY <1>1, <2>7, MergeFolds
<1>6. CASE ~Short(next) /\ pending # NoRun
  <2>1. /\ units = <<>> /\ pending.first = 1 /\ next - 1 \in Nat
        /\ \A s \in 1..(next - 1) : Short(s)
    BY <1>1, <1>6, FlushedFolded
  <2>2. v.first = 1 /\ base = <<>>
    BY <1>6, <2>1 DEF Flushed
  <2>3. v \in Unit
    <3>1. pending \in Run
      BY DEF IInv, TypeOK
    <3> QED BY <1>1, <1>2, <1>6, <2>1, <3>1 DEF Unit, Run, Gap, Label
  <2> HIDE DEF v, base
  <2>4. Labelled(v)
    <3>1. \A t : t \in v.first..v.last <=> t = next \/ t \in 1..(next - 1)
      BY <1>1, <1>3, <2>2
    <3>2. {t \in v.first..v.last : ~Short(t)} = {next}
      BY <1>6, <2>1, <3>1
    <3> QED BY <1>2, <1>3, <3>2 DEF Labelled
  <2>5. FoldedTo(<<>>, 0)
    BY DEF FoldedTo
  <2>6. v.first = 0 + 1 /\ v.first <= v.last
    BY <1>1, <1>3, <2>2
  <2>7. FoldedTo(units', next)
    BY <1>1, <1>3, <2>2, <2>3, <2>4, <2>5, <2>6, FoldedAppend
  <2> QED BY <1>1, <2>7, MergeFolds
<1> QED BY <1>4, <1>5, <1>6

LEMMA EndMergeFolds == ASSUME IInv, Folded, EndMerge PROVE Folded'
<1>1. /\ phase = "merge" /\ phase' = "pack" /\ next > Len(sections)
      /\ units' = IF pending = NoRun THEN units ELSE Append(units, PendingUnit)
      /\ pending' = NoRun
      /\ UNCHANGED <<body, sections>>
  BY DEF EndMerge
<1>2. next - 1 = Len(sections)
  <2>1. next \in Nat /\ next <= Len(sections) + 1 /\ Len(sections) \in Nat
    BY <1>1 DEF IInv, TypeOK, MergeInv
  <2> QED BY <1>1, <2>1
<1>3. FoldedTo(units', Len(sections))
  BY <1>1, <1>2, FlushedFolded
<1> QED BY <1>1, <1>3, MergeFolds

-----------------------------------------------------------------------------
(* Passages. *)
LEMMA StartsPacking ==
    ASSUME IInv', Packed, phase \in {"scan", "merge"},
           phase' \in {"scan", "merge"} \/ (phase' = "pack" /\ next' = 1),
           buffer' = buffer, passages' = passages
    PROVE  Packed' /\ Chunked'
<1>1. passages' = <<>> /\ buffer' = NoPiece
  BY DEF Packed
<1>2. \A u \in DOMAIN units' : ~(u < 1)
  <2>1. units' \in Seq(Unit)
    BY DEF IInv, TypeOK
  <2> QED BY <2>1
<1>3. DOMAIN passages' = {}
  BY <1>1
<1>4. InOrder'
  BY <1>3 DEF InOrder
<1>5. Packed'
  BY <1>1, <1>2, <1>3, <1>4 DEF Packed
<1> QED BY <1>5 DEF Chunked

LEMMA AppendingAny ==
    ASSUME NEW T, NEW q \in Seq(T), NEW e
    PROVE  /\ Len(q) \in Nat /\ DOMAIN q = 1..Len(q)
           /\ DOMAIN Append(q, e) = 1..(Len(q) + 1)
           /\ Append(q, e)[Len(q) + 1] = e
           /\ \A i \in 1..Len(q) : Append(q, e)[i] = q[i]
<1>1. q \in Seq(T \cup {e}) /\ e \in T \cup {e}
  OBVIOUS
<1>2. Len(q) \in Nat /\ DOMAIN q = 1..Len(q)
  OBVIOUS
<1> QED BY <1>1, <1>2, Appending

LEMMA AppendedPassages ==
    ASSUME IInv, NEW piece, passages' = Append(passages, AsPassage(piece))
    PROVE  /\ Len(passages) \in Nat /\ DOMAIN passages = 1..Len(passages)
           /\ DOMAIN passages' = 1..(Len(passages) + 1)
           /\ passages'[Len(passages) + 1].chars = piece.chars
           /\ \A p \in DOMAIN passages : passages'[p].chars = passages[p].chars
           /\ \A c : InPassage(c) \/ c \in piece.chars => InPassage(c)'
           /\ \A p \in DOMAIN passages' :
                 \/ p \in DOMAIN passages /\ passages'[p].chars = passages[p].chars
                 \/ passages'[p].chars = piece.chars
<1> DEFINE n == Len(passages)
<1>1. passages \in Seq(Passage)
  BY DEF IInv, TypeOK
<1>2. /\ n \in Nat /\ DOMAIN passages = 1..n /\ DOMAIN passages' = 1..(n + 1)
      /\ passages'[n + 1] = AsPassage(piece)
      /\ \A p \in 1..n : passages'[p] = passages[p]
  BY <1>1, AppendingAny
<1>3. AsPassage(piece).chars = piece.chars
  BY DEF AsPassage
<1> HIDE DEF n
<1>4. \A c : InPassage(c) \/ c \in piece.chars => InPassage(c)'
  BY <1>2, <1>3 DEF InPassage
<1> QED BY <1>2, <1>3, <1>4 DEF n

LEMMA OrderAppended ==
    ASSUME IInv, InOrder, NEW piece, passages' = Append(passages, AsPassage(piece)),
           \A p \in DOMAIN passages :
              \A c \in passages[p].chars, d \in piece.chars : c < d
    PROVE  InOrder'
<1> DEFINE n == Len(passages)
<1>1. /\ n \in Nat /\ DOMAIN passages = 1..n /\ DOMAIN passages' = 1..(n + 1)
      /\ passages'[n + 1].chars = piece.chars
      /\ \A p \in 1..n : passages'[p].chars = passages[p].chars
  BY AppendedPassages
<1> HIDE DEF n
<1>2. ASSUME NEW q \in 1..(n + 1), NEW p \in 1..(q - 1),
             NEW c \in passages'[p].chars, NEW d \in passages'[q].chars
      PROVE  c < d
  <2>1. p \in 1..n /\ c \in passages[p].chars
    BY <1>1
  <2>2. CASE q = n + 1
    BY <1>1, <2>1, <2>2
  <2>3. CASE q # n + 1
    <3>1. q \in 1..n /\ d \in passages[q].chars
      BY <1>1, <2>3
    <3> QED BY <1>1, <2>1, <3>1 DEF InOrder
  <2> QED BY <2>2, <2>3
<1> QED BY <1>1, <1>2 DEF InOrder

(* What the packing leaves as it is. *)
LEMMA SamePlaces ==
    ASSUME UNCHANGED <<body, sections, units>>
    PROVE  /\ \A u : UnitFirst(u)' = UnitFirst(u) /\ UnitLast(u)' = UnitLast(u)
           /\ \A i : LineChars(i)' = LineChars(i)
BY DEF UnitFirst, UnitLast, LineChars

(* A passage of unit next ends before any later unit starts. *)
LEMMA LaterUnits ==
    ASSUME IInv, Tiled, Folded, next <= Len(units),
           NEW u \in DOMAIN units, u >= next + 1,
           NEW c \in Int, c <= body[LastLine].to
    PROVE  c < body[UnitFirst(u)].from
<1>1. next \in DOMAIN units /\ next \in Nat /\ u \in Nat
  BY UnitLines, UnitOrder DEF IInv, TypeOK
<1>2. next < u
  BY <1>1
<1>3. /\ body[UnitLast(next)].to < body[UnitFirst(u)].from
      /\ body[UnitLast(next)].to \in Nat /\ body[UnitFirst(u)].from \in Nat
  BY <1>1, <1>2, UnitsApart
<1>4. LastLine = UnitLast(next)
  BY DEF LastLine, UnitLast
<1> QED BY <1>3, <1>4

LEMMA PassUnitPacks ==
    ASSUME IInv, Tiled, Folded, Packed, PassUnit
    PROVE  Packed' /\ Chunked'
<1> DEFINE piece == [chars |-> UnitChars, len |-> units[next].len]
<1>1. /\ phase = "pack" /\ phase' = "pack" /\ next <= Len(units)
      /\ passages' = Append(passages, AsPassage(piece)) /\ next' = next + 1
      /\ UNCHANGED <<body, sections, units, buffer>>
  BY DEF PassUnit
<1>2. piece.chars = UnitChars
  OBVIOUS
<1>3. next \in DOMAIN units /\ next \in Nat
  BY <1>1, UnitLines DEF IInv, TypeOK
<1> HIDE DEF piece
<1>4. ASSUME NEW c \in UnitChars
      PROVE  /\ c \in Int /\ c <= body[LastLine].to
             /\ body[UnitFirst(next)].from <= c
  <2>1. PICK s \in units[next].first..units[next].last :
                c \in body[sections[s].first].from..(body[sections[s].last].to - 1)
    BY <1>4 DEF UnitChars
  <2>2. /\ s \in DOMAIN sections /\ UnitFirst(next) <= sections[s].first
        /\ sections[s].last <= UnitLast(next)
        /\ UnitFirst(next) \in 1..Len(body) /\ UnitLast(next) \in 1..Len(body)
    BY <1>3, UnitOrder
  <2>3. sections[s].first \in 1..Len(body) /\ sections[s].last \in 1..Len(body)
    BY <2>2, SectionLength DEF IInv
  <2>4. /\ body[UnitFirst(next)].from <= body[sections[s].first].from
        /\ body[sections[s].last].to <= body[UnitLast(next)].to
        /\ body[UnitFirst(next)].from \in Nat /\ body[sections[s].first].from \in Nat
        /\ body[sections[s].last].to \in Nat /\ body[UnitLast(next)].to \in Nat
    BY <2>2, <2>3, LineOrder DEF IInv
  <2>5. UnitLast(next) = LastLine
    BY DEF UnitLast, LastLine
  <2> QED BY <2>1, <2>4, <2>5
<1>5. /\ DOMAIN passages' = 1..(Len(passages) + 1)
      /\ \A p \in DOMAIN passages' :
            \/ p \in DOMAIN passages /\ passages'[p].chars = passages[p].chars
            \/ passages'[p].chars = UnitChars
      /\ \A c : InPassage(c) \/ c \in UnitChars => InPassage(c)'
  BY <1>1, <1>2, AppendedPassages
<1>6. \A p \in DOMAIN passages : \A c \in passages[p].chars : 
         \A u \in DOMAIN units : u >= next => c \in Int /\ c < body[UnitFirst(u)].from
  <2>1. \A p \in DOMAIN passages : passages[p].chars \subseteq Int
    <3>1. \A p \in DOMAIN passages : passages[p] \in Passage
      BY DEF IInv, TypeOK
    <3> QED BY <3>1 DEF Passage
  <2> QED BY <1>1, <2>1 DEF Packed
<1>7. InOrder'
  <2>1. body[UnitFirst(next)].from \in Nat
    <3>1. UnitFirst(next) \in 1..Len(body)
      BY <1>3, UnitOrder
    <3> QED BY <3>1, LineOrder DEF IInv
  <2>2. \A p \in DOMAIN passages :
           \A c \in passages[p].chars, d \in piece.chars : c < d
    BY <1>2, <1>3, <1>4, <1>6, <2>1
  <2> QED BY <1>1, <2>2, OrderAppended DEF Packed
<1>8. ASSUME NEW u \in DOMAIN units, u >= next + 1,
             NEW p \in DOMAIN passages', NEW c \in passages'[p].chars
      PROVE  c < body[UnitFirst(u)].from
  <2>1. u >= next
    BY <1>3, <1>8, UnitOrder
  <2>2. CASE p \in DOMAIN passages /\ passages'[p].chars = passages[p].chars
    BY <1>6, <2>1, <2>2
  <2>3. CASE passages'[p].chars = UnitChars
    <3>1. c \in Int /\ c <= body[LastLine].to
      BY <1>4, <2>3
    <3> QED BY <1>1, <1>8, <3>1, LaterUnits
  <2> QED BY <1>5, <2>2, <2>3
<1>9. ASSUME NEW u \in DOMAIN units, u < next + 1,
             NEW i \in UnitFirst(u)..UnitLast(u), NEW c \in LineChars(i)
      PROVE  InPassage(c)'
  <2>1. CASE u = next
    <3>1. c \in UnitChars
      BY <1>1, <2>1, UnitCharacters DEF UnitChars
    <3> QED BY <1>5, <3>1
  <2>2. CASE u < next
    <3>1. InPassage(c)
      BY <1>1, <2>2 DEF Packed
    <3> QED BY <1>5, <3>1
  <2> QED BY <1>3, <1>9, <2>1, <2>2, UnitOrder
<1>10. Packed'
  <2>1. buffer' = NoPiece
    BY <1>1 DEF Packed
  <2>2. \A u \in DOMAIN units' : u >= next' =>
           \A p \in DOMAIN passages' : \A c \in passages'[p].chars :
              c < body'[UnitFirst(u)'].from
    BY <1>1, <1>8, SamePlaces
  <2>3. \A u \in DOMAIN units' : u < next' =>
           \A i \in UnitFirst(u)'..UnitLast(u)' : \A c \in LineChars(i)' : InPassage(c)'
    BY <1>1, <1>9, SamePlaces
  <2> QED BY <1>1, <1>7, <2>1, <2>2, <2>3 DEF Packed
<1> QED BY <1>1, <1>10 DEF Chunked

(* Every character the packing handles is a number. *)
LEMMA Characters ==
    ASSUME IInv
    PROVE  /\ \A p \in DOMAIN passages : \A c \in passages[p].chars : c \in Int
           /\ \A c \in buffer.chars : c \in Int
           /\ at \in Nat
<1>1. \A p \in DOMAIN passages : passages[p] \in Passage
  BY DEF IInv, TypeOK
<1>2. BodyLen \in Nat
  BY BodyLines DEF IInv, BodyLen
<1> QED BY <1>1, <1>2 DEF IInv, TypeOK, Passage, Piece

LEMMA OpenUnitPacks ==
    ASSUME IInv, Tiled, Folded, Packed, OpenUnit
    PROVE  Packed' /\ Chunked'
<1>1. /\ phase = "pack" /\ phase' = "chunk" /\ next <= Len(units)
      /\ line' = UnitFirst(next) /\ at' = body[line'].from
      /\ UNCHANGED <<body, sections, next, units, buffer, passages>>
  BY DEF OpenUnit, UnitFirst
<1>2. /\ next \in DOMAIN units /\ next \in Nat
      /\ UnitFirst(next) \in 1..Len(body) /\ UnitLast(next) \in 1..Len(body)
      /\ UnitFirst(next) <= UnitLast(next) /\ LastLine = UnitLast(next)
      /\ LastLine' = LastLine /\ UnitFirst(next)' = UnitFirst(next)
  BY <1>1, UnitLines, UnitOrder DEF IInv, TypeOK, LastLine, UnitLast, UnitFirst
<1>3. /\ at' \in Nat /\ body[LastLine].to \in Nat /\ at' <= body[LastLine].to
      /\ at' = body[UnitFirst(next)].from
  BY <1>1, <1>2, TextLength DEF IInv
<1>4. buffer = NoPiece
  BY <1>1 DEF Packed
<1>5. \A p \in DOMAIN passages : \A c \in passages[p].chars : c < at'
  <2>1. next >= next
    BY <1>2
  <2> QED BY <1>1, <1>2, <1>3, <2>1 DEF Packed
<1>6. ASSUME NEW i \in UnitFirst(next)..LastLine, NEW c \in LineChars(i)
      PROVE  ~(c < at')
  <2>1. i \in 1..Len(body) /\ UnitFirst(next) <= i
    BY <1>2
  <2>2. body[UnitFirst(next)].from <= body[i].from /\ body[i].from \in Nat /\ body[i].to \in Nat
    BY <1>2, <2>1, LineOrder DEF IInv
  <2> QED BY <1>3, <2>2 DEF LineChars
<1>7. Packed'
  <2>1. \A u \in DOMAIN units' : u < next' =>
           \A i \in UnitFirst(u)'..UnitLast(u)' : \A c \in LineChars(i)' : InPassage(c)'
    <3>1. \A u \in DOMAIN units : u < next =>
             \A i \in UnitFirst(u)..UnitLast(u) : \A c \in LineChars(i) : InPassage(c)
      BY <1>1 DEF Packed
    <3>2. \A c : InPassage(c)' <=> InPassage(c)
      BY <1>1 DEF InPassage
    <3> QED BY <1>1, <3>1, <3>2, SamePlaces
  <2>2. InOrder'
    BY <1>1 DEF Packed, InOrder
  <2> QED BY <1>1, <2>1, <2>2 DEF Packed
<1>8. Chunked'
  <2>1. /\ at' <= body'[LastLine'].to + 1
        /\ line' <= LastLine' /\ at' = body'[line'].from
        /\ body'[UnitFirst(next)'].from <= at'
    BY <1>1, <1>2, <1>3
  <2>2. ~(line' > LastLine')
    <3>1. line' \in Nat /\ LastLine' \in Nat
      BY <1>1, <1>2
    <3> QED BY <2>1, <3>1
  <2>3. buffer'.chars = {}
    BY <1>1, <1>4 DEF NoPiece
  <2>4. \A p \in DOMAIN passages' : \A c \in passages'[p].chars : c < at'
    BY <1>1, <1>5
  <2>5. \A i \in UnitFirst(next)'..LastLine' : \A c \in LineChars(i)' : ~(c < at')
    BY <1>1, <1>2, <1>6, SamePlaces
  <2>6. body'[line'].from <= at'
    BY <1>1, <1>3
  <2> QED BY <1>1, <1>2, <2>1, <2>2, <2>3, <2>4, <2>5, <2>6 DEF Chunked
<1> QED BY <1>7, <1>8

LEMMA CloseUnitPacks ==
    ASSUME IInv, Tiled, Folded, Packed, Chunked, CloseUnit
    PROVE  Packed' /\ Chunked'
<1>1. /\ phase = "chunk" /\ phase' = "pack" /\ next' = next + 1 /\ next <= Len(units)
      /\ line > LastLine
      /\ passages' = Append(passages, AsPassage(buffer)) /\ buffer' = NoPiece
      /\ UNCHANGED <<body, sections, units>>
  BY DEF CloseUnit, IInv, PackInv
<1>2. /\ next \in DOMAIN units /\ next \in Nat /\ LastLine \in 1..Len(body)
      /\ LastLine = UnitLast(next) /\ UnitFirst(next) \in 1..Len(body)
  BY <1>1, UnitLines, UnitOrder DEF IInv, TypeOK, LastLine, UnitLast
<1>3. /\ at \in Nat /\ body[LastLine].to \in Nat
      /\ body[LastLine].to < at /\ at <= body[LastLine].to + 1
      /\ \A p \in DOMAIN passages : \A c \in passages[p].chars :
            c \in Int /\ c < at /\ \A d \in buffer.chars : c < d
      /\ \A c \in buffer.chars : c \in Int /\ c < at
  <2>1. at \in Nat /\ body[LastLine].to \in Nat
    BY <1>2, Characters, LineOrder DEF IInv
  <2> QED BY <1>1, <2>1, Characters DEF Chunked
<1>4. /\ DOMAIN passages' = 1..(Len(passages) + 1)
      /\ \A p \in DOMAIN passages' :
            \/ p \in DOMAIN passages /\ passages'[p].chars = passages[p].chars
            \/ passages'[p].chars = buffer.chars
      /\ \A c : InPassage(c) \/ c \in buffer.chars => InPassage(c)'
  BY <1>1, AppendedPassages
<1>5. InOrder'
  BY <1>1, <1>3, OrderAppended DEF Packed
<1>6. ASSUME NEW u \in DOMAIN units, u >= next + 1,
             NEW p \in DOMAIN passages', NEW c \in passages'[p].chars
      PROVE  c < body[UnitFirst(u)].from
  <2>1. c \in Int /\ c < at
    BY <1>3, <1>4
  <2>2. c <= body[LastLine].to
    BY <1>3, <2>1
  <2> QED BY <1>1, <1>6, <2>1, <2>2, LaterUnits
<1>7. ASSUME NEW u \in DOMAIN units, u < next + 1,
             NEW i \in UnitFirst(u)..UnitLast(u), NEW c \in LineChars(i)
      PROVE  InPassage(c)'
  <2>1. CASE u = next
    <3>1. i \in UnitFirst(next)..LastLine /\ i \in 1..Len(body) /\ i <= LastLine
      BY <1>2, <2>1
    <3>2. body[i].to <= body[LastLine].to /\ body[i].from \in Nat /\ body[i].to \in Nat
      BY <1>2, <3>1, LineOrder DEF IInv
    <3>3. c < at
      BY <1>3, <3>2 DEF LineChars
    <3>4. InPassage(c) \/ c \in buffer.chars
      BY <1>1, <3>1, <3>3 DEF Chunked
    <3> QED BY <1>4, <3>4
  <2>2. CASE u < next
    <3>1. InPassage(c)
      BY <1>1, <2>2 DEF Packed
    <3> QED BY <1>4, <3>1
  <2> QED BY <1>2, <1>7, <2>1, <2>2, UnitOrder
<1>8. Packed'
  <2>1. \A u \in DOMAIN units' : u >= next' =>
           \A p \in DOMAIN passages' : \A c \in passages'[p].chars :
              c < body'[UnitFirst(u)'].from
    BY <1>1, <1>6, SamePlaces
  <2>2. \A u \in DOMAIN units' : u < next' =>
           \A i \in UnitFirst(u)'..UnitLast(u)' : \A c \in LineChars(i)' : InPassage(c)'
    BY <1>1, <1>7, SamePlaces
  <2> QED BY <1>1, <1>5, <2>1, <2>2 DEF Packed
<1> QED BY <1>1, <1>8 DEF Chunked

LEMMA EndPackPacks == ASSUME IInv, Packed, EndPack PROVE Packed' /\ Chunked'
<1>1. /\ phase = "pack" /\ phase' = "done" /\ next > Len(units)
      /\ UNCHANGED <<body, sections, next, units, buffer, passages>>
  BY DEF EndPack
<1>2. InOrder'
  BY <1>1 DEF Packed, InOrder
<1>3. \A u \in DOMAIN units' : u < next' =>
         \A i \in UnitFirst(u)'..UnitLast(u)' : \A c \in LineChars(i)' : InPassage(c)'
  <2>1. \A u \in DOMAIN units : u < next =>
           \A i \in UnitFirst(u)..UnitLast(u) : \A c \in LineChars(i) : InPassage(c)
    BY <1>1 DEF Packed
  <2>2. \A c : InPassage(c)' <=> InPassage(c)
    BY <1>1 DEF InPassage
  <2> QED BY <1>1, <2>1, <2>2, SamePlaces
<1>4. Packed'
  BY <1>1, <1>2, <1>3 DEF Packed
<1> QED BY <1>1, <1>4 DEF Chunked

(* Where the packing may be in the unit it is at. *)
Position(l, a) ==
    /\ a <= body[LastLine].to + 1
    /\ l <= LastLine => body[l].from <= a /\ (Blank(l) => a = body[l].from)
    /\ l > LastLine => body[LastLine].to < a

LEMMA NextPosition ==
    ASSUME IInv, next <= Len(units), NEW e \in 1..LastLine
    PROVE  Position(e + 1, body[e].to + 1)
<1>1. LastLine \in 1..Len(body) /\ e \in 1..Len(body) /\ Len(body) \in Nat
  BY UnitLines, BodyLines DEF IInv
<1>2. /\ body[e].to <= body[LastLine].to
      /\ body[e].to \in Nat /\ body[LastLine].to \in Nat
  BY <1>1, LineOrder DEF IInv
<1>3. ASSUME e + 1 <= LastLine
      PROVE  body[e + 1].from = body[e].to + 1
  <2>1. e + 1 \in 1..Len(body) /\ e <= e + 1
    BY <1>1, <1>3
  <2> QED BY <1>1, <2>1, LineOrder DEF IInv
<1>4. e + 1 > LastLine => e = LastLine
  BY <1>1
<1> QED BY <1>1, <1>2, <1>3, <1>4 DEF Position

(* A step within a unit: the place, the order and the characters passed.   *)
LEMMA ChunkStep ==
    ASSUME IInv, Packed, Chunked, phase = "chunk", phase' = "chunk",
           UNCHANGED <<body, sections, next, units>>,
           at' \in Nat, at <= at', Position(line', at'), InOrder',
           \A c : InPassage(c) => InPassage(c)',
           \A c \in buffer'.chars : c < at',
           \A p \in DOMAIN passages' : \A c \in passages'[p].chars :
              c < at' /\ \A d \in buffer'.chars : c < d,
           \A i \in UnitFirst(next)..LastLine : \A c \in LineChars(i) :
              c < at' => InPassage(c)' \/ c \in buffer'.chars
    PROVE  Packed' /\ Chunked'
<1>1. LastLine' = LastLine /\ UnitFirst(next)' = UnitFirst(next)
  BY DEF LastLine, UnitFirst
<1>2. Packed'
  <2>1. \A u \in DOMAIN units' : u < next' =>
           \A i \in UnitFirst(u)'..UnitLast(u)' : \A c \in LineChars(i)' : InPassage(c)'
    <3>1. \A u \in DOMAIN units : u < next =>
             \A i \in UnitFirst(u)..UnitLast(u) : \A c \in LineChars(i) : InPassage(c)
      BY DEF Packed
    <3> QED BY <3>1, SamePlaces
  <2> QED BY <2>1 DEF Packed
<1>3. body[UnitFirst(next)].from <= at'
  <2>1. next <= Len(units) /\ at \in Nat
    BY Characters DEF IInv, PackInv
  <2>2. body[UnitFirst(next)].from \in Nat
    <3>1. UnitFirst(next) \in 1..Len(body)
      BY <2>1, UnitLines DEF UnitFirst
    <3> QED BY <3>1, BodyLines DEF IInv
  <2> QED BY <2>1, <2>2 DEF Chunked
<1>4. /\ at' <= body'[LastLine'].to + 1
      /\ line' <= LastLine' => body'[line'].from <= at'
      /\ line' > LastLine' => body'[LastLine'].to < at'
      /\ line' <= LastLine' /\ Blank(line)' => at' = body'[line'].from
  BY <1>1 DEF Position, Blank
<1>5. \A i \in UnitFirst(next)'..LastLine' : \A c \in LineChars(i)' :
         c < at' => InPassage(c)' \/ c \in buffer'.chars
  BY <1>1, SamePlaces
<1>6. Chunked'
  BY <1>1, <1>3, <1>4, <1>5 DEF Chunked
<1> QED BY <1>2, <1>6

LEMMA SkipBlankPacks ==
    ASSUME IInv, Tiled, Packed, Chunked, SkipBlank
    PROVE  Packed' /\ Chunked'
<1>1. /\ phase = "chunk" /\ phase' = "chunk" /\ line <= LastLine /\ Blank(line)
      /\ line' = line + 1 /\ at' = body[line].to + 1
      /\ next <= Len(units)
      /\ UNCHANGED <<body, sections, next, units, buffer, passages>>
  BY DEF SkipBlank, IInv, PackInv
<1>2. /\ line \in 1..LastLine /\ line \in 1..Len(body) /\ LastLine \in 1..Len(body)
      /\ Len(body) \in Nat /\ next \in DOMAIN units
  <2>1. LastLine \in 1..Len(body) /\ Len(body) \in Nat /\ next \in DOMAIN units
    BY <1>1, UnitLines, BodyLines DEF IInv
  <2>2. line \in Nat \ {0}
    BY <2>1 DEF IInv, TypeOK
  <2> QED BY <1>1, <2>1, <2>2
<1>3. /\ at = body[line].from /\ body[line].from = body[line].to
      /\ body[line].to \in Nat /\ at' = at + 1 /\ at' \in Nat /\ at <= at' /\ at \in Nat
  <2>1. at = body[line].from
    BY <1>1 DEF Chunked
  <2>2. body[line].from = body[line].to /\ body[line].to \in Nat
    BY <1>1, <1>2, LineOrder DEF IInv, Blank
  <2> QED BY <1>1, <2>1, <2>2
<1>4. Position(line', at')
  BY <1>1, <1>2, NextPosition
<1>5. /\ \A c : InPassage(c) => InPassage(c)'
      /\ InOrder'
  BY <1>1 DEF InPassage, InOrder, Packed
<1>6. ASSUME NEW i \in UnitFirst(next)..LastLine, NEW c \in LineChars(i), c < at'
      PROVE  InPassage(c)' \/ c \in buffer'.chars
  <2>1. i \in 1..Len(body)
    <3>1. UnitFirst(next) \in 1..Len(body)
      BY <1>2, UnitOrder
    <3> QED BY <1>2, <3>1
  <2>2. /\ body[i].from \in Nat /\ body[i].to \in Nat
        /\ i < line => body[i].to < body[line].from
        /\ line < i => body[line].to < body[i].from
    BY <1>2, <2>1, LineOrder DEF IInv
  <2>3. c < at
    <3>1. c \in Int /\ body[i].from <= c /\ c < body[i].to
      BY <2>2 DEF LineChars
    <3>2. i < line \/ i = line \/ line < i
      BY <1>2, <2>1
    <3> QED BY <1>3, <1>6, <2>2, <3>1, <3>2
  <2>4. InPassage(c) \/ c \in buffer.chars
    BY <1>1, <2>3 DEF Chunked
  <2> QED BY <1>1, <1>5, <2>4
<1>7. /\ \A c \in buffer'.chars : c < at'
      /\ \A p \in DOMAIN passages' : \A c \in passages'[p].chars :
            c < at' /\ \A d \in buffer'.chars : c < d
  <2>1. /\ \A c \in buffer.chars : c \in Int /\ c < at
        /\ \A p \in DOMAIN passages : \A c \in passages[p].chars :
              c \in Int /\ c < at /\ \A d \in buffer.chars : c < d
    BY <1>1, Characters DEF Chunked
  <2> QED BY <1>1, <1>3, <2>1
<1> QED BY <1>1, <1>3, <1>4, <1>5, <1>6, <1>7, ChunkStep

LEMMA PackChunkPacks ==
    ASSUME IInv, Tiled, Packed, Chunked, NEW e \in DOMAIN body, PackChunk(e)
    PROVE  Packed' /\ Chunked'
<1> DEFINE end == ChunkEnd(e)
           chunk == [chars |-> at..(end - 1), len |-> end - at]
<1>1. /\ phase = "chunk" /\ phase' = "chunk" /\ line <= LastLine /\ ParagraphEnd(e)
      /\ StartBuffer(chunk) \/ EmitBuffer(chunk) \/ JoinBuffer(chunk)
      /\ IF end < body[e].to THEN line' = line /\ at' = end
                             ELSE line' = e + 1 /\ at' = body[e].to + 1
      /\ next <= Len(units)
      /\ UNCHANGED <<body, sections, next, units>>
  BY DEF PackChunk, IInv, PackInv
<1>2. /\ LastLine \in 1..Len(body) /\ Len(body) \in Nat /\ next \in DOMAIN units
      /\ line \in 1..LastLine /\ line \in 1..Len(body)
      /\ e \in line..LastLine /\ e \in 1..LastLine /\ e \in 1..Len(body) /\ ~Blank(line)
  <2>1. LastLine \in 1..Len(body) /\ Len(body) \in Nat /\ next \in DOMAIN units
    BY <1>1, UnitLines, BodyLines DEF IInv
  <2>2. line \in Nat \ {0}
    BY <2>1 DEF IInv, TypeOK
  <2>3. e \in line..LastLine /\ \A i \in line..e : ~Blank(i)
    BY <1>1 DEF ParagraphEnd
  <2>4. line \in line..e
    BY <2>1, <2>2, <2>3
  <2> QED BY <1>1, <2>1, <2>2, <2>3, <2>4
<1>3. /\ at \in Nat /\ body[e].to \in Nat /\ at <= body[e].to
      /\ body[line].from <= at /\ body[e].to <= body[LastLine].to
      /\ body[line].from \in Nat /\ body[LastLine].to \in Nat
  <2>1. at <= body[e].to
    BY <1>1 DEF IInv, PackInv
  <2>2. body[line].from <= at
    BY <1>1 DEF Chunked
  <2> QED BY <1>2, <2>1, <2>2, Characters, LineOrder DEF IInv
<1>4. end \in Nat /\ at <= end /\ end <= body[e].to
  BY <1>3, SplitterAssumption DEF ChunkEnd
<1>5. chunk.chars = at..(end - 1)
  OBVIOUS
<1> HIDE DEF chunk, end
<1>6. /\ at' \in Nat /\ at <= at' /\ end <= at' /\ at' <= body[e].to + 1
      /\ \A c \in Int : c < at' /\ c >= end => c = body[e].to
  <2>1. CASE end < body[e].to
    BY <1>1, <1>3, <1>4, <2>1
  <2>2. CASE ~(end < body[e].to)
    BY <1>1, <1>3, <1>4, <2>2
  <2> QED BY <2>1, <2>2
<1>7. Position(line', at')
  <2>1. CASE end < body[e].to
    <3>1. line' = line /\ at' = end
      BY <1>1, <2>1
    <3> QED BY <1>2, <1>3, <1>4, <3>1 DEF Position
  <2>2. CASE ~(end < body[e].to)
    <3>1. line' = e + 1 /\ at' = body[e].to + 1
      BY <1>1, <2>2
    <3> QED BY <1>1, <1>2, <3>1, NextPosition
  <2> QED BY <2>1, <2>2
<1>8. /\ \A c \in buffer.chars : c \in Int /\ c < at
      /\ \A p \in DOMAIN passages : \A c \in passages[p].chars :
            c \in Int /\ c < at /\ \A d \in buffer.chars : c < d
      /\ \A c \in chunk.chars : c \in Int /\ at <= c /\ c < at'
  <2>1. \A c \in chunk.chars : c \in Int /\ at <= c /\ c < end
    BY <1>3, <1>4, <1>5
  <2> QED BY <1>1, <1>3, <1>4, <1>6, <2>1, Characters DEF Chunked
<1>9. /\ InOrder'
      /\ \A c : InPassage(c) => InPassage(c)'
      /\ \A c \in buffer'.chars : c < at'
      /\ \A p \in DOMAIN passages' : \A c \in passages'[p].chars :
            c < at' /\ \A d \in buffer'.chars : c < d
      /\ \A c : InPassage(c) \/ c \in buffer.chars \/ c \in chunk.chars
                   => InPassage(c)' \/ c \in buffer'.chars
  <2>1. ASSUME UNCHANGED passages
        PROVE  InOrder' /\ \A c : InPassage(c)' <=> InPassage(c)
    BY <2>1 DEF InPassage, InOrder, Packed
  <2>2. CASE StartBuffer(chunk)
    <3>1. buffer = NoPiece /\ buffer' = chunk /\ UNCHANGED passages
      BY <2>2 DEF StartBuffer
    <3>2. \A c : c \notin buffer.chars
      BY <3>1 DEF NoPiece
    <3> QED BY <1>3, <1>6, <1>8, <2>1, <3>1, <3>2
  <2>3. CASE JoinBuffer(chunk)
    <3>1. UNCHANGED passages /\ buffer'.chars = buffer.chars \cup chunk.chars
      BY <2>3 DEF JoinBuffer
    <3>2. /\ InOrder' /\ \A c : InPassage(c)' <=> InPassage(c)
      BY <2>1, <3>1
    <3>3. \A c \in buffer'.chars : c < at'
      BY <1>3, <1>6, <1>8, <3>1
    <3>4. \A p \in DOMAIN passages' : \A c \in passages'[p].chars :
             c < at' /\ \A d \in buffer'.chars : c < d
      BY <1>3, <1>6, <1>8, <3>1
    <3> QED BY <3>1, <3>2, <3>3, <3>4
  <2>4. CASE EmitBuffer(chunk)
    <3>1. passages' = Append(passages, AsPassage(buffer)) /\ buffer' = chunk
      BY <2>4 DEF EmitBuffer
    <3>2. /\ \A p \in DOMAIN passages' :
                \/ p \in DOMAIN passages /\ passages'[p].chars = passages[p].chars
                \/ passages'[p].chars = buffer.chars
          /\ \A c : InPassage(c) \/ c \in buffer.chars => InPassage(c)'
      BY <3>1, AppendedPassages
    <3>3. InOrder'
      BY <1>8, <3>1, OrderAppended DEF Packed
    <3>4. \A p \in DOMAIN passages' : \A c \in passages'[p].chars : c \in Int /\ c < at
      BY <1>8, <3>2
    <3>5. \A p \in DOMAIN passages' : \A c \in passages'[p].chars :
             c < at' /\ \A d \in buffer'.chars : c < d
      BY <1>3, <1>6, <1>8, <3>1, <3>4
    <3> QED BY <1>8, <3>1, <3>2, <3>3, <3>5
  <2> QED BY <1>1, <2>2, <2>3, <2>4
<1>10. ASSUME NEW i \in UnitFirst(next)..LastLine, NEW c \in LineChars(i), c < at'
       PROVE  InPassage(c)' \/ c \in buffer'.chars
  <2>1. i \in 1..Len(body)
    <3>1. UnitFirst(next) \in 1..Len(body)
      BY <1>2, UnitOrder
    <3> QED BY <1>2, <3>1
  <2>2. /\ body[i].from \in Nat /\ body[i].to \in Nat
        /\ i <= e => body[i].to <= body[e].to
        /\ e < i => body[e].to < body[i].from
    BY <1>2, <2>1, LineOrder DEF IInv
  <2>3. c \in Int /\ body[i].from <= c /\ c < body[i].to
    BY <2>2 DEF LineChars
  <2>4. c # body[e].to
    BY <1>2, <1>3, <2>1, <2>2, <2>3
  <2>5. c < end
    BY <1>4, <1>6, <1>10, <2>3, <2>4
  <2>6. CASE c < at
    <3>1. InPassage(c) \/ c \in buffer.chars
      BY <1>1, <2>6 DEF Chunked
    <3> QED BY <1>9, <3>1
  <2>7. CASE c >= at
    <3>1. c \in chunk.chars
      BY <1>3, <1>4, <1>5, <2>3, <2>5, <2>7
    <3> QED BY <1>9, <3>1
  <2> QED BY <1>3, <2>3, <2>6, <2>7
<1> QED BY <1>1, <1>6, <1>7, <1>9, <1>10, ChunkStep

-----------------------------------------------------------------------------
LEMMA InitSafe == Init => SInv
<1> SUFFICES ASSUME Init PROVE SInv
  OBVIOUS
<1>1. IInv
  BY InitInv
<1>2. /\ phase = "scan" /\ line = 1 /\ sections = <<>> /\ units = <<>>
      /\ pending = NoRun /\ buffer = NoPiece /\ passages = <<>>
  BY DEF Init
<1>3. DOMAIN sections = {} /\ DOMAIN units = {} /\ DOMAIN passages = {}
  BY <1>2
<1>4. \A i \in DOMAIN body : ~(i < line)
  BY <1>1, <1>2, BodyLines DEF IInv
<1>5. Tiled
  BY <1>2, <1>3, <1>4 DEF Tiled
<1>6. Folded
  BY <1>2, <1>3 DEF Folded, ShortSectionsMerge
<1>7. Packed
  BY <1>2, <1>3 DEF Packed, InOrder
<1>8. Chunked
  BY <1>2 DEF Chunked
<1> QED BY <1>1, <1>5, <1>6, <1>7, <1>8 DEF SInv

LEMMA MergeSafe ==
    ASSUME SInv, IInv',
           JoinPending \/ JoinPrevious \/ OpenPending \/ StandAlone \/ EndMerge
    PROVE  SInv'
<1>1. IInv /\ Tiled /\ Folded /\ Packed /\ Chunked
  BY DEF SInv
<1>2. /\ phase = "merge"
      /\ phase' = "merge" \/ (phase' = "pack" /\ next' = 1)
      /\ body' = body /\ sections' = sections
      /\ buffer' = buffer /\ passages' = passages
  <2>1. CASE Merging
    <3>1. phase = "merge" /\ phase' = phase
      BY <2>1 DEF Merging
    <3>2. body' = body /\ sections' = sections /\ buffer' = buffer /\ passages' = passages
      BY <2>1 DEF Merging
    <3> QED BY <3>1, <3>2
  <2>2. CASE EndMerge
    BY <2>2 DEF EndMerge
  <2> QED BY <2>1, <2>2 DEF JoinPending, JoinPrevious, OpenPending, StandAlone
<1>3. Tiled'
  BY <1>1, <1>2, StillTiled
<1>4. Folded'
  BY <1>1, JoinPendingFolds, JoinPreviousFolds, OpenPendingFolds, StandAloneFolds,
     EndMergeFolds
<1>5. Packed' /\ Chunked'
  BY <1>1, <1>2, StartsPacking
<1> QED BY <1>3, <1>4, <1>5 DEF SInv

LEMMA PackSafe ==
    ASSUME SInv, IInv',
           \/ PassUnit \/ OpenUnit \/ SkipBlank \/ CloseUnit \/ EndPack
           \/ \E e \in DOMAIN body : PackChunk(e)
    PROVE  SInv'
<1>1. IInv /\ Tiled /\ Folded /\ Packed /\ Chunked
  BY DEF SInv
<1>2. /\ phase \in {"pack", "chunk"} /\ phase' \in {"pack", "chunk", "done"}
      /\ UNCHANGED <<body, sections, units, pending>>
  BY DEF PassUnit, OpenUnit, SkipBlank, CloseUnit, EndPack, PackChunk
<1>3. Tiled'
  BY <1>1, <1>2, StillTiled
<1>4. Folded'
  BY <1>1, <1>2, StillFolded
<1>5. Packed' /\ Chunked'
  <2>1. CASE \E e \in DOMAIN body : PackChunk(e)
    BY <1>1, <2>1, PackChunkPacks
  <2>2. CASE PassUnit \/ OpenUnit \/ SkipBlank \/ CloseUnit \/ EndPack
    BY <1>1, <2>2, PassUnitPacks, OpenUnitPacks, SkipBlankPacks, CloseUnitPacks,
       EndPackPacks
  <2> QED BY <2>1, <2>2
<1> QED BY <1>3, <1>4, <1>5 DEF SInv

LEMMA StutterSafe == ASSUME SInv, IInv', UNCHANGED vars PROVE SInv'
<1>1. IInv /\ Tiled /\ Folded /\ Packed /\ Chunked
  BY DEF SInv
<1>2. /\ body' = body /\ phase' = phase /\ line' = line /\ sections' = sections
      /\ next' = next /\ pending' = pending /\ units' = units /\ at' = at
      /\ buffer' = buffer /\ passages' = passages
  BY DEF vars
<1>3. Tiled'
  BY <1>1, <1>2 DEF Tiled, Holds, Blank
<1>4. Folded'
  <2>1. \A u \in DOMAIN units' : Labelled(units[u])'
    <3>1. \A u \in DOMAIN units' : Labelled(units'[u])
      BY <1>1, <1>2 DEF Folded
    <3> QED BY <1>2, <3>1, SameLabel
  <2>2. ShortSectionsMerge'
    BY <1>1, <1>2, SameMerging DEF Folded, ShortSectionsMerge
  <2>3. \A s : Short(s)' <=> Short(s)
    BY <1>2 DEF Short, SectionLen, TextLen
  <2> QED BY <1>1, <1>2, <2>1, <2>2, <2>3 DEF Folded, Contains
<1>5. Packed'
  BY <1>1, <1>2
  DEF Packed, InOrder, InPassage, UnitFirst, UnitLast, LineChars
<1>6. Chunked'
  BY <1>1, <1>2
  DEF Chunked, InPassage, UnitFirst, LastLine, LineChars, Blank
<1> QED BY <1>3, <1>4, <1>5, <1>6 DEF SInv

LEMMA StepSafe == SInv /\ [Next]_vars => SInv'
<1> SUFFICES ASSUME SInv, [Next]_vars PROVE SInv'
  OBVIOUS
<1>1. IInv /\ Tiled /\ Folded /\ Packed /\ Chunked /\ IInv'
  BY StepInv DEF SInv
<1>2. CASE ScanSection
  <2>1. phase \in {"scan", "merge"} /\ phase' \in {"scan", "merge"} /\ buffer' = buffer /\ passages' = passages
    BY <1>2 DEF ScanSection
  <2>2. Packed' /\ Chunked'
    BY <1>1, <2>1, StartsPacking
  <2>3. Tiled' /\ Folded'
    BY <1>1, <1>2, ScanTiles, ScanFolds
  <2> QED BY <1>1, <2>2, <2>3 DEF SInv
<1>3. CASE UseSections
  <2>1. phase \in {"scan", "merge"} /\ phase' \in {"scan", "merge"} /\ buffer' = buffer /\ passages' = passages
    BY <1>3 DEF UseSections
  <2>2. Packed' /\ Chunked'
    BY <1>1, <2>1, StartsPacking
  <2>3. Tiled' /\ Folded'
    BY <1>1, <1>3, UseTiles, UseFolds
  <2> QED BY <1>1, <2>2, <2>3 DEF SInv
<1>4. CASE KeepWhole
  <2>1. phase = "scan" /\ phase' = "pack" /\ next' = 1 /\ buffer' = buffer /\ passages' = passages
    BY <1>1, <1>4 DEF KeepWhole, IInv, ScanInv
  <2>2. Packed' /\ Chunked'
    BY <1>1, <2>1, StartsPacking
  <2>3. Tiled' /\ Folded'
    BY <1>1, <1>4, KeepWholeTiles, KeepWholeFolds
  <2> QED BY <1>1, <2>2, <2>3 DEF SInv
<1>5. CASE JoinPending \/ JoinPrevious \/ OpenPending \/ StandAlone \/ EndMerge
  BY <1>1, <1>5, MergeSafe
<1>6. CASE \/ PassUnit \/ OpenUnit \/ SkipBlank \/ CloseUnit \/ EndPack
           \/ \E e \in DOMAIN body : PackChunk(e)
  BY <1>1, <1>6, PackSafe
<1>7. CASE Done \/ UNCHANGED vars
  BY <1>1, <1>7, StutterSafe DEF Done
<1> QED BY <1>2, <1>3, <1>4, <1>5, <1>6, <1>7 DEF Next

LEMMA SafetyInvariant == Spec => []SInv
BY InitSafe, StepSafe, PTL DEF Spec

-----------------------------------------------------------------------------
(* When the packing is done, every character of every line is in a         *)
(* passage: its section is in a unit, and the unit has been packed.        *)
LEMMA DoneMeansAll ==
    ASSUME SInv, phase = "done", NEW i \in DOMAIN body, NEW c \in LineChars(i)
    PROVE  InPassage(c)
<1>1. IInv /\ Tiled /\ Folded /\ Packed
  BY DEF SInv
<1>2. i \in 1..Len(body) /\ Len(body) \in Nat
  BY <1>1, BodyLines DEF IInv
<1>3. ~Blank(i)
  BY <1>1, <1>2, LineOrder DEF LineChars, Blank, IInv
<1>4. PICK s \in DOMAIN sections : Holds(s, i)
  BY <1>1, <1>3 DEF Tiled
<1>5. pending = NoRun
  BY <1>1 DEF IInv, MergeInv
<1>6. PICK u \in DOMAIN units : Contains(units[u], s)
  BY <1>1, <1>5 DEF Folded
<1>7. u < next
  <2>1. next > Len(units) /\ next \in Nat
    BY <1>1 DEF Packed, IInv, TypeOK
  <2> QED BY <1>1, <2>1, UnitOrder
<1>8. i \in UnitFirst(u)..UnitLast(u)
  <2>1. /\ UnitFirst(u) <= sections[s].first /\ sections[s].last <= UnitLast(u)
        /\ UnitFirst(u) \in 1..Len(body) /\ UnitLast(u) \in 1..Len(body)
    BY <1>1, <1>6, UnitOrder DEF Contains
  <2>2. sections[s].first \in 1..Len(body) /\ sections[s].last \in 1..Len(body)
    BY <1>1, SectionLength DEF IInv
  <2> QED BY <1>2, <1>4, <2>1, <2>2 DEF Holds
<1> QED BY <1>1, <1>7, <1>8 DEF Packed

(* Nothing is lost and nothing changes places: passages follow the order   *)
(* of the body, share no character, and in the end hold all of it, for     *)
(* every body and every three sizes.                                       *)
THEOREM NothingIsLost == Spec => []NothingLost
<1>1. SInv => NothingLost
  <2> SUFFICES ASSUME SInv PROVE NothingLost
    OBVIOUS
  <2>1. InOrder
    BY DEF SInv, Packed
  <2>2. phase = "done" =>
           \A i \in DOMAIN body : \A c \in body[i].from..(body[i].to - 1) :
              \E p \in DOMAIN passages : c \in passages[p].chars
    BY DoneMeansAll DEF LineChars, InPassage
  <2> QED BY <2>1, <2>2 DEF NothingLost, InOrder
<1> QED BY <1>1, SafetyInvariant, PTL

(* Past the first unit, a short section opens a unit of its own only where *)
(* the unit before it has no room, for every body and every three sizes.   *)
THEOREM MergesAreMaximal == Spec => []ShortSectionsMerge
<1>1. SInv => ShortSectionsMerge
  BY DEF SInv, Folded
<1> QED BY <1>1, SafetyInvariant, PTL

(* A unit carries the heading path of its one long section, or of its      *)
(* first section when all are short: no unit ever holds two long ones.     *)
THEOREM LabelsHold == Spec => []LabelledByItsLongSection
<1>1. SInv => LabelledByItsLongSection
  <2> SUFFICES ASSUME SInv, NEW u \in DOMAIN units
               PROVE  \/ \E s \in DOMAIN sections :
                            Longs(u) = {s} /\ units[u].path = sections[s].path
                      \/ Longs(u) = {} /\ units[u].path = sections[units[u].first].path
    BY DEF LabelledByItsLongSection
  <2>1. Labelled(units[u])
    BY DEF SInv, Folded
  <2>2. Longs(u) = {s \in units[u].first..units[u].last : ~Short(s)}
    BY DEF Longs
  <2>3. CASE \A s \in units[u].first..units[u].last : Short(s)
    BY <2>1, <2>2, <2>3 DEF Labelled
  <2>4. CASE ~\A s \in units[u].first..units[u].last : Short(s)
    BY <2>1, <2>2, <2>4 DEF Labelled
  <2> QED BY <2>3, <2>4
<1> QED BY <1>1, SafetyInvariant, PTL
=============================================================================
