--------------------------- MODULE SplitterProofs ---------------------------
(***************************************************************************)
(* For every body and every choice of the three sizes: the types, the cap  *)
(* on passages and the target for runs of short sections.                  *)
(***************************************************************************)
EXTENDS Splitter, TLAPS

(* While sections are cut, there are no units and no run waits. *)
ScanInv ==
    phase = "scan" => units = <<>> /\ pending = NoRun /\ next = 1

(* Units and the run that waits consist of sections already looked at. *)
MergeInv ==
    /\ phase = "merge" =>
          /\ next <= Len(sections) + 1
          /\ \A u \in DOMAIN units : units[u].last < next
    /\ pending # NoRun => phase = "merge" /\ pending.first \in 1..(next - 1)
    /\ pending.len <= TargetChars

(* The packing is never past the end of its paragraph. *)
PackInv ==
    /\ buffer.len <= MaxChars
    /\ phase = "chunk" =>
          /\ next <= Len(units)
          /\ \A e \in DOMAIN body : ParagraphEnd(e) => at <= body[e].to

UnitsInOrder == \A u \in DOMAIN units : units[u].first <= units[u].last

IInv ==
    /\ TypeOK
    /\ body \in Bodies
    /\ ScanInv
    /\ MergeInv
    /\ PackInv
    /\ UnitsInOrder
    /\ ShortRunsWithinTarget
    /\ PassagesWithinCap

-----------------------------------------------------------------------------
(* Lengths. *)

LEMMA BodyLines ==
    ASSUME NEW b \in Bodies
    PROVE  /\ b \in Seq(Line)
           /\ Len(b) \in Nat \ {0}
           /\ DOMAIN b = 1..Len(b)
           /\ \A i \in 1..Len(b) :
                 /\ b[i] \in Line
                 /\ b[i].from \in Nat /\ b[i].to \in Nat
                 /\ b[i].from <= b[i].to
                 /\ b[i].to <= b[Len(b)].to
                 /\ \A j \in (i + 1)..Len(b) : b[i].to < b[j].from
<1>1. b \in Seq(Line) /\ Len(b) \in Nat \ {0} /\ DOMAIN b = 1..Len(b)
  BY SplitterAssumption
<1>2. \A i \in 1..Len(b) : b[i] \in Line /\ b[i].from \in Nat /\ b[i].to \in Nat
  <2>1. \A i \in 1..Len(b) : b[i] \in Line
    BY <1>1
  <2>2. \A l \in Line : l.from \in Nat /\ l.to \in Nat
    BY DEF Line
  <2> QED BY <2>1, <2>2
<1>3. \A i \in 1..Len(b) : b[i].from <= b[i].to
  BY SplitterAssumption
<1>4. \A i \in 1..Len(b) : \A j \in (i + 1)..Len(b) : b[i].to < b[j].from
  BY SplitterAssumption
<1>5. ASSUME NEW i \in 1..Len(b)
      PROVE  b[i].to <= b[Len(b)].to
  <2>1. CASE i = Len(b)
    BY <2>1, <1>2
  <2>2. CASE i # Len(b)
    <3>0. \A n \in Nat \ {0} : \A k \in 1..n : k # n => n \in (k + 1)..n /\ n \in 1..n
      OBVIOUS
    <3>1. Len(b) \in (i + 1)..Len(b) /\ Len(b) \in 1..Len(b)
      BY <2>2, <3>0, <1>1
    <3>2. b[i].to < b[Len(b)].from /\ b[Len(b)].from <= b[Len(b)].to
      BY <3>1, <1>3, <1>4
    <3> QED BY <3>1, <3>2, <1>2
  <2> QED BY <2>1, <2>2
<1> QED BY <1>1, <1>2, <1>3, <1>4, <1>5

LEMMA TextLength ==
    ASSUME body \in Bodies,
           NEW a \in 1..Len(body), NEW b \in 1..Len(body), a <= b
    PROVE  /\ TextLen(a, b) \in Nat
           /\ body[a].from \in Nat /\ body[b].to \in Nat
           /\ body[a].from <= body[b].to
           /\ body[b].to <= BodyLen
<1>1. /\ body[a].from \in Nat /\ body[a].to \in Nat
      /\ body[b].from \in Nat /\ body[b].to \in Nat
      /\ body[a].from <= body[a].to /\ body[b].from <= body[b].to
      /\ body[b].to <= BodyLen
  BY BodyLines DEF BodyLen
<1>2. body[a].from <= body[b].to
  <2>1. CASE a = b
    BY <2>1, <1>1
  <2>2. CASE a < b
    <3>1. b \in (a + 1)..Len(body)
      BY <2>2
    <3>2. body[a].to < body[b].from
      BY <3>1, BodyLines
    <3> QED BY <3>2, <1>1
  <2> QED BY <2>1, <2>2
<1> QED BY <1>1, <1>2 DEF TextLen

LEMMA SectionLength ==
    ASSUME TypeOK, body \in Bodies, NEW s \in DOMAIN sections
    PROVE  /\ SectionLen(s) \in Nat
           /\ sections[s] \in Section
           /\ sections[s].first \in 1..Len(body)
           /\ sections[s].last \in 1..Len(body)
           /\ sections[s].first <= sections[s].last
<1>1. /\ sections[s].first \in 1..sections[s].last
      /\ sections[s].last \in 1..Len(body)
      /\ sections[s] \in Section
  BY DEF TypeOK
<1>2. /\ sections[s].first \in 1..Len(body) /\ sections[s].first <= sections[s].last
  BY <1>1, BodyLines
<1> QED BY <1>1, <1>2, TextLength DEF SectionLen

(* What an append does to a sequence, pointwise. *)
LEMMA Appending ==
    ASSUME NEW T, NEW q \in Seq(T), NEW e \in T
    PROVE  /\ Append(q, e) \in Seq(T)
           /\ Len(Append(q, e)) = Len(q) + 1
           /\ DOMAIN Append(q, e) = DOMAIN q \cup {Len(q) + 1}
           /\ DOMAIN q = 1..Len(q)
           /\ Append(q, e)[Len(q) + 1] = e
           /\ \A i \in DOMAIN q : Append(q, e)[i] = q[i]
OBVIOUS

-----------------------------------------------------------------------------
LEMMA InitInv == Init => IInv
<1> SUFFICES ASSUME Init PROVE IInv
  OBVIOUS
<1> USE DEF Init
<1>1. body \in Bodies /\ body \in Seq(Line) /\ Len(body) \in Nat \ {0}
  BY BodyLines
<1>2. BodyLen \in Nat
  BY BodyLines DEF BodyLen
<1>3. buffer \in Piece
  BY <1>2 DEF Piece, NoPiece
<1>4. TypeOK
  <2>1. pending \in Run
    BY DEF Run, NoRun
  <2>2. /\ sections \in Seq(Section) /\ units \in Seq(Unit) /\ passages \in Seq(Passage)
        /\ DOMAIN sections = {} /\ DOMAIN units = {}
    OBVIOUS
  <2>3. line \in 1..(Len(body) + 1) /\ at \in 0..(BodyLen + 1)
    BY <1>1, <1>2
  <2>4. phase \in {"scan", "merge", "pack", "chunk", "done"} /\ next \in Nat \ {0}
    OBVIOUS
  <2>5. /\ \A s \in DOMAIN sections :
              sections[s].first \in 1..sections[s].last /\ sections[s].last \in 1..Len(body)
        /\ \A u \in DOMAIN units : {units[u].first, units[u].last} \subseteq DOMAIN sections
    <3> HIDE DEF Init
    <3> QED BY <2>2
  <2> HIDE DEF Init
  <2> QED BY <1>1, <1>3, <2>1, <2>2, <2>3, <2>4, <2>5 DEF TypeOK
<1>5. ScanInv /\ MergeInv /\ UnitsInOrder /\ PassagesWithinCap /\ ShortRunsWithinTarget
  BY SplitterAssumption
  DEF ScanInv, MergeInv, UnitsInOrder, PassagesWithinCap, ShortRunsWithinTarget, NoRun
<1>6. PackInv
  BY SplitterAssumption DEF PackInv, NoPiece
<1> QED BY <1>1, <1>4, <1>5, <1>6 DEF IInv

LEMMA ScanSectionKeeps == ASSUME IInv, ScanSection PROVE IInv'
<1>1. /\ phase = "scan" /\ phase' = "scan" /\ line \in 1..Len(body)
      /\ Len(body) \in Nat /\ sections \in Seq(Section)
      /\ UNCHANGED <<body, next, pending, units, at, buffer, passages>>
  BY BodyLines DEF ScanSection, IInv, TypeOK
<1>2. units = <<>> /\ pending = NoRun /\ next = 1
  BY <1>1 DEF IInv, ScanInv
<1>3. PICK end \in line..Len(body) :
         \E last \in line..end :
            /\ line' = end + 1
            /\ sections' =
                  Append(sections, [first |-> line, last |-> last,
                                    path |-> IF Cut(line) THEN line ELSE NoPath])
  BY DEF ScanSection
<1> PICK last \in line..end :
       /\ line' = end + 1
       /\ sections' =
             Append(sections, [first |-> line, last |-> last,
                               path |-> IF Cut(line) THEN line ELSE NoPath])
  BY <1>3
<1> DEFINE new == [first |-> line, last |-> last,
                   path |-> IF Cut(line) THEN line ELSE NoPath]
<1>4. new \in Section /\ new.first \in 1..new.last /\ new.last \in 1..Len(body)
  BY <1>1 DEF Section, Path, NoPath
<1> HIDE DEF new
<1>5. sections' = Append(sections, new)
  BY DEF new
<1>6. /\ sections' \in Seq(Section)
      /\ \A s \in DOMAIN sections' :
            sections'[s].first \in 1..sections'[s].last /\ sections'[s].last \in 1..Len(body)
  <2>1. \A s \in DOMAIN sections :
            sections[s].first \in 1..sections[s].last /\ sections[s].last \in 1..Len(body)
    BY DEF IInv, TypeOK
  <2>2. /\ sections' \in Seq(Section)
        /\ \A s \in DOMAIN sections' :
              \/ sections'[s] = new
              \/ s \in DOMAIN sections /\ sections'[s] = sections[s]
    <3>1. /\ Append(sections, new) \in Seq(Section)
          /\ \A s \in DOMAIN Append(sections, new) :
                \/ Append(sections, new)[s] = new
                \/ s \in DOMAIN sections /\ Append(sections, new)[s] = sections[s]
      BY <1>1, <1>4, Appending
    <3> QED BY <1>5, <3>1
  <2> QED BY <1>4, <2>1, <2>2
<1>7. TypeOK'
  <2>1. (BodyLen = BodyLen') /\ (Piece' = Piece) /\ (Passage' = Passage)
    BY <1>1 DEF BodyLen, Piece, Passage
  <2>2. line' \in 1..(Len(body) + 1)
    BY <1>1
  <2> QED BY <1>1, <1>2, <1>6, <2>1, <2>2 DEF IInv, TypeOK
<1>8. ScanInv' /\ MergeInv' /\ UnitsInOrder' /\ ShortRunsWithinTarget'
  BY <1>1, <1>2 DEF IInv, ScanInv, MergeInv, UnitsInOrder, ShortRunsWithinTarget, NoRun
<1>9. PackInv' /\ PassagesWithinCap'
  BY <1>1 DEF IInv, PackInv, PassagesWithinCap
<1> QED BY <1>1, <1>7, <1>8, <1>9 DEF IInv

-----------------------------------------------------------------------------
(* What the invariant says of one unit, and of a list of them. *)
GoodUnit(v) ==
    /\ v \in Unit
    /\ v.first \in DOMAIN sections /\ v.last \in DOMAIN sections
    /\ v.first <= v.last
    /\ (\A s \in v.first..v.last : Short(s)) => v.len <= TargetChars

GoodUnits(q, n) ==
    q \in Seq(Unit) /\ \A u \in DOMAIN q : GoodUnit(q[u]) /\ q[u].last < n

LEMMA UnitsGood ==
    ASSUME IInv, phase = "merge"
    PROVE  GoodUnits(units, next) /\ GoodUnits(units, next + 1)
<1>1. /\ units \in Seq(Unit) /\ next \in Nat
      /\ \A u \in DOMAIN units :
            /\ units[u].first \in DOMAIN sections /\ units[u].last \in DOMAIN sections
            /\ units[u].first <= units[u].last
            /\ units[u].last < next
  BY DEF IInv, TypeOK, UnitsInOrder, MergeInv
<1>2. \A u \in DOMAIN units : units[u] \in Unit /\ units[u].last \in Nat
  <2>1. \A u \in DOMAIN units : units[u] \in Unit
    BY <1>1
  <2> QED BY <2>1 DEF Unit
<1>3. ASSUME NEW u \in DOMAIN units,
             \A s \in units[u].first..units[u].last : Short(s)
      PROVE  units[u].len <= TargetChars
  <2>1. Longs(u) = {}
    BY <1>3 DEF Longs
  <2> QED BY <2>1 DEF IInv, ShortRunsWithinTarget
<1>4. \A u \in DOMAIN units : GoodUnit(units[u]) /\ units[u].last < next + 1
  BY <1>1, <1>2, <1>3 DEF GoodUnit
<1> QED BY <1>1, <1>4 DEF GoodUnits

LEMMA GoodAppend ==
    ASSUME NEW n, NEW q, GoodUnits(q, n), NEW v, GoodUnit(v), v.last < n
    PROVE  GoodUnits(Append(q, v), n)
<1>1. q \in Seq(Unit) /\ v \in Unit
  BY DEF GoodUnits, GoodUnit
<1>2. \A i \in DOMAIN Append(q, v) :
         Append(q, v)[i] = v \/ (i \in DOMAIN q /\ Append(q, v)[i] = q[i])
  BY <1>1, Appending
<1> QED BY <1>1, <1>2, Appending DEF GoodUnits

(* A step of the merge: it leaves good units and a run within the target. *)
LEMMA MergeStep ==
    ASSUME IInv, phase = "merge", phase' \in {"merge", "pack"},
           next' \in Nat \ {0}, pending' \in Run,
           NEW n, GoodUnits(units', n),
           phase' = "merge" => next' <= Len(sections) + 1 /\ n = next',
           pending' # NoRun => phase' = "merge" /\ pending'.first \in 1..(next' - 1),
           pending'.len <= TargetChars,
           UNCHANGED <<body, line, sections, at, buffer, passages>>
    PROVE  IInv'
<1>1. TypeOK'
  <2>1. (BodyLen = BodyLen') /\ (Piece' = Piece) /\ (Passage' = Passage)
    BY DEF BodyLen, Piece, Passage
  <2>2. /\ units' \in Seq(Unit)
        /\ \A u \in DOMAIN units' : {units'[u].first, units'[u].last} \subseteq DOMAIN sections'
    BY DEF GoodUnits, GoodUnit
  <2> QED BY <2>1, <2>2 DEF IInv, TypeOK
<1>2. ScanInv' /\ MergeInv'
  BY DEF ScanInv, MergeInv, GoodUnits
<1>3. PackInv' /\ PassagesWithinCap'
  BY DEF IInv, PackInv, PassagesWithinCap
<1>4. UnitsInOrder'
  BY DEF GoodUnits, GoodUnit, UnitsInOrder
<1>5. ShortRunsWithinTarget'
  <2>1. ASSUME NEW u \in DOMAIN units', Longs(u)' = {}
        PROVE  units'[u].len <= TargetChars
    <3>1. \A s : Short(s)' <=> Short(s)
      BY DEF Short, SectionLen, TextLen
    <3>2. \A s \in units'[u].first..units'[u].last : Short(s)
      BY <2>1, <3>1 DEF Longs
    <3> QED BY <3>2 DEF GoodUnits, GoodUnit
  <2> QED BY <2>1 DEF ShortRunsWithinTarget
<1> QED BY <1>1, <1>2, <1>3, <1>4, <1>5 DEF IInv

LEMMA PendingIsGood ==
    ASSUME IInv, phase = "merge", pending # NoRun
    PROVE  GoodUnit(PendingUnit) /\ PendingUnit.last < next
<1>1. /\ next \in Nat \ {0} /\ next <= Len(sections) + 1
      /\ pending.first \in 1..(next - 1) /\ pending.len <= TargetChars
      /\ pending \in Run /\ sections \in Seq(Section)
  BY DEF IInv, TypeOK, MergeInv
<1>2. /\ pending.first \in DOMAIN sections /\ next - 1 \in DOMAIN sections
      /\ pending.first <= next - 1
      /\ pending.first \in Nat /\ next - 1 \in Nat /\ pending.len \in Nat
  BY <1>1 DEF Run
<1>3. sections[pending.first].path \in Path
  <2>1. sections[pending.first] \in Section
    BY <1>1, <1>2
  <2> QED BY <2>1 DEF Section
<1>4. PendingUnit \in Unit
  <2>1. next - 1 \in Nat
    BY <1>2
  <2> QED BY <1>2, <1>3, <2>1 DEF PendingUnit, Unit
<1>5. /\ PendingUnit.first = pending.first /\ PendingUnit.last = next - 1
      /\ PendingUnit.len = pending.len
  BY DEF PendingUnit
<1>6. PendingUnit.last < next
  BY <1>1, <1>5
<1> HIDE DEF PendingUnit
<1> QED BY <1>1, <1>2, <1>4, <1>5, <1>6 DEF GoodUnit

LEMMA FlushedGood ==
    ASSUME IInv, phase = "merge", NEW s
    PROVE  GoodUnits(Flushed(s), next)
BY UnitsGood, PendingIsGood, GoodAppend DEF Flushed

LEMMA MergeKeeps ==
    ASSUME IInv,
           JoinPending \/ JoinPrevious \/ OpenPending \/ StandAlone \/ EndMerge
    PROVE  IInv'
<1>1. /\ phase = "merge" /\ next \in Nat \ {0} /\ next' \in Nat \ {0}
      /\ pending \in Run
      /\ UNCHANGED <<body, line, sections, at, buffer, passages>>
  <2>1. next \in Nat \ {0} /\ pending \in Run
    BY DEF IInv, TypeOK
  <2>2. CASE Merging
    BY <2>1, <2>2 DEF Merging
  <2>3. CASE EndMerge
    BY <2>1, <2>3 DEF EndMerge
  <2> QED BY <2>2, <2>3 DEF JoinPending, JoinPrevious, OpenPending, StandAlone
<1>2. ASSUME Merging
      PROVE  /\ phase' = "merge" /\ next' = next + 1 /\ next' <= Len(sections) + 1
             /\ next \in DOMAIN sections /\ SectionLen(next) \in Nat
             /\ sections[next].path \in Path
  <2>1. phase' = "merge" /\ next' = next + 1 /\ next <= Len(sections)
    BY <1>1, <1>2 DEF Merging
  <2>2. sections \in Seq(Section)
    BY DEF IInv, TypeOK
  <2>3. next \in DOMAIN sections /\ next' <= Len(sections) + 1
    BY <1>1, <2>1, <2>2
  <2>4. SectionLen(next) \in Nat /\ sections[next] \in Section
    BY <2>3, SectionLength DEF IInv
  <2> QED BY <2>1, <2>3, <2>4 DEF Section
<1>3. NoRun \in Run /\ NoRun.len <= TargetChars
  BY SplitterAssumption DEF NoRun, Run
<1>4. CASE JoinPending
  <2>1. Merging /\ units' = units /\ pending # NoRun /\ Fits(pending.len, next)
        /\ pending' = [pending EXCEPT !.len = @ + Gap + SectionLen(next)]
    BY <1>4 DEF JoinPending
  <2>2. /\ pending' \in Run /\ pending'.first = pending.first
        /\ pending'.len <= TargetChars
    BY <1>1, <1>2, <2>1 DEF Run, Fits, Gap
  <2>3. pending.first \in 1..(next' - 1)
    BY <1>1, <1>2, <2>1 DEF IInv, MergeInv
  <2>4. GoodUnits(units', next')
    BY <1>1, <1>2, <2>1, UnitsGood
  <2> QED BY <1>1, <1>2, <2>1, <2>2, <2>3, <2>4, MergeStep
<1>5. CASE JoinPrevious
  <2> DEFINE base == Flushed(next)
             n == Len(base)
             new == Extended(base[n], next)
  <2>1. /\ Merging /\ n > 0 /\ Fits(base[n].len, next) /\ pending' = NoRun
        /\ units' = [base EXCEPT ![n] = new]
    BY <1>5 DEF JoinPrevious
  <2>2. GoodUnits(base, next)
    BY <1>1, FlushedGood
  <2> HIDE DEF base
  <2>3. base \in Seq(Unit) /\ n \in DOMAIN base /\ DOMAIN base = 1..n
    BY <2>1, <2>2 DEF GoodUnits
  <2>4. GoodUnit(base[n]) /\ base[n] \in Unit /\ base[n].last < next
    BY <2>2, <2>3 DEF GoodUnits
  <2>5. GoodUnit(new) /\ new.last < next'
    <3>1. /\ new.first = base[n].first /\ new.last = next
          /\ new.len = base[n].len + Gap + SectionLen(next)
          /\ base[n].first \in Nat /\ base[n].last \in Nat /\ base[n].len \in Nat
          /\ base[n].path \in Path
          /\ new \in Unit
      BY <1>1, <1>2, <2>1, <2>4 DEF Unit, Gap, Extended
    <3>2. new.len <= TargetChars
      BY <2>1, <3>1 DEF Fits
    <3>3. base[n].first \in DOMAIN sections /\ base[n].first <= next
      BY <1>1, <2>4, <3>1 DEF GoodUnit
    <3> HIDE DEF new
    <3> QED BY <1>1, <1>2, <2>1, <3>1, <3>2, <3>3 DEF GoodUnit
  <2> HIDE DEF new
  <2>6. GoodUnits(units', next')
    <3>1. units' \in Seq(Unit) /\ DOMAIN units' = DOMAIN base
      BY <2>1, <2>3, <2>5 DEF GoodUnit
    <3>2. \A u \in DOMAIN units' : units'[u] = IF u = n THEN new ELSE base[u]
      BY <2>1, <2>3
    <3>3. \A u \in DOMAIN base : GoodUnit(base[u]) /\ base[u].last < next /\ base[u].last \in Nat
      BY <2>2 DEF GoodUnits, GoodUnit, Unit
    <3>4. \A u \in DOMAIN base : base[u].last < next'
      BY <1>1, <1>2, <2>1, <3>3
    <3> QED BY <2>5, <3>1, <3>2, <3>3, <3>4 DEF GoodUnits
  <2> QED BY <1>1, <1>2, <1>3, <2>1, <2>6, MergeStep
<1>6. CASE OpenPending
  <2>1. /\ Merging /\ Short(next) /\ units' = units
        /\ pending' = [first |-> next, len |-> SectionLen(next)]
    BY <1>6 DEF OpenPending
  <2>2. pending' \in Run /\ pending'.len <= TargetChars /\ pending'.first \in 1..(next' - 1)
    BY <1>1, <1>2, <2>1, SplitterAssumption DEF Run, Short
  <2>3. GoodUnits(units', next')
    BY <1>1, <1>2, <2>1, UnitsGood
  <2> QED BY <1>1, <1>2, <2>1, <2>2, <2>3, MergeStep
<1>7. CASE StandAlone
  <2> DEFINE base == Flushed(next)
             run == IF Short(next) THEN NoRun ELSE pending
             new == [first |-> IF run = NoRun THEN next ELSE run.first,
                     last |-> next,
                     path |-> Label(next),
                     len |-> SectionLen(next) + (IF run = NoRun THEN 0 ELSE run.len + Gap)]
  <2>1. Merging /\ units' = Append(base, new) /\ pending' = NoRun
    BY <1>7 DEF StandAlone
  <2>2. GoodUnits(base, next)
    BY <1>1, FlushedGood
  <2>3. GoodUnits(base, next')
    BY <1>1, <1>2, <2>1, <2>2 DEF GoodUnits, GoodUnit, Unit
  <2>4. GoodUnit(new) /\ new.last < next'
    <3>1. run # NoRun => /\ pending.first \in 1..(next - 1) /\ run = pending
                         /\ pending.len \in Nat /\ pending.first \in Nat
      BY <1>1 DEF IInv, MergeInv, Run
    <3>2. new.first \in DOMAIN sections /\ new.first <= next /\ new.first \in Nat
      BY <1>1, <1>2, <2>1, <3>1
    <3>3. new.len \in Nat /\ new.path \in Path
      BY <1>2, <2>1, <3>1 DEF Label, Gap
    <3>4. ASSUME \A s \in new.first..new.last : Short(s)
          PROVE  new.len <= TargetChars
      <4>1. Short(next)
        BY <1>1, <3>2, <3>4
      <4> QED BY <4>1, <1>2, <2>1, SplitterAssumption DEF Short
    <3>5. new \in Unit
      BY <1>1, <3>2, <3>3 DEF Unit
    <3> QED BY <1>1, <1>2, <2>1, <3>2, <3>4, <3>5 DEF GoodUnit
  <2> HIDE DEF base, new
  <2>5. GoodUnits(units', next')
    BY <2>1, <2>3, <2>4, GoodAppend
  <2> QED BY <1>1, <1>2, <1>3, <2>1, <2>5, MergeStep
<1>8. CASE EndMerge
  <2>1. /\ units' = IF pending = NoRun THEN units ELSE Append(units, PendingUnit)
        /\ pending' = NoRun /\ phase' = "pack"
    BY <1>8 DEF EndMerge
  <2>2. GoodUnits(units', next)
    BY <1>1, <2>1, UnitsGood, PendingIsGood, GoodAppend
  <2> QED BY <1>1, <1>3, <2>1, <2>2, MergeStep
<1> QED BY <1>4, <1>5, <1>6, <1>7, <1>8

-----------------------------------------------------------------------------
LEMMA UseSectionsKeeps == ASSUME IInv, UseSections PROVE IInv'
<1>1. /\ phase = "scan" /\ phase' = "merge"
      /\ UNCHANGED <<body, line, sections, next, pending, units, at, buffer,
                     passages>>
  BY DEF UseSections
<1>2. units = <<>> /\ pending = NoRun /\ next = 1
  BY <1>1 DEF IInv, ScanInv
<1>3. GoodUnits(units', next')
  BY <1>1, <1>2 DEF GoodUnits
<1>4. TypeOK'
  <2>1. (BodyLen = BodyLen') /\ (Piece' = Piece) /\ (Passage' = Passage)
    BY <1>1 DEF BodyLen, Piece, Passage
  <2> QED BY <1>1, <2>1 DEF IInv, TypeOK
<1>5. 1 <= Len(sections) + 1
  <2>1. sections \in Seq(Section)
    BY DEF IInv, TypeOK
  <2> QED BY <2>1
<1>6. ScanInv' /\ MergeInv' /\ UnitsInOrder' /\ ShortRunsWithinTarget'
  BY <1>1, <1>2, <1>5
  DEF IInv, ScanInv, MergeInv, UnitsInOrder, ShortRunsWithinTarget
<1>7. PackInv' /\ PassagesWithinCap'
  BY <1>1 DEF IInv, PackInv, PassagesWithinCap
<1> QED BY <1>1, <1>4, <1>6, <1>7 DEF IInv

LEMMA KeepWholeKeeps == ASSUME IInv, KeepWhole PROVE IInv'
<1> DEFINE whole == [first |-> 1, last |-> Len(body), path |-> NoPath]
           all == [first |-> 1, last |-> 1, path |-> NoPath, len |-> BodyLen]
<1>1. /\ phase = "scan" /\ phase' = "pack"
      /\ sections' = <<whole>> /\ units' = <<all>>
      /\ UNCHANGED <<body, line, next, pending, at, buffer, passages>>
  BY DEF KeepWhole
<1>2. /\ Len(body) \in Nat \ {0} /\ BodyLen \in Nat /\ body[1].from = 0
      /\ body \in Bodies
  BY BodyLines, SplitterAssumption DEF IInv, BodyLen
<1>3. /\ whole \in Section /\ all \in Unit
      /\ whole.first = 1 /\ whole.last = Len(body)
      /\ all.first = 1 /\ all.last = 1 /\ all.len = BodyLen
  BY <1>2 DEF Section, Unit, Path, NoPath
<1> HIDE DEF whole, all
<1>4. /\ sections' \in Seq(Section) /\ DOMAIN sections' = {1} /\ sections'[1] = whole
      /\ units' \in Seq(Unit) /\ DOMAIN units' = {1} /\ units'[1] = all
  BY <1>1, <1>3
<1>5. TypeOK'
  <2>1. (BodyLen = BodyLen') /\ (Piece' = Piece) /\ (Passage' = Passage)
    BY <1>1 DEF BodyLen, Piece, Passage
  <2>3. /\ \A s \in DOMAIN sections' :
              /\ sections'[s].first \in 1..sections'[s].last
              /\ sections'[s].last \in 1..Len(body)
        /\ \A u \in DOMAIN units' : {units'[u].first, units'[u].last} \subseteq DOMAIN sections'
    BY <1>2, <1>3, <1>4
  <2> QED BY <1>1, <1>4, <2>1, <2>3 DEF IInv, TypeOK
<1>6. ScanInv' /\ MergeInv' /\ UnitsInOrder'
  BY <1>1, <1>3, <1>4 DEF IInv, ScanInv, MergeInv, UnitsInOrder
<1>7. PackInv' /\ PassagesWithinCap'
  BY <1>1 DEF IInv, PackInv, PassagesWithinCap
<1>8. ShortRunsWithinTarget'
  <2>1. ASSUME Longs(1)' = {}
        PROVE  BodyLen <= TargetChars
    <3>1. 1 \in units'[1].first..units'[1].last
      BY <1>3, <1>4
    <3>2. Short(1)'
      BY <2>1, <3>1 DEF Longs
    <3>3. (SectionLen(1))' = BodyLen
      BY <1>1, <1>2, <1>3, <1>4 DEF SectionLen, TextLen, BodyLen
    <3> QED BY <1>2, <3>2, <3>3, SplitterAssumption DEF Short
  <2> QED BY <1>3, <1>4, <2>1 DEF ShortRunsWithinTarget
<1> QED BY <1>1, <1>2, <1>5, <1>6, <1>7, <1>8 DEF IInv

-----------------------------------------------------------------------------
(* A step of the packing: sections and units stay as they are. *)
LEMMA PackStep ==
    ASSUME IInv, phase \in {"pack", "chunk"}, phase' \in {"pack", "chunk", "done"},
           next' \in Nat \ {0}, line' \in 1..(Len(body) + 1), at' \in 0..(BodyLen + 1),
           buffer' \in Piece, buffer'.len <= MaxChars,
           passages' \in Seq(Passage), PassagesWithinCap',
           phase' = "chunk" =>
              /\ next' <= Len(units)
              /\ \A e \in DOMAIN body : ParagraphEnd(e)' => at' <= body[e].to,
           UNCHANGED <<body, sections, pending, units>>
    PROVE  IInv'
<1>1. TypeOK'
  <2>1. (BodyLen = BodyLen') /\ (Piece' = Piece) /\ (Passage' = Passage)
    BY DEF BodyLen, Piece, Passage
  <2> QED BY <2>1 DEF IInv, TypeOK
<1>2. ScanInv' /\ MergeInv' /\ UnitsInOrder'
  BY DEF IInv, ScanInv, MergeInv, UnitsInOrder
<1>3. PackInv'
  BY DEF PackInv
<1>4. ShortRunsWithinTarget'
  BY DEF IInv, ShortRunsWithinTarget, Longs, Short, SectionLen, TextLen
<1> QED BY <1>1, <1>2, <1>3, <1>4 DEF IInv

LEMMA PassageAppended ==
    ASSUME IInv, next <= Len(units), NEW piece \in Piece, piece.len <= MaxChars,
           passages' = Append(passages, AsPassage(piece)), UNCHANGED body
    PROVE  passages' \in Seq(Passage) /\ PassagesWithinCap'
<1>1. passages \in Seq(Passage) /\ units \in Seq(Unit) /\ next \in Nat \ {0}
  BY DEF IInv, TypeOK
<1>2. units[next] \in Unit
  BY <1>1
<1>3. AsPassage(piece) \in Passage /\ AsPassage(piece).len = piece.len
  BY <1>2 DEF AsPassage, Passage, Piece, Unit
<1>4. /\ Append(passages, AsPassage(piece)) \in Seq(Passage)
      /\ \A p \in DOMAIN Append(passages, AsPassage(piece)) :
            \/ Append(passages, AsPassage(piece))[p] = AsPassage(piece)
            \/ p \in DOMAIN passages /\ Append(passages, AsPassage(piece))[p] = passages[p]
  BY <1>1, <1>3, Appending
<1> QED BY <1>3, <1>4 DEF IInv, PassagesWithinCap

(* The lines of the unit that is packed are lines of the body. *)
LEMMA UnitLines ==
    ASSUME IInv, next <= Len(units)
    PROVE  /\ next \in DOMAIN units
           /\ LastLine \in 1..Len(body)
           /\ sections[units[next].first].first \in 1..Len(body)
<1>1. units \in Seq(Unit) /\ next \in Nat \ {0}
  BY DEF IInv, TypeOK
<1>2. next \in DOMAIN units
  BY <1>1
<1>3. units[next].first \in DOMAIN sections /\ units[next].last \in DOMAIN sections
  BY <1>2 DEF IInv, TypeOK
<1> QED BY <1>2, <1>3, SectionLength DEF IInv, LastLine

LEMMA PassUnitKeeps == ASSUME IInv, PassUnit PROVE IInv'
<1> DEFINE piece == [chars |-> UnitChars, len |-> units[next].len]
<1>1. /\ phase = "pack" /\ phase' = "pack" /\ next <= Len(units)
      /\ piece.len <= MaxChars /\ piece.len = units[next].len /\ piece.chars = UnitChars
      /\ passages' = Append(passages, AsPassage(piece)) /\ next' = next + 1
      /\ UNCHANGED <<body, line, sections, pending, units, at, buffer>>
  BY DEF PassUnit
<1>2. /\ next \in Nat \ {0} /\ next \in DOMAIN units /\ units \in Seq(Unit)
      /\ sections \in Seq(Section)
      /\ units[next].first \in DOMAIN sections /\ units[next].last \in DOMAIN sections
  BY <1>1, UnitLines DEF IInv, TypeOK
<1>3. units[next] \in Unit
  BY <1>2
<1>4. UnitChars \subseteq 0..(BodyLen - 1)
  <2>1. ASSUME NEW s \in units[next].first..units[next].last,
               NEW c \in body[sections[s].first].from..(body[sections[s].last].to - 1)
        PROVE  c \in 0..(BodyLen - 1)
    <3>1. s \in DOMAIN sections
      BY <1>2
    <3>2. /\ sections[s].first \in 1..Len(body) /\ sections[s].last \in 1..Len(body)
          /\ sections[s].first <= sections[s].last
      BY <3>1, SectionLength DEF IInv
    <3>3. /\ body[sections[s].first].from \in Nat /\ body[sections[s].last].to \in Nat
          /\ body[sections[s].last].to <= BodyLen
      BY <3>2, TextLength DEF IInv
    <3>4. BodyLen \in Nat
      BY BodyLines DEF IInv, BodyLen
    <3> QED BY <3>3, <3>4
  <2> QED BY <2>1 DEF UnitChars
<1>5. piece \in Piece
  BY <1>3, <1>4 DEF Piece, Unit
<1>6. passages' \in Seq(Passage) /\ PassagesWithinCap'
  BY <1>1, <1>5, PassageAppended
<1>7. /\ line' \in 1..(Len(body) + 1) /\ at' \in 0..(BodyLen + 1)
      /\ buffer' \in Piece /\ buffer'.len <= MaxChars
  <2>1. buffer' = buffer
    BY <1>1
  <2>2. Piece' = Piece
    BY <1>1 DEF Piece, BodyLen
  <2> QED BY <1>1, <2>1, <2>2 DEF IInv, TypeOK, PackInv
<1> QED BY <1>1, <1>2, <1>6, <1>7, PackStep

LEMMA OpenUnitKeeps == ASSUME IInv, OpenUnit PROVE IInv'
<1>1. /\ phase = "pack" /\ phase' = "chunk" /\ next <= Len(units)
      /\ line' = sections[units[next].first].first
      /\ at' = body[line'].from
      /\ UNCHANGED <<body, sections, next, pending, units, buffer, passages>>
  BY DEF OpenUnit
<1>2. line' \in 1..Len(body)
  BY <1>1, UnitLines
<1>3. /\ body[line'].from \in Nat /\ body[line'].from <= BodyLen /\ BodyLen \in Nat
      /\ Len(body) \in Nat
  BY <1>2, BodyLines DEF IInv, BodyLen
<1>4. ASSUME NEW e \in DOMAIN body, ParagraphEnd(e)'
      PROVE  at' <= body[e].to
  <2>1. e >= line' /\ e \in 1..Len(body)
    BY <1>1, <1>4, BodyLines DEF IInv, ParagraphEnd
  <2> QED BY <1>1, <1>2, <2>1, TextLength DEF IInv
<1>5. /\ next' \in Nat \ {0} /\ next' <= Len(units)
      /\ buffer' \in Piece /\ buffer'.len <= MaxChars
      /\ passages' \in Seq(Passage)
  BY <1>1 DEF IInv, TypeOK, PackInv
<1>6. PassagesWithinCap'
  BY <1>1 DEF IInv, PassagesWithinCap
<1>7. line' \in 1..(Len(body) + 1) /\ at' \in 0..(BodyLen + 1)
  BY <1>1, <1>2, <1>3
<1> QED BY <1>1, <1>4, <1>5, <1>6, <1>7, PackStep

(* What a step from one paragraph to the next leaves to show. *)
LEMMA ToNextLine ==
    ASSUME IInv, phase = "chunk", phase' = "chunk",
           NEW e \in line..LastLine, line <= LastLine,
           line' = e + 1, at' = body[e].to + 1,
           buffer' \in Piece, buffer'.len <= MaxChars,
           passages' \in Seq(Passage), PassagesWithinCap',
           UNCHANGED <<body, sections, next, pending, units>>
    PROVE  IInv'
<1>1. next <= Len(units) /\ line \in 1..(Len(body) + 1) /\ next \in Nat \ {0}
  BY DEF IInv, TypeOK, PackInv
<1>2. LastLine \in 1..Len(body) /\ Len(body) \in Nat
  BY <1>1, UnitLines, BodyLines DEF IInv
<1>3. e \in 1..Len(body)
  BY <1>1, <1>2
<1>4. body[e].to \in Nat /\ body[e].to <= BodyLen /\ BodyLen \in Nat
  BY <1>3, BodyLines DEF IInv, BodyLen
<1>5. ASSUME NEW f \in DOMAIN body, ParagraphEnd(f)'
      PROVE  at' <= body[f].to
  <2>1. f >= e + 1 /\ f \in 1..Len(body)
    BY <1>5, BodyLines DEF IInv, ParagraphEnd
  <2>2. f \in (e + 1)..Len(body)
    BY <1>3, <2>1
  <2>3. /\ body[e].to < body[f].from /\ body[f].from <= body[f].to
        /\ body[f].from \in Nat /\ body[f].to \in Nat
    BY <1>3, <2>1, <2>2, BodyLines DEF IInv
  <2> QED BY <1>4, <2>3
<1>6. line' \in 1..(Len(body) + 1) /\ at' \in 0..(BodyLen + 1)
  BY <1>2, <1>3, <1>4
<1> QED BY <1>1, <1>5, <1>6, PackStep

LEMMA SkipBlankKeeps == ASSUME IInv, SkipBlank PROVE IInv'
<1>1. /\ phase = "chunk" /\ phase' = "chunk" /\ line <= LastLine
      /\ line' = line + 1 /\ at' = body[line].to + 1
      /\ UNCHANGED <<body, sections, next, pending, units, buffer, passages>>
  BY DEF SkipBlank
<1>2. /\ line \in 1..(Len(body) + 1) /\ next <= Len(units)
      /\ buffer \in Piece /\ buffer.len <= MaxChars /\ passages \in Seq(Passage)
  BY <1>1 DEF IInv, TypeOK, PackInv
<1>3. LastLine \in 1..Len(body)
  BY <1>2, UnitLines
<1>4. line \in line..LastLine
  BY <1>1, <1>2, <1>3
<1>5. PassagesWithinCap'
  BY <1>1 DEF IInv, PassagesWithinCap
<1> QED BY <1>1, <1>2, <1>4, <1>5, ToNextLine

LEMMA PackChunkKeeps ==
    ASSUME IInv, NEW e \in DOMAIN body, PackChunk(e)
    PROVE  IInv'
<1> DEFINE end == ChunkEnd(e)
           chunk == [chars |-> at..(end - 1), len |-> end - at]
<1>1. /\ phase = "chunk" /\ phase' = "chunk" /\ line <= LastLine /\ ParagraphEnd(e)
      /\ StartBuffer(chunk) \/ EmitBuffer(chunk) \/ JoinBuffer(chunk)
      /\ IF end < body[e].to THEN line' = line /\ at' = end
                             ELSE line' = e + 1 /\ at' = body[e].to + 1
      /\ UNCHANGED <<body, sections, next, pending, units>>
  BY DEF PackChunk
<1>2. /\ line \in 1..(Len(body) + 1) /\ next <= Len(units) /\ next \in Nat \ {0}
      /\ buffer \in Piece /\ buffer.len <= MaxChars /\ passages \in Seq(Passage)
      /\ at \in 0..(BodyLen + 1) /\ at <= body[e].to
  BY <1>1 DEF IInv, TypeOK, PackInv
<1>3. LastLine \in 1..Len(body) /\ e \in line..LastLine
  BY <1>1, <1>2, UnitLines DEF ParagraphEnd
<1>4. /\ body[e].to \in Nat /\ body[e].to <= BodyLen /\ BodyLen \in Nat
      /\ Len(body) \in Nat
  BY BodyLines DEF IInv, BodyLen
<1>5. /\ end \in Nat /\ at <= end /\ end <= body[e].to /\ end - at <= MaxChars
  BY SMTT(30), <1>2, <1>4, SplitterAssumption DEF ChunkEnd
<1>6. /\ chunk \in Piece /\ chunk.len <= MaxChars /\ chunk.len \in Nat
  BY <1>2, <1>4, <1>5 DEF Piece
<1> HIDE DEF chunk, end
<1>7. /\ buffer' \in Piece /\ buffer'.len <= MaxChars
      /\ passages' \in Seq(Passage) /\ PassagesWithinCap'
  <2>1. CASE StartBuffer(chunk)
    BY <1>1, <1>2, <1>6, <2>1 DEF StartBuffer, IInv, PassagesWithinCap
  <2>2. CASE EmitBuffer(chunk)
    <3>1. passages' = Append(passages, AsPassage(buffer)) /\ buffer' = chunk
      BY <2>2 DEF EmitBuffer
    <3> QED BY <1>1, <1>2, <1>6, <3>1, PassageAppended
  <2>3. CASE JoinBuffer(chunk)
    <3>1. /\ buffer.len + Gap + chunk.len <= TargetChars
          /\ buffer' = [chars |-> buffer.chars \cup chunk.chars,
                        len |-> buffer.len + Gap + chunk.len]
          /\ UNCHANGED passages
      BY <2>3 DEF JoinBuffer
    <3>2. buffer' \in Piece /\ buffer'.len <= TargetChars
      BY <1>2, <1>6, <3>1 DEF Piece, Gap
    <3>3. buffer'.len <= MaxChars
      BY <3>2, SplitterAssumption DEF Piece
    <3>4. PassagesWithinCap'
      BY <3>1 DEF IInv, PassagesWithinCap
    <3> QED BY <1>2, <3>1, <3>2, <3>3, <3>4
  <2> QED BY <1>1, <2>1, <2>2, <2>3
<1>8. CASE ~(end < body[e].to)
  BY <1>1, <1>2, <1>3, <1>7, <1>8, ToNextLine
<1>9. CASE end < body[e].to
  <2>1. line' = line /\ at' = end
    BY <1>1, <1>9
  <2>2. ASSUME NEW f \in DOMAIN body, ParagraphEnd(f)'
        PROVE  at' <= body[f].to
    <3>1. ParagraphEnd(f)
      BY <1>1, <2>1, <2>2 DEF ParagraphEnd, LastLine, Starts, Blank
    <3>2. e = f
      <4>1. /\ e \in 1..Len(body) /\ f \in 1..Len(body)
            /\ e \in line..LastLine /\ f \in line..LastLine
        BY <1>1, <3>1, BodyLines DEF IInv, ParagraphEnd
      <4>2. ~(e < f)
        BY <1>1, <1>2, <1>3, <3>1, <4>1 DEF ParagraphEnd
      <4>3. ~(f < e)
        BY <1>1, <1>2, <1>3, <3>1, <4>1 DEF ParagraphEnd
      <4> QED BY <4>1, <4>2, <4>3
    <3> QED BY <1>5, <2>1, <3>2
  <2>3. at' \in 0..(BodyLen + 1) /\ line' \in 1..(Len(body) + 1)
    BY <1>2, <1>4, <1>5, <2>1
  <2> QED BY <1>1, <1>2, <1>7, <2>2, <2>3, PackStep
<1> QED BY <1>8, <1>9

LEMMA CloseUnitKeeps == ASSUME IInv, CloseUnit PROVE IInv'
<1>1. /\ phase = "chunk" /\ phase' = "pack" /\ next' = next + 1
      /\ passages' = Append(passages, AsPassage(buffer)) /\ buffer' = NoPiece
      /\ UNCHANGED <<body, line, sections, pending, units, at>>
  BY DEF CloseUnit
<1>2. /\ line \in 1..(Len(body) + 1) /\ next <= Len(units) /\ next \in Nat \ {0}
      /\ buffer \in Piece /\ buffer.len <= MaxChars /\ at \in 0..(BodyLen + 1)
  BY <1>1 DEF IInv, TypeOK, PackInv
<1>3. NoPiece \in Piece /\ NoPiece.len <= MaxChars
  BY SplitterAssumption DEF NoPiece, Piece
<1>4. passages' \in Seq(Passage) /\ PassagesWithinCap'
  BY <1>1, <1>2, PassageAppended
<1> QED BY <1>1, <1>2, <1>3, <1>4, PackStep

LEMMA EndPackKeeps == ASSUME IInv, EndPack PROVE IInv'
<1>1. /\ phase = "pack" /\ phase' = "done"
      /\ UNCHANGED <<body, line, sections, next, pending, units, at, buffer,
                     passages>>
  BY DEF EndPack
<1>2. /\ line \in 1..(Len(body) + 1) /\ next \in Nat \ {0}
      /\ buffer \in Piece /\ buffer.len <= MaxChars /\ at \in 0..(BodyLen + 1)
      /\ passages \in Seq(Passage) /\ PassagesWithinCap
  BY DEF IInv, TypeOK, PackInv
<1>3. PassagesWithinCap'
  BY <1>1, <1>2 DEF PassagesWithinCap
<1> QED BY <1>1, <1>2, <1>3, PackStep

LEMMA StutterKeeps == ASSUME IInv, UNCHANGED vars PROVE IInv'
<1>1. /\ body' = body /\ phase' = phase /\ line' = line
      /\ sections' = sections
      /\ next' = next /\ pending' = pending /\ units' = units /\ at' = at
      /\ buffer' = buffer /\ passages' = passages
  BY DEF vars
<1>2. (BodyLen = BodyLen') /\ (Piece' = Piece) /\ (Passage' = Passage)
  BY <1>1 DEF BodyLen, Piece, Passage
<1>3. TypeOK'
  BY <1>1, <1>2 DEF IInv, TypeOK
<1>4. ScanInv' /\ MergeInv' /\ UnitsInOrder' /\ PassagesWithinCap'
  BY <1>1 DEF IInv, ScanInv, MergeInv, UnitsInOrder, PassagesWithinCap
<1>5. PackInv'
  BY <1>1 DEF IInv, PackInv, ParagraphEnd, LastLine, Starts, Blank
<1>6. ShortRunsWithinTarget'
  BY <1>1 DEF IInv, ShortRunsWithinTarget, Longs, Short, SectionLen, TextLen
<1> QED BY <1>1, <1>3, <1>4, <1>5, <1>6 DEF IInv

LEMMA StepInv == IInv /\ [Next]_vars => IInv'
<1> SUFFICES ASSUME IInv, [Next]_vars PROVE IInv'
  OBVIOUS
<1>1. CASE ScanSection
  BY <1>1, ScanSectionKeeps
<1>2. CASE UseSections
  BY <1>2, UseSectionsKeeps
<1>3. CASE KeepWhole
  BY <1>3, KeepWholeKeeps
<1>4. CASE JoinPending \/ JoinPrevious \/ OpenPending \/ StandAlone \/ EndMerge
  BY <1>4, MergeKeeps
<1>5. CASE PassUnit
  BY <1>5, PassUnitKeeps
<1>6. CASE OpenUnit
  BY <1>6, OpenUnitKeeps
<1>7. CASE SkipBlank
  BY <1>7, SkipBlankKeeps
<1>8. CASE \E e \in DOMAIN body : PackChunk(e)
  BY <1>8, PackChunkKeeps
<1>9. CASE CloseUnit
  BY <1>9, CloseUnitKeeps
<1>10. CASE EndPack
  BY <1>10, EndPackKeeps
<1>11. CASE Done \/ UNCHANGED vars
  BY <1>11, StutterKeeps DEF Done
<1> QED BY <1>1, <1>2, <1>3, <1>4, <1>5, <1>6, <1>7, <1>8, <1>9, <1>10, <1>11 DEF Next

-----------------------------------------------------------------------------
(* The invariant holds of every run of split_note. *)
THEOREM SplitInvariant == Spec => []IInv
BY InitInv, StepInv, PTL DEF Spec

(* Every variable keeps its type; a passage is made of the body's own      *)
(* characters.                                                             *)
THEOREM SplitTypes == Spec => []TypeOK
<1>1. IInv => TypeOK
  BY DEF IInv
<1> QED BY <1>1, SplitInvariant, PTL

(* No passage exceeds MaxChars, for every body and every three sizes with  *)
(* MinSectionChars <= TargetChars <= MaxChars.                             *)
THEOREM CapHolds == Spec => []PassagesWithinCap
<1>1. IInv => PassagesWithinCap
  BY DEF IInv
<1> QED BY <1>1, SplitInvariant, PTL

(* Short sections alone never make a unit over the target.                 *)
THEOREM TargetHolds == Spec => []ShortRunsWithinTarget
<1>1. IInv => ShortRunsWithinTarget
  BY DEF IInv
<1> QED BY <1>1, SplitInvariant, PTL
=============================================================================
