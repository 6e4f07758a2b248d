------------------------------ MODULE Splitter ------------------------------
(***************************************************************************)
(* split_note of src/app/core/splitter.py: a Markdown body is cut into     *)
(* sections at its headings (scan), short sections are folded into a       *)
(* neighbour (merge), and what is still over the cap is broken into        *)
(* paragraphs and packed again (pack, chunk).  One step cuts one section,  *)
(* or is one iteration of the loop that the phase names.                   *)
(*                                                                         *)
(* A character is its offset in the body.  A line has a kind and the       *)
(* offsets of its first character and of the newline that ends it, so that *)
(* the length of lines a to b is body[b].to - body[a].from.  The text that *)
(* join() puts between two parts is its length, Gap.  A heading path is    *)
(* the line of the heading it ends in, NoPath for the preamble.  Front     *)
(* matter and provenance are text processing and not modelled: a body is   *)
(* what is left after them, with no blank line at either end.  Blank lines *)
(* are empty, and lines are neither indented nor followed by spaces.       *)
(***************************************************************************)
EXTENDS Integers, Sequences, FiniteSets

CONSTANTS
    Bodies,           \* the bodies split_note is called with
    TargetChars,
    MaxChars,
    MinSectionChars

VARIABLES
    body,      \* the lines
    phase,     \* which loop is running
    line,      \* the line the scan, or the packing of a unit, is at
    sections,
    next,      \* the section the merge, or the unit the packing, is at
    pending,   \* the run of short sections that waits for the next one
    units,
    at,        \* the next character to pack
    buffer,    \* the piece being packed
    passages

vars == <<body, phase, line, sections, next, pending, units, at, buffer, passages>>

Line == [kind: {"text", "blank", "heading", "tick", "tilde"}, from: Nat, to: Nat]

(* The length of the two newlines between parts. *)
Gap == 2

NoPath == 0
Path == Nat

(* A unit is the sections first to last, and the length of its text.       *)
Section == [first: Nat, last: Nat, path: Path]
Unit == [first: Nat, last: Nat, path: Path, len: Nat]
Run == [first: Nat, len: Nat]

NoRun == [first |-> 0, len |-> 0]
NoPiece == [chars |-> {}, len |-> 0]

ASSUME SplitterAssumption ==
    /\ TargetChars \in Nat /\ MaxChars \in Nat \ {0} /\ MinSectionChars \in Nat
    /\ MinSectionChars <= TargetChars /\ TargetChars <= MaxChars
    /\ \A b \in Bodies :
          /\ b \in Seq(Line) /\ Len(b) > 0
          /\ b[1].from = 0
          /\ \A i \in 1..Len(b) :
                /\ b[i].from <= b[i].to
                /\ b[i].kind = "blank" <=> b[i].from = b[i].to
                /\ i < Len(b) => b[i + 1].from = b[i].to + 1
                /\ \A j \in (i + 1)..Len(b) : b[i].to < b[j].from
          /\ Len(b) > 1 => b[1].kind # "blank" /\ b[Len(b)].kind # "blank"

BodyLen == body[Len(body)].to
Piece == [chars: SUBSET (0..(BodyLen - 1)), len: Nat]
Passage == [chars: SUBSET (0..(BodyLen - 1)), len: Nat, path: Path]

Blank(i) == body[i].kind = "blank"
TextLen(a, b) == body[b].to - body[a].from
SectionLen(s) == TextLen(sections[s].first, sections[s].last)
Short(s) == SectionLen(s) < MinSectionChars

TypeOK ==
    /\ body \in Seq(Line)
    /\ phase \in {"scan", "merge", "pack", "chunk", "done"}
    /\ line \in 1..(Len(body) + 1)
    /\ sections \in Seq(Section)
    /\ \A s \in DOMAIN sections :
          sections[s].first \in 1..sections[s].last /\ sections[s].last \in 1..Len(body)
    /\ next \in Nat \ {0}
    /\ pending \in Run
    /\ units \in Seq(Unit)
    /\ \A u \in DOMAIN units : {units[u].first, units[u].last} \subseteq DOMAIN sections
    /\ at \in 0..(BodyLen + 1)
    /\ buffer \in Piece
    /\ passages \in Seq(Passage)

Init ==
    /\ body \in Bodies
    /\ phase = "scan"
    /\ line = 1
    /\ sections = <<>>
    /\ next = 1
    /\ pending = NoRun
    /\ units = <<>>
    /\ at = 0
    /\ buffer = NoPiece
    /\ passages = <<>>

-----------------------------------------------------------------------------
(* _scan_sections. *)

(* in_fence flips at every fence marker, of either kind. *)
InFence(i) ==
    Cardinality({j \in 1..(i - 1) : body[j].kind \in {"tick", "tilde"}}) % 2 = 1

Cut(i) == body[i].kind = "heading" /\ ~InFence(i)

(* The lines up to the next cut, less the blank ones at their end.  The    *)
(* last clause lets an empty body have a section.                          *)
ScanSection ==
    /\ phase = "scan"
    /\ line <= Len(body)
    /\ \E end \in line..Len(body) : \E last \in line..end :
          /\ \A i \in (line + 1)..end : ~Cut(i)
          /\ end < Len(body) => Cut(end + 1)
          /\ \A i \in (last + 1)..end : Blank(i)
          /\ Blank(last) => last = line
          /\ sections' =
                Append(sections, [first |-> line, last |-> last,
                                  path |-> IF Cut(line) THEN line ELSE NoPath])
          /\ line' = end + 1
    /\ UNCHANGED <<body, phase, next, pending, units, at, buffer, passages>>

-----------------------------------------------------------------------------
(* split_note: is the structure worth using? *)

Structured ==
    /\ \E s \in DOMAIN sections : sections[s].path # NoPath
    /\ BodyLen > TargetChars

UseSections ==
    /\ phase = "scan"
    /\ line > Len(body)
    /\ Structured
    /\ phase' = "merge"
    /\ UNCHANGED <<body, line, sections, next, pending, units, at, buffer, passages>>

(* The whole body is the only unit. *)
KeepWhole ==
    /\ phase = "scan"
    /\ line > Len(body)
    /\ ~Structured
    /\ sections' = <<[first |-> 1, last |-> Len(body), path |-> NoPath]>>
    /\ units' = <<[first |-> 1, last |-> 1, path |-> NoPath, len |-> BodyLen]>>
    /\ phase' = "pack"
    /\ UNCHANGED <<body, line, next, pending, at, buffer, passages>>

-----------------------------------------------------------------------------
(* _merge_short_sections. *)

(* Faults: the separator is not counted; a unit may not reach the target. *)
FaultFits(len, s) == len + SectionLen(s) <= TargetChars
FaultFitsBelow(len, s) == len + Gap + SectionLen(s) < TargetChars

Fits(len, s) == len + Gap + SectionLen(s) <= TargetChars

PendingUnit ==
    [first |-> pending.first, last |-> next - 1,
     path |-> sections[pending.first].path, len |-> pending.len]

(* The units once a short section has made an overfull pending run flush. *)
Flushed(s) ==
    IF Short(s) /\ pending # NoRun THEN Append(units, PendingUnit) ELSE units

Merging ==
    /\ phase = "merge"
    /\ next <= Len(sections)
    /\ next' = next + 1
    /\ UNCHANGED <<body, phase, line, sections, at, buffer, passages>>

JoinPending ==
    /\ Merging
    /\ Short(next) /\ pending # NoRun /\ Fits(pending.len, next)
    /\ pending' = [pending EXCEPT !.len = @ + Gap + SectionLen(next)]
    /\ UNCHANGED units

NotPending(s) == ~(Short(s) /\ pending # NoRun /\ Fits(pending.len, s))

Extended(unit, s) ==
    [first |-> unit.first, last |-> s, path |-> unit.path,
     len |-> unit.len + Gap + SectionLen(s)]

JoinPrevious ==
    LET base == Flushed(next)
        n == Len(base) IN
    /\ Merging
    /\ NotPending(next)
    /\ Short(next) /\ n > 0 /\ Fits(base[n].len, next)
    /\ units' = [base EXCEPT ![n] = Extended(base[n], next)]
    /\ pending' = NoRun

OpenPending ==
    /\ Merging
    /\ NotPending(next)
    /\ Short(next) /\ Flushed(next) = <<>>
    /\ pending' = [first |-> next, len |-> SectionLen(next)]
    /\ UNCHANGED units

(* Fault: the run that was waiting gives the unit its heading. *)
FaultLabel(s) ==
    IF pending = NoRun THEN sections[s].path ELSE sections[pending.first].path

Label(s) == sections[s].path

(* A long section takes the pending run with it; a short one stands alone. *)
StandAlone ==
    LET base == Flushed(next)
        n == Len(base)
        run == IF Short(next) THEN NoRun ELSE pending IN
    /\ Merging
    /\ NotPending(next)
    /\ Short(next) => n > 0 /\ ~Fits(base[n].len, next)
    /\ units' =
          Append(base,
             [first |-> IF run = NoRun THEN next ELSE run.first,
              last |-> next,
              path |-> Label(next),
              len |-> SectionLen(next) + (IF run = NoRun THEN 0 ELSE run.len + Gap)])
    /\ pending' = NoRun

(* Fault: a document that ends in a run of short sections loses them. *)
FaultEndMerge ==
    /\ phase = "merge"
    /\ next > Len(sections)
    /\ units' = units
    /\ pending' = NoRun
    /\ next' = 1
    /\ phase' = "pack"
    /\ UNCHANGED <<body, line, sections, at, buffer, passages>>

EndMerge ==
    /\ phase = "merge"
    /\ next > Len(sections)
    /\ units' = IF pending = NoRun THEN units ELSE Append(units, PendingUnit)
    /\ pending' = NoRun
    /\ next' = 1
    /\ phase' = "pack"
    /\ UNCHANGED <<body, line, sections, at, buffer, passages>>

-----------------------------------------------------------------------------
(* _pack, and the passages split_note makes of its pieces. *)

LastLine == sections[units[next].last].last

UnitChars ==
    UNION {body[sections[s].first].from..(body[sections[s].last].to - 1) :
              s \in units[next].first..units[next].last}

AsPassage(piece) ==
    [chars |-> piece.chars, len |-> piece.len, path |-> units[next].path]

PassUnit ==
    /\ phase = "pack"
    /\ next <= Len(units)
    /\ units[next].len <= MaxChars
    /\ passages' = Append(passages,
                          AsPassage([chars |-> UnitChars, len |-> units[next].len]))
    /\ next' = next + 1
    /\ UNCHANGED <<body, phase, line, sections, pending, units, at, buffer>>

OpenUnit ==
    /\ phase = "pack"
    /\ next <= Len(units)
    /\ units[next].len > MaxChars
    /\ line' = sections[units[next].first].first
    /\ at' = body[line'].from
    /\ phase' = "chunk"
    /\ UNCHANGED <<body, sections, next, pending, units, buffer, passages>>

(* A paragraph ends at a blank line, at the end of its section, where the  *)
(* merge has put two newlines, or with the unit.                           *)
Starts(i) == \E s \in DOMAIN sections : sections[s].first = i

ParagraphEnd(e) ==
    /\ e \in line..LastLine
    /\ \A i \in line..e : ~Blank(i) /\ (Starts(i) => i = line)
    /\ e < LastLine => Blank(e + 1) \/ Starts(e + 1)

SkipBlank ==
    /\ phase = "chunk"
    /\ line <= LastLine
    /\ Blank(line)
    /\ line' = line + 1
    /\ at' = body[line].to + 1
    /\ UNCHANGED <<body, phase, sections, next, pending, units, buffer, passages>>

(* Faults: the last chunk is not clipped; a long paragraph is not cut.     *)
FaultNoClip(e) == at + MaxChars
FaultNoHardSplit(e) == body[e].to

(* _hard_split: a chunk of the paragraph that ends at line e. *)
ChunkEnd(e) == IF at + MaxChars < body[e].to THEN at + MaxChars ELSE body[e].to

StartBuffer(chunk) ==
    /\ buffer = NoPiece
    /\ buffer' = chunk
    /\ UNCHANGED passages

EmitBuffer(chunk) ==
    /\ buffer # NoPiece
    /\ buffer.len + Gap + chunk.len > TargetChars
    /\ passages' = Append(passages, AsPassage(buffer))
    /\ buffer' = chunk

JoinBuffer(chunk) ==
    /\ buffer # NoPiece
    /\ buffer.len + Gap + chunk.len <= TargetChars
    /\ buffer' = [chars |-> buffer.chars \cup chunk.chars,
                  len |-> buffer.len + Gap + chunk.len]
    /\ UNCHANGED passages

PackChunk(e) ==
    LET end == ChunkEnd(e)
        chunk == [chars |-> at..(end - 1), len |-> end - at] IN
    /\ phase = "chunk"
    /\ line <= LastLine
    /\ ParagraphEnd(e)
    /\ StartBuffer(chunk) \/ EmitBuffer(chunk) \/ JoinBuffer(chunk)
    /\ IF end < body[e].to THEN line' = line /\ at' = end
                           ELSE line' = e + 1 /\ at' = body[e].to + 1
    /\ UNCHANGED <<body, phase, sections, next, pending, units>>

CloseUnit ==
    /\ phase = "chunk"
    /\ line > LastLine
    /\ passages' = Append(passages, AsPassage(buffer))
    /\ buffer' = NoPiece
    /\ next' = next + 1
    /\ phase' = "pack"
    /\ UNCHANGED <<body, line, sections, pending, units, at>>

EndPack ==
    /\ phase = "pack"
    /\ next > Len(units)
    /\ phase' = "done"
    /\ UNCHANGED <<body, line, sections, next, pending, units, at, buffer, passages>>

Done == phase = "done" /\ UNCHANGED vars

Next ==
    \/ ScanSection \/ UseSections \/ KeepWhole
    \/ JoinPending \/ JoinPrevious \/ OpenPending \/ StandAlone \/ EndMerge
    \/ PassUnit \/ OpenUnit \/ SkipBlank \/ CloseUnit \/ EndPack
    \/ \E e \in DOMAIN body : PackChunk(e)
    \/ Done

Spec == Init /\ [][Next]_vars

-----------------------------------------------------------------------------
(* Properties. *)

(* "No passage exceeds MAX_CHARS" (split_note): not one that is a unit as  *)
(* the merge left it, not one packed from paragraphs, not one cut.         *)
PassagesWithinCap == \A p \in DOMAIN passages : passages[p].len <= MaxChars

(* "Every character of body appears in exactly one passage, whitespace at  *)
(* the joins aside" (split_note), and in the order of the body, whatever   *)
(* the merge held back and the packing cut.                                *)
NothingLost ==
    /\ \A q \in DOMAIN passages : \A p \in 1..(q - 1) :
          \A c \in passages[p].chars, d \in passages[q].chars : c < d
    /\ phase = "done" =>
          \A i \in DOMAIN body : \A c \in body[i].from..(body[i].to - 1) :
             \E p \in DOMAIN passages : c \in passages[p].chars

Longs(u) == {s \in units[u].first..units[u].last : ~Short(s)}

(* Folding short sections never makes a unit of more than TARGET_CHARS out *)
(* of short sections alone: only a section that is long itself, with the   *)
(* run that waited for it, exceeds it (_merge_short_sections).             *)
ShortRunsWithinTarget ==
    \A u \in DOMAIN units :
       Longs(u) = {} => units[u].len <= TargetChars

(* The other direction: past the first unit, a short section opens a unit  *)
(* of its own only where the unit before it has no room for it, as that    *)
(* unit is in the end and not as it was when the section was looked at.    *)
ShortSectionsMerge ==
    \A u \in DOMAIN units \ {1} :
       Short(units[u].first)
          => units[u - 1].len + Gap + SectionLen(units[u].first) > TargetChars

(* A unit's heading path is that of the one long section in it, whatever   *)
(* short sections were folded into it from either side, and of its first   *)
(* section when all are short.                                             *)
LabelledByItsLongSection ==
    phase \in {"merge", "pack", "chunk"} =>
       \A u \in DOMAIN units :
          \/ \E s \in DOMAIN sections :
                Longs(u) = {s} /\ units[u].path = sections[s].path
          \/ Longs(u) = {} /\ units[u].path = sections[units[u].first].path

(* The fence that is open after line i when a fence closes only with the   *)
(* marker that opened it.                                                  *)
FenceAfter[i \in 0..Len(body)] ==
    IF i = 0 THEN "none"
    ELSE LET open == FenceAfter[i - 1] IN
         IF body[i].kind \notin {"tick", "tilde"} THEN open
         ELSE IF open = "none" THEN body[i].kind
         ELSE IF open = body[i].kind THEN "none" ELSE open

(* _scan_sections: "Cut the body at ##/### headings that are outside       *)
(* fenced code."  Does not hold: a marker of the other kind inside a fence *)
(* flips in_fence, and a heading in the rest of the code cuts it in two.   *)
CutsOutsideFences ==
    \A s \in DOMAIN sections :
       sections[s].path # NoPath => FenceAfter[sections[s].first - 1] = "none"
=============================================================================
