---------------------------- MODULE MCSplitter ----------------------------
(***************************************************************************)
(* Splitter on every small body of scaled-down lines.  With TARGET 14, MAX *)
(* 20 and MIN 6 a heading is a short section, two of them fit into one     *)
(* unit and three do not, a heading with a line of text is long, and the   *)
(* longest line has to be cut in two.                                      *)
(***************************************************************************)
EXTENDS Splitter

CONSTANTS AnyLines, PlainLines, FencedLines    \* bounds on a body's length

Shape(k, n) == [kind |-> k, len |-> n]

Plain == {Shape("heading", 4), Shape("text", 2), Shape("text", 11), Shape("blank", 0)}
Fenced == {Shape("heading", 4), Shape("text", 11), Shape("tick", 3), Shape("tilde", 3)}
AllShapes == Plain \cup Fenced \cup {Shape("text", 30)}

Extend(b, s) ==
    LET n == IF b = <<>> THEN 0 ELSE b[Len(b)].to + 1 IN
    Append(b, [kind |-> s.kind, from |-> n, to |-> n + s.len])

(* The texts of n lines, one after the other. *)
Texts(shapes, max) ==
    LET Of[n \in 0..max] ==
          IF n = 0 THEN {<<>>} ELSE {Extend(b, s) : b \in Of[n - 1], s \in shapes}
    IN UNION {Of[n] : n \in 1..max}

MCBodies ==
    {b \in Texts(AllShapes, AnyLines) \cup Texts(Plain, PlainLines)
              \cup Texts(Fenced, FencedLines) :
        Len(b) > 1 => b[1].kind # "blank" /\ b[Len(b)].kind # "blank"}
=============================================================================
