---------------------------- MODULE MCNoteIngest ----------------------------
(***************************************************************************)
(* Small instances of NoteIngest: two clients that use the same path, one  *)
(* document that splits into two passages and one that splits into one,    *)
(* two pipeline versions (a rolling deploy).                               *)
(***************************************************************************)
EXTENDS NoteIngest, TLC

CONSTANTS c1, c2, p1, d1, d2, v1, v2, s1, s2, w1, w2, w3

MCSplitLen == [x \in Docs \X Versions |-> IF x[1] = d1 THEN 2 ELSE 1]

Ingest(c, d, v, force, valid) ==
    [kind |-> "ingest", client |-> c, path |-> p1, doc |-> d, version |-> v,
     status |-> s1, force |-> force, valid |-> valid]

MCIngests ==
    {Ingest(c1, d1, v1, FALSE, TRUE), Ingest(c1, d2, v1, FALSE, TRUE),
     Ingest(c1, d1, v2, FALSE, TRUE), Ingest(c1, d1, v1, TRUE, TRUE),
     Ingest(c2, d1, v1, FALSE, TRUE)}

(* The same content with another status. *)
WithStatus(r, s) == [r EXCEPT !.status = s]

Get(c, i) == [kind |-> "get", client |-> c, id |-> i]
Delete(c, i) == [kind |-> "delete", client |-> c, id |-> i]

MCLookups ==
    {Get(c1, 1), Get(c2, 1), Delete(c1, 1), Delete(c1, 2), Delete(c2, 1)}

FewIngests ==
    {Ingest(c1, d1, v1, FALSE, TRUE), Ingest(c1, d2, v1, FALSE, TRUE)}

(* One of them is refused by the validators. *)
SomeIngests == FewIngests \union {Ingest(c1, d1, v1, FALSE, FALSE)}

FewLookups == {Get(c1, 1), Delete(c1, 1)}

Relabelled ==
    {Ingest(c1, d1, v1, FALSE, TRUE),
     WithStatus(Ingest(c1, d1, v1, FALSE, TRUE), s2)}

Symmetric == Permutations(Workers)
=============================================================================
