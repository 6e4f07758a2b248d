----------------------------- MODULE MCReingest -----------------------------
(***************************************************************************)
(* Two runs over a tree of two notes and the files the defaults exclude,   *)
(* at the top and below.                                                   *)
(***************************************************************************)
EXTENDS Reingest, TLC

CONSTANTS d1, d2, v1, s1, me

MCPaths ==
    {<<"a.md">>, <<"MEMORY.md">>, <<"sub", "b.md">>, <<"sub", "learning-log.md">>}

MCSplitLen == [dv \in Docs \X Versions |-> 1]

A == <<"a.md">>
B == <<"sub", "b.md">>

MCTrees ==
    {(A :> d1 @@ <<"MEMORY.md">> :> d1 @@ B :> b
      @@ <<"sub", "learning-log.md">> :> d1) : b \in {d1, Unreadable}}

MCEdits == {<<A, d2>>, <<A, Absent>>, <<B, d2>>}

Plain ==
    [exclude |-> {}, no_default_excludes |-> FALSE, force |-> FALSE,
     dry_run |-> FALSE, api_key |-> TRUE]

Force == [Plain EXCEPT !.force = TRUE]
Dry == [Plain EXCEPT !.exclude = {<<"**", "*", "b.md">>}, !.dry_run = TRUE,
                     !.api_key = FALSE]
Lift == [Plain EXCEPT !.exclude = {<<"sub", "*">>}, !.no_default_excludes = TRUE]
Keyless == [Plain EXCEPT !.api_key = FALSE]

MCPlans ==
    {<<Plain, Plain>>, <<Plain, Force>>, <<Dry>>, <<Lift>>, <<Keyless, Plain>>}

(* None, one above the cap, a negative one, and one that is no number. *)
MCHeaders ==
    {[kind |-> "absent", seconds |-> 0], [kind |-> "number", seconds |-> 3600],
     [kind |-> "number", seconds |-> -1], [kind |-> "garbage", seconds |-> 0]}
=============================================================================
