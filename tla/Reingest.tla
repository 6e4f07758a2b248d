------------------------------ MODULE Reingest ------------------------------
(***************************************************************************)
(* src/scripts/reingest.py against the note store: the script walks a tree *)
(* that may change under it, posts every file that is not excluded, tries  *)
(* once more after a 503, and reports.  The server is the atomic store     *)
(* that NoteIngest implements; a request whose sender has given up may     *)
(* still be served later.                                                  *)
(*                                                                         *)
(* A file is the sequence of the components of its path, a glob a sequence *)
(* of names, "*" and "**".  The order of the files, which sorted() fixes,  *)
(* is an arbitrary one.                                                    *)
(***************************************************************************)
EXTENDS NoteStore, Integers, Sequences

CONSTANTS
    Me,          \* the client of the API key
    Trees,       \* the trees the script may find
    Plans,       \* the arguments of each run, run by run
    Headers,     \* the Retry-After headers of a 503
    Edits,       \* what may happen to the tree: pairs of a file and a content
    MaxEdits,
    Absent, Unreadable, Nothing

ASSUME ReingestAssumption ==
    /\ Me \in Clients
    /\ Absent \notin Docs /\ Unreadable \notin Docs
    /\ Nothing \notin Docs /\ Nothing \notin Nat
    /\ Paths \subseteq Seq(STRING) \ {<<>>} /\ IsFiniteSet(Paths)
    /\ \A h \in Headers : h.seconds \in Int
    /\ Edits \subseteq Paths \X (Docs \union {Absent, Unreadable})
    /\ \A t \in Trees : t \in [Paths -> Docs \union {Absent, Unreadable}]
    /\ \A plan \in Plans : \A r \in DOMAIN plan :
          /\ plan[r].force \in BOOLEAN /\ plan[r].no_default_excludes \in BOOLEAN
          /\ plan[r].dry_run \in BOOLEAN /\ plan[r].exclude \subseteq Seq(STRING)
          /\ plan[r].api_key \in BOOLEAN   \* is there one

VARIABLES
    disk, edits,   \* the tree, and how often it has been edited
    runs, run,     \* the runs planned, and which one this is
    pc,
    considered, selected, todo,
    call,          \* the request the script waits for
    counts, exit,  \* the summary line and the exit code
    adrift,        \* requests whose sender has given up, not yet served
    told,          \* the content last reported as stored, for each file
    failed,        \* the requests reported as FAILED
    slept          \* seconds slept in this run

clientVars ==
    <<runs, run, pc, considered, selected, todo, call, counts, exit, told,
      failed, slept>>

vars == <<storeVars, clientVars, disk, edits, adrift>>

args == runs[run]

ExitOk == 0
ExitFailed == 1
ExitUsage == 2
MaxRetryAfter == 60

NoCounts == [ingested |-> 0, skipped |-> 0, failed |-> 0]

Init ==
    /\ StoreInit
    /\ disk \in Trees /\ edits = 0
    /\ runs \in Plans /\ run = 1
    /\ pc = "walk"
    /\ considered = {} /\ selected = {} /\ todo = {}
    /\ call = Nothing
    /\ counts = NoCounts /\ exit = Nothing
    /\ adrift = {}
    /\ told = [p \in Paths |-> Nothing]
    /\ failed = {}
    /\ slept = 0

-----------------------------------------------------------------------------
(* Which files *)

DefaultExcludes == {<<"**", "MEMORY.md">>, <<"**", "learning-log.md">>}

Excludes ==
    IF args.no_default_excludes THEN args.exclude
    ELSE DefaultExcludes \union args.exclude

(* PurePath.match: from the right, one component for each of the glob's;   *)
(* "**" is a "*".                                                          *)
PathMatch(path, glob) ==
    /\ Len(glob) <= Len(path)
    /\ \A i \in 1..Len(glob) :
          glob[i] \in {"*", "**", path[Len(path) - Len(glob) + i]}

(* Fault: Path.match alone. *)
FaultMatch(path, glob) == PathMatch(path, glob)

(* Leading "**" are stripped, one after the other. *)
Match(path, glob) ==
    \E n \in 0..(Len(glob) - 1) :
        /\ \A i \in 1..n : glob[i] = "**"
        /\ PathMatch(path, SubSeq(glob, n + 1, Len(glob)))

Walked == {p \in Paths : disk[p] # Absent}

Exit(code) ==
    /\ exit' = code
    /\ pc' = "exited"

(* main: sorted(root.rglob) *)
Walk ==
    /\ pc = "walk"
    /\ considered' = Walked
    /\ pc' = "select"
    /\ UNCHANGED <<storeVars, disk, edits, adrift, runs, run, selected, todo,
                   call, counts, exit, told, failed, slept>>

(* select_files walks the tree a second time.  A dry run needs no key.     *)
Select ==
    /\ pc = "select"
    /\ selected' = {p \in Walked : \A g \in Excludes : ~Match(p, g)}
    /\ todo' = selected'
    /\ \/ args.dry_run /\ Exit(ExitOk)
       \/ ~args.dry_run /\ ~args.api_key /\ Exit(ExitUsage)
       \/ ~args.dry_run /\ args.api_key /\ pc' = "next" /\ UNCHANGED exit
    /\ UNCHANGED <<storeVars, disk, edits, adrift, runs, run, considered, call,
                   counts, told, failed, slept>>

(* An unusable --root or --url, or an OSError in either walk. *)
WalkFails ==
    /\ pc \in {"walk", "select"}
    /\ Exit(ExitUsage)
    /\ UNCHANGED <<storeVars, disk, edits, adrift, runs, run, considered,
                   selected, todo, call, counts, told, failed, slept>>

-----------------------------------------------------------------------------
(* One file *)

Request(p) == [path |-> p, doc |-> disk[p], force |-> args.force, run |-> run]

Sent(q, attempt) == [request |-> q, attempt |-> attempt, answer |-> Nothing]

Tally(field) == counts' = [counts EXCEPT ![field] = @ + 1]

(* Fault: what cannot be read is sent all the same. *)
FaultReadable(p) == TRUE

Readable(p) == disk[p] \notin {Absent, Unreadable}

ReadNext ==
    /\ pc = "next" /\ todo # {}
    /\ LET p == CHOOSE x \in todo : TRUE IN
       /\ todo' = todo \ {p}
       /\ IF Readable(p)
          THEN call' = Sent(Request(p), 1) /\ pc' = "wait" /\ UNCHANGED counts
          ELSE Tally("failed") /\ UNCHANGED <<call, pc>>
    /\ UNCHANGED <<storeVars, disk, edits, adrift, runs, run, considered,
                   selected, exit, told, failed, slept>>

(* Fault: the delay the server names is slept whatever it is. *)
FaultDelay(h) == IF h.kind = "number" THEN h.seconds ELSE 5

Delay(h) ==
    LET delay == IF h.kind = "number" /\ h.seconds >= 0 THEN h.seconds ELSE 5
    IN IF delay > MaxRetryAfter THEN MaxRetryAfter ELSE delay

Waiting == pc = "wait" /\ call.answer # Nothing

(* Fault: what the second attempt answers is not looked at. *)
FaultSucceeded == call.answer.status = 200 \/ call.attempt = 2

Succeeded == call.answer.status = 200

Retries == call.answer.status = 503 /\ call.attempt = 1

RetryAfter503 ==
    /\ Waiting /\ Retries
    /\ slept' = slept + Delay(call.answer.header)
    /\ call' = Sent(call.request, 2)
    /\ UNCHANGED <<storeVars, disk, edits, adrift, runs, run, pc, considered,
                   selected, todo, counts, exit, told, failed>>

NextFile == call' = Nothing /\ pc' = "next"

ReportStored ==
    /\ Waiting /\ Succeeded
    /\ Tally(IF call.answer.skipped THEN "skipped" ELSE "ingested")
    /\ told' = [told EXCEPT ![call.request.path] = call.request.doc]
    /\ NextFile
    /\ UNCHANGED <<storeVars, disk, edits, adrift, runs, run, considered,
                   selected, todo, exit, failed, slept>>

ReportFailed ==
    /\ Waiting /\ ~Succeeded /\ ~Retries
    /\ Tally("failed")
    /\ failed' = failed \union {call.request}
    /\ NextFile
    /\ UNCHANGED <<storeVars, disk, edits, adrift, runs, run, considered,
                   selected, todo, exit, told, slept>>

(* Fault: a transport error is printed and not counted. *)
FaultUncounted ==
    /\ pc = "wait"
    /\ failed' = failed \union {call.request}
    /\ adrift' = IF call.answer = Nothing THEN adrift \union {call.request} ELSE adrift
    /\ NextFile
    /\ UNCHANGED <<storeVars, disk, edits, runs, run, considered, selected,
                   todo, counts, exit, told, slept>>

(* Fault: no timeout; the script waits for an answer. *)
FaultNoTimeout ==
    /\ pc = "wait" /\ call.answer # Nothing
    /\ Tally("failed")
    /\ failed' = failed \union {call.request}
    /\ NextFile
    /\ UNCHANGED <<storeVars, disk, edits, adrift, runs, run, considered,
                   selected, todo, exit, told, slept>>

(* httpx.HTTPError: a timeout, or a connection refused or lost.  What the  *)
(* server makes of the request is not known.  The timeout is one of silence*)
(* on the connection, not of the whole request: that a server sends its    *)
(* answer byte by byte for ever is left out.                               *)
TransportError ==
    /\ pc = "wait"
    /\ Tally("failed")
    /\ failed' = failed \union {call.request}
    /\ adrift' = IF call.answer = Nothing THEN adrift \union {call.request} ELSE adrift
    /\ NextFile
    /\ UNCHANGED <<storeVars, disk, edits, runs, run, considered, selected,
                   todo, exit, told, slept>>

Summarise ==
    /\ pc = "next" /\ todo = {}
    /\ Exit(IF counts.failed > 0 THEN ExitFailed ELSE ExitOk)
    /\ UNCHANGED <<storeVars, disk, edits, adrift, runs, run, considered,
                   selected, todo, call, counts, told, failed, slept>>

-----------------------------------------------------------------------------
(* The server *)

Stored(p) == store[<<Me, p>>]

AlreadyStored(q, v) ==
    /\ Stored(q.path) # NoNote
    /\ Stored(q.path).doc = q.doc /\ Stored(q.path).version = v

(* The script sends neither status nor meta; what they become does not matter here. *)
Put(q, v) ==
    \E s \in Statuses :
        Create(<<Me, q.path>>, q.doc, v, s) \/ Rewrite(<<Me, q.path>>, q.doc, v, s)

Answered(status, skipped, header) ==
    call' = [call EXCEPT !.answer =
                [status |-> status, skipped |-> skipped, header |-> header]]

NoHeader == [kind |-> "absent", seconds |-> 0]

(* An ingest commits and answers, or loses its connection at the commit    *)
(* and answers 503 all the same.                                           *)
ServeCall ==
    /\ pc = "wait" /\ call.answer = Nothing
    /\ \E v \in Versions :
          \/ /\ AlreadyStored(call.request, v) /\ ~call.request.force
             /\ Answered(200, TRUE, NoHeader)
             /\ UNCHANGED storeVars
          \/ /\ ~AlreadyStored(call.request, v) \/ call.request.force
             /\ Put(call.request, v)
             /\ \/ Answered(200, FALSE, NoHeader)
                \/ \E h \in Headers : Answered(503, FALSE, h)
    /\ UNCHANGED <<disk, edits, adrift, runs, run, pc, considered, selected,
                   todo, counts, exit, told, failed, slept>>

(* Any failure before the commit: 503, or another status that is final. *)
RefuseCall ==
    /\ pc = "wait" /\ call.answer = Nothing
    /\ \/ \E h \in Headers : Answered(503, FALSE, h)
       \/ Answered(500, FALSE, NoHeader)
    /\ UNCHANGED <<storeVars, disk, edits, adrift, runs, run, pc, considered,
                   selected, todo, counts, exit, told, failed, slept>>

ServeAdrift(q) ==
    /\ adrift' = adrift \ {q}
    /\ \E v \in Versions :
          \/ AlreadyStored(q, v) /\ ~q.force /\ UNCHANGED storeVars
          \/ (~AlreadyStored(q, v) \/ q.force) /\ Put(q, v)
    /\ UNCHANGED <<clientVars, disk, edits>>

LoseAdrift(q) ==
    /\ adrift' = adrift \ {q}
    /\ UNCHANGED <<storeVars, clientVars, disk, edits>>

-----------------------------------------------------------------------------
(* The tree's owner and the operator *)

Edit ==
    /\ edits < MaxEdits
    /\ \E e \in Edits : disk' = [disk EXCEPT ![e[1]] = e[2]]
    /\ edits' = edits + 1
    /\ UNCHANGED <<storeVars, clientVars, adrift>>

RunAgain ==
    /\ pc = "exited" /\ run < Len(runs)
    /\ run' = run + 1
    /\ pc' = "walk"
    /\ counts' = NoCounts /\ exit' = Nothing /\ slept' = 0
    /\ considered' = {} /\ selected' = {} /\ todo' = {}
    /\ UNCHANGED <<storeVars, disk, edits, adrift, runs, call, told, failed>>

Script ==
    \/ Walk \/ Select \/ WalkFails \/ ReadNext \/ RetryAfter503
    \/ ReportStored \/ ReportFailed \/ TransportError \/ Summarise

Next ==
    \/ Script \/ ServeCall \/ RefuseCall \/ Edit \/ RunAgain
    \/ \E q \in adrift : ServeAdrift(q) \/ LoseAdrift(q)

Spec == Init /\ [][Next]_vars /\ WF_vars(Script)

-----------------------------------------------------------------------------
TypeOK ==
    /\ counts \in [{"ingested", "skipped", "failed"} -> Nat]
    /\ todo \subseteq selected /\ selected \subseteq Paths
    /\ told \in [Paths -> Docs \union {Nothing}]
    /\ adrift \subseteq failed
    /\ pc = "wait" => call.request.doc \in Docs /\ call.request.path \in selected \ todo

(* The request in progress for a file. *)
InProgress(p, d) ==
    pc = "wait" /\ call.request.path = p /\ call.request.doc = d

(* What a run reports as stored is stored; and where another content has   *)
(* taken its place, it is one the script sends right now or one it has     *)
(* reported as FAILED, however late the server gets to it                  *)
(* (reingest.py:162-203, 264-285).                                         *)
ReportedIsStored ==
    \A p \in Paths :
        told[p] # Nothing =>
            /\ Stored(p) # NoNote
            /\ \/ Stored(p).doc = told[p]
               \/ InProgress(p, Stored(p).doc)
               \/ \E q \in failed : q.path = p /\ q.doc = Stored(p).doc

(* The summary counts every selected file exactly once; and the exit code  *)
(* 0 of a run that posted says that every one of them was reported as      *)
(* stored (reingest.py:15-16, 287-295).                                    *)
SummaryIsComplete ==
    /\ pc \in {"next", "wait", "exited"} /\ ~args.dry_run /\ exit # ExitUsage =>
          counts.ingested + counts.skipped + counts.failed
             + Cardinality(todo) + (IF pc = "wait" THEN 1 ELSE 0)
          = Cardinality(selected)
    /\ exit = ExitOk /\ ~args.dry_run =>
          \A p \in selected : told[p] # Nothing
    /\ exit = ExitOk => \A q \in failed : q.run # run

(* A glob of the form of the defaults, any directories and then a name,    *)
(* keeps a file of that name out at every depth, also at the top; no run   *)
(* that keeps the defaults brings theirs into the store                    *)
(* (reingest.py:32-39, 64-81).                                             *)
ExcludedStayOut ==
    /\ \A p \in selected, name \in {p[Len(p)] : p \in selected} :
          <<"**", name>> \in Excludes => p[Len(p)] # name
    /\ run = 1 /\ ~args.no_default_excludes =>
          \A p \in Paths :
             p[Len(p)] \in {"MEMORY.md", "learning-log.md"} =>
                Stored(p) = NoNote

(* A run sleeps at most once for each file it has sent, and never longer   *)
(* than the cap; no answer of the server makes it wait for ever.           *)
PatienceIsBounded ==
    /\ slept \in 0..(MaxRetryAfter * Cardinality(selected \ todo))
    /\ pc = "wait" => call.attempt <= 2

(* Every run ends, whatever the server does, also if it never answers: the *)
(* script's own timeout bounds every silence, and nothing is sent more     *)
(* than twice (reingest.py:179-195, 268-275).                              *)
EveryRunEnds == pc = "walk" ~> pc = "exited"
=============================================================================
