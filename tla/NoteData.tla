------------------------------ MODULE NoteData ------------------------------
(***************************************************************************)
(* The data of the note store: the two tables notes and passages of        *)
(* src/app/models, reduced to the columns the properties tell apart.       *)
(*                                                                         *)
(* A note's identity is (client_name, scope, path_or_uri); scope and       *)
(* path_or_uri always travel together, so one element of Paths stands for  *)
(* the pair.  A document stands for the submitted content: content_hash is *)
(* taken to be injective on it, and the columns split_note derives from it *)
(* (name, description, body, ...) are functions of it.  A status stands    *)
(* for the request's status and meta.                                      *)
(***************************************************************************)
EXTENDS Naturals, FiniteSets

CONSTANTS
    Clients,   \* client_name of the API keys
    Paths,     \* (scope, path_or_uri) pairs
    Docs,      \* submitted contents
    Versions,  \* pipeline_version() of the replicas that may be running
    Statuses,  \* the (status, meta) pairs of the requests
    SplitLen,  \* how many passages a document has under a pipeline version
    MaxId,     \* largest value of the int4 sequence behind notes.id
    NoNote     \* no such row

Keys == Clients \X Paths

Ids == 1..MaxId

NoteRow == [id: Ids, doc: Docs, version: Versions, status: Statuses]

PassageRow ==
    [note: Ids, client: Clients, doc: Docs, version: Versions, ordinal: Nat]

(* A note together with its passages, as NoteStore keeps it. *)
WholeNote ==
    [id: Ids, doc: Docs, version: Versions, status: Statuses,
     passages: SUBSET PassageRow]

(***************************************************************************)
(* The passages the pipeline of version v makes of document d for note i   *)
(* of client c: ordinals are contiguous from 0.                            *)
(***************************************************************************)
PassagesOf(i, c, d, v) ==
    [note: {i}, client: {c}, doc: {d}, version: {v},
     ordinal: 0..(SplitLen[<<d, v>>] - 1)]

ASSUME DataAssumption ==
    /\ SplitLen \in [Docs \X Versions -> Nat \ {0}]
    /\ MaxId \in Nat
    /\ NoNote \notin NoteRow \union WholeNote
=============================================================================
