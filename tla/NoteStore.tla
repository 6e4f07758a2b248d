----------------------------- MODULE NoteStore ------------------------------
(***************************************************************************)
(* What the note API promises, with every write atomic: a note is present  *)
(* with exactly the passages its own content splits into, or it is absent  *)
(* without a trace.  A write keeps the id of the note it replaces, a new   *)
(* note takes an id no live and no erased note ever had, and a removal is  *)
(* for good.  Nothing else changes the store.                              *)
(*                                                                         *)
(* This is the specification NoteIngest implements: there the row and the  *)
(* passages are separate tables, written by separate statements of         *)
(* requests that run concurrently, fail and lose their connection.         *)
(***************************************************************************)
EXTENDS NoteData

VARIABLES
    store,    \* Keys -> NoNote or a note with its passages
    erased    \* ids of the notes that were removed

storeVars == <<store, erased>>

LiveIds == {store[k].id : k \in {j \in Keys : store[j] # NoNote}}

Whole(i, k, d, v, s) ==
    [id |-> i, doc |-> d, version |-> v, status |-> s,
     passages |-> PassagesOf(i, k[1], d, v)]

StoreInit ==
    /\ store = [k \in Keys |-> NoNote]
    /\ erased = {}

Create(k, d, v, s) ==
    /\ store[k] = NoNote
    /\ \E i \in Ids \ (LiveIds \union erased) :
          store' = [store EXCEPT ![k] = Whole(i, k, d, v, s)]
    /\ UNCHANGED erased

Rewrite(k, d, v, s) ==
    /\ store[k] # NoNote
    /\ store' = [store EXCEPT ![k] = Whole(store[k].id, k, d, v, s)]
    /\ UNCHANGED erased

Remove(k) ==
    /\ store[k] # NoNote
    /\ store' = [store EXCEPT ![k] = NoNote]
    /\ erased' = erased \union {store[k].id}

StoreNext ==
    \E k \in Keys :
       \/ Remove(k)
       \/ \E d \in Docs, v \in Versions, s \in Statuses :
             Create(k, d, v, s) \/ Rewrite(k, d, v, s)

StoreSpec == StoreInit /\ [][StoreNext]_storeVars
=============================================================================
