-------------------------- MODULE TopologyWatcher --------------------------
(***************************************************************************)
(* What the topology watcher promises (spec.md 4.1, 5): the snapshot       *)
(* readers get is always a placement that passed validation, it is the     *)
(* store's placement of some moment, it follows the store's latest valid   *)
(* placement, an invalid one leaves the previous snapshot in place, and    *)
(* after close() nothing is published.  Before the first snapshot is      *)
(* published (the initial load) there is none.                             *)
(***************************************************************************)
EXTENDS TopologyValidation

CONSTANTS
  Services,    \* every placement the store may hold
  NoSnapshot   \* nothing published yet

VARIABLES
  store,     \* the placement in the placement store
  snapshot,  \* the published snapshot
  closed     \* close() was called

wvars == <<store, snapshot, closed>>

WInit ==
  /\ store \in Services
  /\ snapshot \in {NoSnapshot} \cup {v \in {store} : IsValidUpdate(v)}
  /\ closed = FALSE

StoreChange ==
  /\ store' \in Services
  /\ UNCHANGED <<snapshot, closed>>

Publish ==
  /\ ~closed /\ IsValidUpdate(store)
  /\ snapshot' = store
  /\ UNCHANGED <<store, closed>>

CloseWatcher ==
  /\ closed' = TRUE
  /\ UNCHANGED <<store, snapshot>>

WNext == StoreChange \/ Publish \/ CloseWatcher

(* Once a snapshot exists, a valid placement that stays in the store is    *)
(* eventually published.  The initial load is not promised here.           *)
Update == snapshot # NoSnapshot /\ Publish

WSpec == WInit /\ [][WNext]_wvars /\ WF_wvars(Update)
=============================================================================
