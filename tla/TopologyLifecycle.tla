------------------------- MODULE TopologyLifecycle -------------------------
(***************************************************************************)
(* The broker's topology from the first call of dynamicInitializer.Init to *)
(* the end of the run() goroutine, src/cluster/topology/dynamic.go.        *)
(*                                                                         *)
(* DynamicInitializer models the callers of Init; DynamicTopology models   *)
(* the topology that newDynamicTopology creates.  They share the store     *)
(* and the bound on its changes.  Every watch an Init opens is notified   *)
(* of store changes; the watch of the Init that succeeds becomes the       *)
(* topology's, with whatever notification it still holds.  A failed        *)
(* Init's watch is never read again.                                       *)
(***************************************************************************)
EXTENDS Naturals, TopologyValidation

CONSTANTS Callers, Closers, Services, Unset, NoOwner, NoTopo, Err, MaxUpdates

VARIABLES
  store, lock, pc, topo, created, holds, watches, result, updates,
  pending, notify, wopen, published, wclosed, closed, runpc, tlock, clpc

ivars == <<lock, pc, topo, created, holds, watches, result>>
tvars == <<wopen, published, wclosed, closed, runpc, tlock, clpc>>
vars == <<store, updates, pending, notify, ivars, tvars>>

DI == INSTANCE DynamicInitializer
DT == INSTANCE DynamicTopology WITH upstream <- store

-----------------------------------------------------------------------------
(* No topology: its watch is not open and run() not started.               *)
Init ==
  /\ DI!Init
  /\ pending = [c \in Callers |-> FALSE]
  /\ notify = FALSE
  /\ wopen = FALSE
  /\ published = NilService
  /\ wclosed = FALSE
  /\ closed = FALSE
  /\ runpc = "none"
  /\ tlock = NoOwner
  /\ clpc = [g \in DT!Goroutines |-> "idle"]

(* The placement in the store changes: the watches held by callers of     *)
(* Init and, once created, the topology's open watch are notified.         *)
StoreChange(s) ==
  /\ pending' = [c \in Callers |-> c \in holds \/ pending[c]]
  /\ \/ /\ created = 0
        /\ DI!SetPlacement(s)
        /\ UNCHANGED <<notify, tvars>>
     \/ /\ created >= 1
        /\ DT!UpstreamUpdate(s)
        /\ UNCHANGED ivars

(* services.Watch: a new watch holds a notification if a value is stored.  *)
OpenWatch(c) ==
  /\ DI!OpenWatch(c)
  /\ pending' = IF c \in holds' THEN [pending EXCEPT ![c] = store # Unset]
                 ELSE pending
  /\ UNCHANGED <<notify, tvars>>

(* `<-watch.C()` consumes the notification.                                *)
WaitFirst(c) ==
  /\ DI!WaitFirst(c)
  /\ pending' = [pending EXCEPT ![c] = FALSE]
  /\ UNCHANGED <<notify, tvars>>

(* On success newDynamicTopology builds the Watchable from the value it    *)
(* read and starts `go dt.run()` with the watch it opened.                 *)
GetFirst(c) ==
  /\ DI!GetFirst(c)
  /\ IF created' > created
       THEN /\ published' = store
            /\ notify' = pending[c]
            /\ wopen' = TRUE
            /\ runpc' = "check"
            /\ UNCHANGED <<wclosed, closed, tlock, clpc>>
       ELSE UNCHANGED <<notify, tvars>>
  /\ UNCHANGED pending

(* A caller step that touches neither the watch nor the topology.          *)
CallerStep(c) ==
  /\ DI!Lock(c) \/ DI!Cached(c) \/ DI!GetServices(c)
  /\ UNCHANGED <<pending, notify, tvars>>

(* A step of the topology, once it exists, or of its environment.          *)
TopologyStep(A) == created >= 1 /\ A /\ UNCHANGED <<pending, ivars>>

Next ==
  \/ \E s \in Services : StoreChange(s)
  \/ \E c \in Callers : CallerStep(c) \/ OpenWatch(c) \/ WaitFirst(c) \/ GetFirst(c)
  \/ TopologyStep(DT!WatchEnded)
  \/ TopologyStep(\E x \in Instances, ids \in SUBSET ShardIDs :
                    DT!MarkShardsAvailable(x, ids))
  \/ \E g \in DT!Goroutines : TopologyStep(DT!CallClose(g) \/ DT!CloseStep(g))
  \/ TopologyStep(DT!RunCheck \/ DT!RunReceive \/ DT!RunGet)

(* The fairness of both components: the mutexes are strongly fair, every   *)
(* other step of a caller of Init, of run() and of a Close() in progress   *)
(* weakly fair; the store, the config service and whether Close() is      *)
(* called owe nothing.                                                     *)
Fairness ==
  /\ \A c \in Callers :
       /\ SF_vars(CallerStep(c) /\ pc[c] = "lock")
       /\ WF_vars(CallerStep(c) /\ pc[c] # "lock")
       /\ WF_vars(OpenWatch(c) \/ WaitFirst(c) \/ GetFirst(c))
  /\ WF_vars(TopologyStep(DT!RunCheck))
  /\ WF_vars(TopologyStep(DT!RunReceive))
  /\ WF_vars(TopologyStep(DT!RunGet))
  /\ \A g \in DT!Goroutines :
       /\ SF_vars(TopologyStep(DT!CloseLock(g)))
       /\ WF_vars(TopologyStep(DT!CloseWatch(g) \/ DT!CloseWatchable(g)))

Spec == Init /\ [][Next]_vars /\ Fairness

-----------------------------------------------------------------------------
(* However the callers of Init interleave with the store and the topology, *)
(* at most one dynamicTopology (one run() goroutine) is created, and every *)
(* caller that got a topology got that one.                                *)
OneTopology == DI!OneTopology

(* Once a placement is stored, every call of Init returns.                 *)
InitCompletes == DI!InitCompletes

(* Whenever run() is idle and the topology open, the published Map is the *)
(* store's current placement if that one is valid, including a placement  *)
(* stored between the first notification and the first Get().            *)
IdleIsCurrent == DT!IdleIsCurrent

(* After Close(), from any caller, the run() goroutine eventually exits.   *)
RunExitsAfterClose == DT!RunExitsAfterClose

(* Once a Close() call has returned, even one that found the topology      *)
(* already closing, the Map Get() returns never changes again.             *)
CloseIsFinal == DT!CloseIsFinal

(* When the config service closes the topology's watch, the topology       *)
(* eventually closes itself.                                               *)
WatchEndClosesTopology == [](created >= 1 /\ ~wopen => <>closed)

(* Get(): the Map the Watchable holds, once Init has returned a topology. *)
Get == IF created = 0 THEN NoTopo ELSE published

(* Refinement mapping onto TopologyWatcher: an unset key reads as a nil    *)
(* service; the snapshot is what Get() returns; the watcher is closed when *)
(* the Watchable is, the last step of Close().  Callers, watches, the      *)
(* notification, the lock and the program counters are hidden.            *)
TW == INSTANCE TopologyWatcher WITH
        Services   <- DT!StoreValues,
        NoSnapshot <- NoTopo,
        store      <- IF store = Unset THEN NilService ELSE store,
        snapshot   <- Get,
        closed     <- wclosed

(* Init, the watch loop, Close and MarkShardsAvailable together implement  *)
(* the watcher's contract: the first snapshot is a valid stored placement, *)
(* every later one the store's current valid placement, nothing is         *)
(* published after close, and once there is a snapshot a valid placement  *)
(* that stays in the store is eventually published.                        *)
ImplementsTopologyWatcher == TW!WSpec
=============================================================================
