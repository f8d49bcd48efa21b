-------------------------- MODULE DynamicTopology --------------------------
(***************************************************************************)
(* The dynamic topology of the broker, src/cluster/topology/dynamic.go.    *)
(*                                                                         *)
(* newDynamicTopology opens a watch on the placement in the config service *)
(* (m3 services.Watch), waits for the first value, validates it and        *)
(* publishes it in a Watchable; then the goroutine run() loops: check      *)
(* closed, receive a notification from watch.C(), read the latest value    *)
(* with watch.Get(), validate it and, when valid, publish it.  Close() may *)
(* be called by any goroutine, and by run() itself when watch.C() is       *)
(* closed; it holds the topology's RWMutex across three steps (set closed, *)
(* close the watch, close the Watchable), while run()'s receive and        *)
(* watchable.Update take no lock.  MarkShardsAvailable forwards to the placement service, which   *)
(* changes the placement in the store.                                     *)
(*                                                                         *)
(* The watch's channel has capacity one: notifications coalesce, and       *)
(* watch.Get() returns the store's latest value.  Closing the watch closes *)
(* the channel; a notification already buffered is still received first.  *)
(***************************************************************************)
EXTENDS Naturals, TopologyValidation

CONSTANTS
  Services,    \* the placements the store may hold
  MaxUpdates,  \* bound on the changes to the placement in the store
  Closers,     \* goroutines other than run() that call Close()
  NoOwner      \* the RWMutex is not write-locked

ASSUME MaxUpdates \in Nat

VARIABLES
  upstream,    \* the placement in the config service (what watch.Get() returns)
  notify,      \* a notification is buffered in watch.C()
  wopen,       \* watch.C() is open
  published,   \* the Map held by the Watchable (what Get() returns)
  wclosed,     \* the Watchable is closed
  closed,      \* dynamicTopology.closed
  runpc,       \* program counter of the run() goroutine
  updates,     \* changes made to the store so far
  tlock,       \* the goroutine holding the topology's write lock
  clpc         \* where each goroutine is in its call of Close()

vars == <<upstream, notify, wopen, published, wclosed, closed, runpc, updates,
          tlock, clpc>>

(* run() calls Close() itself; "run" names it among the callers.           *)
Goroutines == Closers \cup {"run"}

-----------------------------------------------------------------------------
(* State after newDynamicTopology returned: the first notification was     *)
(* consumed, the initial value validated and published, run() started.     *)
Init ==
  /\ upstream \in {s \in Services : IsValidUpdate(s)}
  /\ published = upstream
  /\ notify = FALSE
  /\ wopen = TRUE
  /\ wclosed = FALSE
  /\ closed = FALSE
  /\ runpc = "check"
  /\ updates = 0
  /\ tlock = NoOwner
  /\ clpc = [g \in Goroutines |-> "idle"]

(* The placement in the store changes; the watch notifies (coalescing).    *)
UpstreamUpdate(s) ==
  /\ wopen /\ updates < MaxUpdates
  /\ upstream' = s
  /\ notify' = TRUE
  /\ updates' = updates + 1
  /\ UNCHANGED <<wopen, published, wclosed, closed, runpc, tlock, clpc>>

(* The config service closes the watch's channel.                          *)
WatchEnded ==
  /\ wopen
  /\ wopen' = FALSE
  /\ UNCHANGED <<upstream, notify, published, wclosed, closed, runpc, updates,
                 tlock, clpc>>

(* MarkShardsAvailable(instanceID, shardIDs...): the placement service     *)
(* marks the given Initializing shards of the instance Available, which    *)
(* changes the placement in the store and notifies the watch.              *)
MarkShardsAvailable(x, ids) ==
  /\ wopen /\ updates < MaxUpdates
  /\ upstream # NilService
  /\ upstream.shards[x] # NoShards
  /\ ids # {}
  /\ \A id \in ids : upstream.shards[x][id] = "Initializing"
  /\ upstream' = [upstream EXCEPT !.shards[x] =
                    [id \in ShardIDs |-> IF id \in ids THEN "Available" ELSE @[id]]]
  /\ notify' = TRUE
  /\ updates' = updates + 1
  /\ UNCHANGED <<wopen, published, wclosed, closed, runpc, tlock, clpc>>

(* A goroutine other than run() calls Close().                            *)
CallClose(g) ==
  /\ g \in Closers /\ clpc[g] = "idle"
  /\ clpc' = [clpc EXCEPT ![g] = "lock"]
  /\ UNCHANGED <<upstream, notify, wopen, published, wclosed, closed, runpc, updates, tlock>>

(* Where g goes when its call of Close() returns: run() breaks its loop.   *)
Returned(g) == IF g = "run" THEN "exit" ELSE runpc

(* Mutant of CloseLock: `if t.closed { return }` tested before t.Lock().   *)
CloseCheckUnlocked(g) ==
  /\ clpc[g] = "lock"
  /\ IF closed
       THEN /\ clpc' = [clpc EXCEPT ![g] = "done"]
            /\ runpc' = Returned(g)
            /\ UNCHANGED <<closed, tlock>>
       ELSE /\ tlock = NoOwner
            /\ closed' = TRUE
            /\ tlock' = g
            /\ clpc' = [clpc EXCEPT ![g] = "watch"]
            /\ UNCHANGED runpc
  /\ UNCHANGED <<upstream, notify, wopen, published, wclosed, updates>>

(* Close(): t.Lock(); a closed topology returns at once (unlocking),       *)
(* otherwise t.closed = true.                                              *)
CloseLock(g) ==
  /\ clpc[g] = "lock" /\ tlock = NoOwner
  /\ IF closed
       THEN /\ clpc' = [clpc EXCEPT ![g] = "done"]
            /\ runpc' = Returned(g)
            /\ UNCHANGED <<closed, tlock>>
       ELSE /\ closed' = TRUE
            /\ tlock' = g
            /\ clpc' = [clpc EXCEPT ![g] = "watch"]
            /\ UNCHANGED runpc
  /\ UNCHANGED <<upstream, notify, wopen, published, wclosed, updates>>

(* Mutant of CloseWatch: the watch is left open.                           *)
CloseWatchSkipped(g) ==
  /\ clpc[g] = "watch"
  /\ clpc' = [clpc EXCEPT ![g] = "watchable"]
  /\ UNCHANGED <<upstream, notify, wopen, published, wclosed, closed, runpc, updates, tlock>>

(* Close(): t.watch.Close(), which closes watch.C().                       *)
CloseWatch(g) ==
  /\ clpc[g] = "watch"
  /\ wopen' = FALSE
  /\ clpc' = [clpc EXCEPT ![g] = "watchable"]
  /\ UNCHANGED <<upstream, notify, published, wclosed, closed, runpc, updates, tlock>>

(* Close(): t.watchable.Close(), then the deferred t.Unlock().             *)
CloseWatchable(g) ==
  /\ clpc[g] = "watchable"
  /\ wclosed' = TRUE
  /\ tlock' = NoOwner
  /\ clpc' = [clpc EXCEPT ![g] = "done"]
  /\ runpc' = Returned(g)
  /\ UNCHANGED <<upstream, notify, wopen, published, closed, updates>>

(* The steps of a Close() call by g.                                       *)
CloseStep(g) == CloseLock(g) \/ CloseWatch(g) \/ CloseWatchable(g)

(* run(): `for !t.isClosed()`, reading closed under the read lock, which  *)
(* waits while a Close() holds the write lock.                             *)
RunCheck ==
  /\ runpc = "check" /\ tlock = NoOwner
  /\ runpc' = IF closed THEN "exit" ELSE "recv"
  /\ UNCHANGED <<upstream, notify, wopen, published, wclosed, closed, updates,
                 tlock, clpc>>

(* Mutant of RunReceive: a closed channel is treated like a notification. *)
RunReceiveIgnoreEnd ==
  /\ runpc = "recv"
  /\ \/ /\ notify
        /\ notify' = FALSE
        /\ runpc' = "get"
     \/ /\ ~notify /\ ~wopen
        /\ runpc' = "get"
        /\ UNCHANGED notify
  /\ UNCHANGED <<upstream, wopen, published, wclosed, closed, updates, tlock, clpc>>

(* Mutant of RunReceive: the notification is consumed but run() goes back *)
(* to the loop head without reading the value.                            *)
RunReceiveDrop ==
  /\ runpc = "recv"
  /\ \/ /\ notify
        /\ notify' = FALSE
        /\ runpc' = "check"
        /\ UNCHANGED clpc
     \/ /\ ~notify /\ ~wopen
        /\ runpc' = "close"
        /\ clpc' = [clpc EXCEPT !["run"] = "lock"]
        /\ UNCHANGED notify
  /\ UNCHANGED <<upstream, wopen, published, wclosed, closed, updates, tlock>>

(* run(): `<-t.watch.C()`: a buffered notification is received even after *)
(* the channel was closed; a closed empty channel makes run() call Close() *)
(* (a no-op if already closed) and then leave the loop.                    *)
RunReceive ==
  /\ runpc = "recv"
  /\ \/ /\ notify
        /\ notify' = FALSE
        /\ runpc' = "get"
        /\ UNCHANGED clpc
     \/ /\ ~notify /\ ~wopen
        /\ runpc' = "close"
        /\ clpc' = [clpc EXCEPT !["run"] = "lock"]
        /\ UNCHANGED notify
  /\ UNCHANGED <<upstream, wopen, published, wclosed, closed, updates, tlock>>

(* Mutant of RunGet: the error of getMapFromUpdate is not checked, the    *)
(* value is published as read.                                             *)
RunGetUnchecked ==
  /\ runpc = "get"
  /\ published' = IF ~wclosed THEN upstream ELSE published
  /\ runpc' = "check"
  /\ UNCHANGED <<upstream, notify, wopen, wclosed, closed, updates, tlock, clpc>>

(* run(): getMapFromUpdate(t.watch.Get()); an invalid value is logged and  *)
(* skipped, a valid one is given to watchable.Update, which ignores it     *)
(* once the Watchable is closed.                                           *)
RunGet ==
  /\ runpc = "get"
  /\ published' = IF IsValidUpdate(upstream) /\ ~wclosed THEN upstream
                  ELSE published
  /\ runpc' = "check"
  /\ UNCHANGED <<upstream, notify, wopen, wclosed, closed, updates, tlock, clpc>>

Next ==
  \/ \E s \in Services : UpstreamUpdate(s)
  \/ WatchEnded
  \/ \E x \in Instances, ids \in SUBSET ShardIDs : MarkShardsAvailable(x, ids)
  \/ \E g \in Goroutines : CallClose(g) \/ CloseStep(g)
  \/ RunCheck
  \/ RunReceive
  \/ RunGet

(* The run() goroutine, and a goroutine inside Close(), is scheduled        *)
(* whenever it can proceed; t.Lock() is strongly fair (sync.RWMutex hands  *)
(* the lock to a waiting writer).  The store, and whether anyone calls     *)
(* Close() or MarkShardsAvailable, owe nothing.                            *)
Fairness ==
  /\ WF_vars(RunCheck) /\ WF_vars(RunReceive) /\ WF_vars(RunGet)
  /\ \A g \in Goroutines :
       SF_vars(CloseLock(g)) /\ WF_vars(CloseWatch(g) \/ CloseWatchable(g))

Spec == Init /\ [][Next]_vars /\ Fairness

-----------------------------------------------------------------------------
(* The placements the store can hold: those given, and every placement   *)
(* MarkShardsAvailable can derive from them.                               *)
StoreValues ==
  Services \cup {NilService}
    \cup Service({s.replicas : s \in Services \ {NilService}},
                 {s.numShards : s \in Services \ {NilService}})

TypeOK ==
  /\ upstream \in StoreValues
  /\ notify \in BOOLEAN /\ wopen \in BOOLEAN
  /\ wclosed \in BOOLEAN /\ closed \in BOOLEAN
  /\ published \in Service({s.replicas : s \in Services \ {NilService}},
                           {s.numShards : s \in Services \ {NilService}})
  /\ runpc \in {"check", "recv", "get", "close", "exit"}
  /\ updates \in 0..MaxUpdates
  /\ tlock \in Goroutines \cup {NoOwner}
  /\ clpc \in [Goroutines -> {"idle", "lock", "watch", "watchable", "done"}]

(* Whenever run() is idle (no notification pending) and the topology is   *)
(* open, the Map queries read is the store's current placement if that one *)
(* is valid: coalesced notifications never leave a stale Map behind.       *)
IdleIsCurrent ==
  (runpc \in {"check", "recv"} /\ ~notify /\ ~closed /\ IsValidUpdate(upstream))
    => published = upstream

(* After Close(), from any caller, the run() goroutine eventually exits.   *)
RunExitsAfterClose == [](closed => <>(runpc = "exit"))

(* Once a call of Close() has returned to its caller, whether it closed    *)
(* the topology or found it closed already, the Map Get() returns never    *)
(* changes again: no update run() has in flight is published later.       *)
CloseIsFinal == [][(\E g \in Closers : clpc[g] = "done") => published' = published]_vars
=============================================================================
