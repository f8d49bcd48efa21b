------------------------- MODULE DynamicInitializer -------------------------
(***************************************************************************)
(* dynamicInitializer.Init and newDynamicTopology,                         *)
(* src/cluster/topology/dynamic.go.                                        *)
(*                                                                         *)
(* Any number of goroutines may call Init.  Under the initializer's mutex  *)
(* (released by a deferred Unlock on every return) Init returns the cached *)
(* topology if there is one; otherwise newDynamicTopology asks the config  *)
(* service client for Services (may fail), opens a watch on the service   *)
(* (may fail), blocks on the watch's channel until the store holds a       *)
(* placement, reads and validates it, and on success creates the          *)
(* topology (Watchable, go run()), which Init caches.  On a validation     *)
(* error it returns the error and nothing closes the watch it opened.      *)
(*                                                                         *)
(* A topology is numbered by its creation; the open watches are counted.   *)
(***************************************************************************)
EXTENDS Naturals, TopologyValidation

CONSTANTS
  Callers,     \* the goroutines calling Init
  Services,    \* the placements the store may hold
  Unset,       \* no placement stored under the service ID yet
  NoOwner,     \* the mutex is free
  NoTopo,      \* i.topo == nil
  Err,         \* an error returned by Init
  MaxUpdates   \* bound on the changes to the placement in the store

VARIABLES
  store,       \* the placement in the config service
  lock,        \* the holder of the initializer's mutex
  pc,          \* each caller's place in Init
  topo,        \* i.topo: NoTopo or the number of the cached topology
  created,     \* topologies created so far
  holds,       \* the callers holding the watch they opened
  watches,     \* watches opened and not closed
  result,      \* what Init returned to each caller (NoTopo: not yet)
  updates      \* changes made to the store so far

vars == <<store, lock, pc, topo, created, holds, watches, result, updates>>

-----------------------------------------------------------------------------
(* NewDynamicInitializer: no topology; every caller about to call Init.    *)
Init ==
  /\ store \in {Unset} \cup Services
  /\ lock = NoOwner
  /\ pc = [c \in Callers |-> "lock"]
  /\ topo = NoTopo
  /\ created = 0
  /\ holds = {}
  /\ watches = 0
  /\ result = [c \in Callers |-> NoTopo]
  /\ updates = 0

(* A placement is stored, or the stored one changes.                       *)
SetPlacement(s) ==
  /\ updates < MaxUpdates
  /\ store' = s
  /\ updates' = updates + 1
  /\ UNCHANGED <<lock, pc, topo, created, holds, watches, result>>

(* Return from Init with r; the deferred Unlock runs.                      *)
Return(c, r) ==
  /\ pc' = [pc EXCEPT ![c] = "done"]
  /\ result' = [result EXCEPT ![c] = r]
  /\ lock' = NoOwner

(* i.Lock()                                                                *)
Lock(c) ==
  /\ pc[c] = "lock" /\ lock = NoOwner
  /\ lock' = c
  /\ pc' = [pc EXCEPT ![c] = "cached"]
  /\ UNCHANGED <<store, topo, created, holds, watches, result, updates>>

(* Mutant of Cached: the cached topology is not looked at.                *)
CachedIgnored(c) ==
  /\ pc[c] = "cached"
  /\ pc' = [pc EXCEPT ![c] = "services"]
  /\ UNCHANGED <<store, lock, topo, created, holds, watches, result, updates>>

(* `if i.topo != nil { return i.topo, nil }`                              *)
Cached(c) ==
  /\ pc[c] = "cached"
  /\ IF topo # NoTopo
       THEN Return(c, topo)
       ELSE /\ pc' = [pc EXCEPT ![c] = "services"]
            /\ UNCHANGED <<lock, result>>
  /\ UNCHANGED <<store, topo, created, holds, watches, updates>>

(* opts.ConfigServiceClient().Services(nil), returning on error.           *)
GetServices(c) ==
  /\ pc[c] = "services"
  /\ \/ Return(c, Err)
     \/ /\ pc' = [pc EXCEPT ![c] = "watch"]
        /\ UNCHANGED <<lock, result>>
  /\ UNCHANGED <<store, topo, created, holds, watches, updates>>

(* services.Watch(serviceID, queryOptions), returning on error.            *)
OpenWatch(c) ==
  /\ pc[c] = "watch"
  /\ \/ /\ Return(c, Err)
        /\ UNCHANGED <<holds, watches>>
     \/ /\ pc' = [pc EXCEPT ![c] = "wait"]
        /\ holds' = holds \cup {c}
        /\ watches' = watches + 1
        /\ UNCHANGED <<lock, result>>
  /\ UNCHANGED <<store, topo, created, updates>>

(* `<-watch.C()`: the first notification comes once a placement is        *)
(* stored.                                                                 *)
WaitFirst(c) ==
  /\ pc[c] = "wait" /\ store # Unset
  /\ pc' = [pc EXCEPT ![c] = "get"]
  /\ UNCHANGED <<store, lock, topo, created, holds, watches, result, updates>>

(* Mutant of GetFirst: the mutex is released only on the success path.    *)
GetFirstKeepLock(c) ==
  /\ pc[c] = "get"
  /\ holds' = holds \ {c}
  /\ IF IsValidUpdate(store)
       THEN /\ created' = created + 1
            /\ topo' = created + 1
            /\ Return(c, created + 1)
       ELSE /\ pc' = [pc EXCEPT ![c] = "done"]
            /\ result' = [result EXCEPT ![c] = Err]
            /\ UNCHANGED <<lock, created, topo>>
  /\ UNCHANGED <<store, watches, updates>>

(* getMapFromUpdate(watch.Get()): an invalid value is returned as an       *)
(* error, the watch left open; a valid one becomes a new topology (its     *)
(* run() goroutine owns the watch), which Init caches and returns.         *)
GetFirst(c) ==
  /\ pc[c] = "get"
  /\ holds' = holds \ {c}
  /\ IF IsValidUpdate(store)
       THEN /\ created' = created + 1
            /\ topo' = created + 1
            /\ Return(c, created + 1)
       ELSE /\ Return(c, Err)
            /\ UNCHANGED <<created, topo>>
  /\ UNCHANGED <<store, watches, updates>>

Next ==
  \/ \E s \in Services : SetPlacement(s)
  \/ \E c \in Callers :
       Lock(c) \/ Cached(c) \/ GetServices(c) \/ OpenWatch(c)
       \/ WaitFirst(c) \/ GetFirst(c)

(* A caller that can run is eventually scheduled; sync.Mutex hands the     *)
(* lock to a waiter that has been starving, so a caller waiting on a lock  *)
(* that is free again and again eventually gets it.  The store owes       *)
(* nothing.                                                                *)
Fairness ==
  \A c \in Callers :
    /\ SF_vars(Lock(c))
    /\ WF_vars(Cached(c) \/ GetServices(c) \/ OpenWatch(c) \/ WaitFirst(c)
               \/ GetFirst(c))

Spec == Init /\ [][Next]_vars /\ Fairness

-----------------------------------------------------------------------------
TypeOK ==
  /\ store \in {Unset} \cup Services
  /\ lock \in Callers \cup {NoOwner}
  /\ pc \in [Callers -> {"lock", "cached", "services", "watch", "wait", "get",
                         "done"}]
  /\ topo \in {NoTopo} \cup 1..created
  /\ holds \subseteq Callers
  /\ watches \in Nat
  /\ result \in [Callers -> {NoTopo, Err} \cup 1..created]
  /\ \A c \in Callers : (pc[c] = "done") = (result[c] # NoTopo)

(* However the callers of Init interleave, at most one dynamicTopology     *)
(* (one watch loop) is ever created, and every caller that Init returned  *)
(* a topology to got that same one.                                        *)
OneTopology ==
  /\ created <= 1
  /\ \A c \in Callers : result[c] \notin {NoTopo, Err} => result[c] = topo

(* Once a placement is stored, every call of Init returns, whatever the    *)
(* outcome of the calls before it: a failing Init releases the mutex.      *)
InitCompletes ==
  <>(store # Unset) => \A c \in Callers : <>(pc[c] = "done")

(* Every watch opened by Init is still in use by that call or owned by the *)
(* topology it created: no watch is left open by a failed Init.            *)
NoLeakedWatch == watches = Cardinality(holds) + created
=============================================================================
