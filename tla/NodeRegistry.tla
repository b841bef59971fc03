---------------------------- MODULE NodeRegistry ----------------------------
(***************************************************************************)
(* The registry of cluster nodes (cluster/registry.go): heartbeats that    *)
(* arrive over POST /cluster/heartbeat, and the goroutine that marks       *)
(* silent nodes as offline at every tick of a timer of period TTL/2.       *)
(*                                                                         *)
(* Time is a counter.  The eviction goroutine is prompt: time does not     *)
(* pass a tick of its timer before Evict has run.                          *)
(***************************************************************************)
EXTENDS Integers

CONSTANTS
  Nodes,   \* node IDs
  TTL,     \* heartbeatTTL
  MaxTime  \* bound on the clock

ASSUME RegistryAssumptions == TTL \in Nat /\ TTL >= 2 /\ MaxTime \in Nat

VARIABLES
  nodes,     \* per ID: status ("absent" if not in the map) and LastSeen
  now,
  nextTick,  \* when the timer of RunEviction fires
  evicting   \* RunEviction is running

nodeVars == <<nodes, now, nextTick, evicting>>

Period == TTL \div 2

NewNodeRegistry ==
  /\ nodes = [n \in Nodes |-> [status |-> "absent", LastSeen |-> 0]]
  /\ now = 0
  /\ nextTick = 0
  /\ evicting = FALSE

\* A heartbeat, of a new node or a known one.
Register(n) ==
  /\ nodes' = [nodes EXCEPT ![n] = [status |-> "healthy", LastSeen |-> now]]
  /\ UNCHANGED <<now, nextTick, evicting>>

\* The goroutine starts its timer.
RunEviction ==
  /\ evicting' = TRUE
  /\ nextTick' = now + Period
  /\ UNCHANGED now

\* Mutant: the comparison has the wrong sign.
ExpiredReversed(n) == nodes[n].status = "healthy" /\ now - nodes[n].LastSeen <= TTL

Expired(n) == nodes[n].status = "healthy" /\ now - nodes[n].LastSeen > TTL

\* A tick: silent nodes become offline and stay in the map.
Evict ==
  /\ evicting
  /\ now = nextTick
  /\ nodes' = [n \in Nodes |-> IF Expired(n) THEN [nodes[n] EXCEPT !.status = "offline"] ELSE nodes[n]]
  /\ nextTick' = now + Period
  /\ UNCHANGED <<now, evicting>>

\* ctx.Done
StopEviction ==
  /\ evicting' = FALSE
  /\ UNCHANGED <<nodes, now, nextTick>>

\* Time matters, and is counted, while RunEviction runs.
TimePasses ==
  /\ evicting
  /\ now < MaxTime
  /\ now < nextTick
  /\ now' = now + 1
  /\ UNCHANGED <<nodes, nextTick, evicting>>

----------------------------------------------------------------------------
(* Properties                                                              *)

\* ListHealthy, "suitable for work dispatch", never offers a node that has been silent for
\* longer than the TTL and one period of the eviction timer; and a node is shown as offline
\* only if no heartbeat came within the TTL: one that races with an eviction is not lost.
NodeStatusIsTimely ==
  \A n \in Nodes :
    /\ nodes[n].status = "healthy" /\ evicting => now - nodes[n].LastSeen <= TTL + Period
    /\ nodes[n].status = "offline" => now - nodes[n].LastSeen > TTL
=============================================================================
