------------------------------- MODULE PollLoop -------------------------------
(***************************************************************************)
(* services/upstream/pollLoop.ts on every instance of an environment, with *)
(* the status service it asks, the snapshot it writes, the events it       *)
(* pushes and the routers that read: the path of the gateway's status from *)
(* the gateway to a visitor.                                               *)
(*                                                                         *)
(* A payload of the status lane is the version of the gateway's state it   *)
(* was made from; Degraded is the payload of a gateway that cannot be      *)
(* reached, which mapGatewayResponse() and the loop's own fallback write   *)
(* alike.  "leading" is the set of instances whose isLeader() answers      *)
(* true: LeaderLease says when there is at most one, nothing here needs    *)
(* it.  A tick is a chain of awaits, one action each, and looks at the     *)
(* lease once, when it starts.  The slow lane (GitHub, Duolingo) keeps a   *)
(* tick under way; its payloads are not followed.                          *)
(***************************************************************************)
EXTENDS Naturals, FiniteSets

CONSTANTS
  Instances,      \* the processes of one environment
  None,           \* nothing cached, nothing stored, nobody heard
  Sent,           \* a request that has no answer yet
  MaxVersion,     \* bound: states the gateway goes through
  MaxFlips,       \* bound: changes of one instance's isLeader()
  MaxFaults       \* bound: failed calls, lost answers and crashes

ASSUME PollAssumption ==
  /\ None \notin Instances /\ None \notin Nat /\ Sent \notin Nat
  /\ MaxVersion \in Nat \ {0} /\ MaxFlips \in Nat /\ MaxFaults \in Nat

VARIABLES
  world,          \* the gateway's state
  leading,        \* instances whose lease.isLeader() is true
  pc,             \* pc[i]: where the tick of i is; "idle" is ticking = false
  got,            \* got[i]: the payload of the tick under way
  flight,         \* flight[i]: inFlight of the status service: {} when it is null,
                  \* {Sent}, or the payload on its way back
  cache,          \* cache[i]: the status service's payload while it has not expired
  prev,           \* prev[i]: prevSerialized.get("status")
  local,          \* local[i]: localSnapshots.get("status")
  snap,           \* the shared snapshot and, for the properties, who wrote it
  heard,          \* what the realtime clients heard last, and from whom
  flips, faults   \* what the bounds count

ticks    == <<pc, got>>
service  == <<flight, cache>>
process  == <<ticks, service, prev, local>>
vars     == <<world, leading, process, snap, heard, flips, faults>>

Degraded == 0
Versions == 1..MaxVersion
Payloads == {Degraded} \cup Versions
Written(v, i) == [val |-> v, by |-> i]

TypeOK ==
  /\ world \in Versions /\ leading \in SUBSET Instances
  /\ pc \in [Instances -> {"idle", "fetch", "set", "push", "slow"}]
  /\ got \in [Instances -> Payloads]
  /\ flight \in [Instances -> SUBSET ({Sent} \cup Payloads)]
  /\ cache \in [Instances -> {None} \cup Payloads]
  /\ prev \in [Instances -> {None} \cup Payloads]
  /\ local \in [Instances -> {None} \cup Payloads]
  /\ snap \in [val : {None} \cup Payloads, by : {None} \cup Instances]
  /\ heard \in [val : {None} \cup Payloads, by : {None} \cup Instances]
  /\ flips \in 0..MaxFlips /\ faults \in 0..MaxFaults

Init ==
  /\ world = 1 /\ leading = {}
  /\ pc = [i \in Instances |-> "idle"] /\ got = [i \in Instances |-> Degraded]
  /\ flight = [i \in Instances |-> {}] /\ cache = [i \in Instances |-> None]
  /\ prev = [i \in Instances |-> None] /\ local = [i \in Instances |-> None]
  /\ snap = Written(None, None) /\ heard = Written(None, None)
  /\ flips = 0 /\ faults = 0

Fault == faults < MaxFaults /\ faults' = faults + 1

-----------------------------------------------------------------------------
(* The world, the lease and the clock.                                     *)

GatewayChanges ==
  /\ world < MaxVersion /\ world' = world + 1
  /\ UNCHANGED <<leading, process, snap, heard, flips, faults>>

LeaseFlips(i) ==
  /\ flips < MaxFlips /\ flips' = flips + 1
  /\ leading' = IF i \in leading THEN leading \ {i} ELSE leading \cup {i}
  /\ UNCHANGED <<world, process, snap, heard, faults>>

\* The thirty seconds of the status service's cache are over.
CacheExpires(i) ==
  /\ cache[i] # None /\ cache' = [cache EXCEPT ![i] = None]
  /\ UNCHANGED <<world, leading, ticks, flight, prev, local, snap, heard, flips, faults>>

\* Redis drops a snapshot ten minutes after its last write, which is when nobody
\* has led for that long.
SnapshotExpires ==
  /\ leading = {} /\ (\A i \in Instances : pc[i] = "idle")
  /\ snap.val # None /\ snap' = Written(None, None)
  /\ UNCHANGED <<world, leading, process, heard, flips, faults>>

-----------------------------------------------------------------------------
(* The status service.                                                     *)

AnotherFlight(i) == flight[i] \cup {Sent}                \* (mutant)
Joined(i) == IF flight[i] = {} THEN {Sent} ELSE flight[i]

\* GET /api/status while Redis fails: the request asks the service itself.
DirectRead(i) ==
  /\ Fault /\ cache[i] = None
  /\ flight' = [flight EXCEPT ![i] = Joined(i)]
  /\ UNCHANGED <<world, leading, ticks, cache, prev, local, snap, heard, flips>>

\* The gateway makes its answer, or cannot be reached in four seconds.
GatewayAnswers(i) ==
  /\ Sent \in flight[i]
  /\ \E v \in {world, Degraded} :
       /\ flight' = [flight EXCEPT ![i] = (@ \ {Sent}) \cup {v}]
       /\ IF v = Degraded THEN Fault ELSE UNCHANGED faults
  /\ UNCHANGED <<world, leading, ticks, cache, prev, local, snap, heard, flips>>

\* The answer is cached; a tick that awaits it goes on, and keeps the payload
\* as its local snapshot before it writes.
FlightLands(i) ==
  /\ \E v \in flight[i] \cap Payloads :
       /\ flight' = [flight EXCEPT ![i] = @ \ {v}]
       /\ cache' = [cache EXCEPT ![i] = v]
       /\ IF pc[i] = "fetch"
            THEN /\ pc' = [pc EXCEPT ![i] = "set"] /\ got' = [got EXCEPT ![i] = v]
                 /\ local' = [local EXCEPT ![i] = v]
            ELSE UNCHANGED <<ticks, local>>
  /\ UNCHANGED <<world, leading, prev, snap, heard, flips, faults>>

-----------------------------------------------------------------------------
(* The loop.                                                               *)

MayTick(i) == i \in leading

\* The timer fires: no tick is under way, and the lease is held now.
RunTick(i) ==
  /\ pc[i] = "idle" /\ MayTick(i)
  /\ IF cache[i] # None
       THEN /\ pc' = [pc EXCEPT ![i] = "set"] /\ got' = [got EXCEPT ![i] = cache[i]]
            /\ local' = [local EXCEPT ![i] = cache[i]] /\ UNCHANGED flight
       ELSE /\ pc' = [pc EXCEPT ![i] = "fetch"] /\ flight' = [flight EXCEPT ![i] = Joined(i)]
            /\ UNCHANGED <<got, local>>
  /\ UNCHANGED <<world, leading, cache, prev, snap, heard, flips, faults>>

NewsOnly(i) == prev[i] # got[i] /\ got[i] # Degraded       \* (mutant)
IsNews(i) == prev[i] # got[i]

\* writeSnapshot() returns, whether Redis took the value or not (its errors are
\* swallowed); a payload that differs from the last one is remembered, then pushed.
SetLands(i) ==
  /\ pc[i] = "set"
  /\ \/ snap' = Written(got[i], i) /\ UNCHANGED faults
     \/ Fault /\ UNCHANGED snap
  /\ IF IsNews(i)
       THEN prev' = [prev EXCEPT ![i] = got[i]] /\ pc' = [pc EXCEPT ![i] = "push"]
       ELSE pc' = [pc EXCEPT ![i] = "slow"] /\ UNCHANGED prev
  /\ UNCHANGED <<world, leading, got, service, local, heard, flips>>

\* The answer to the SET is lost and the client sends it again.
SetIsRepeated(i) ==
  /\ pc[i] = "set" /\ Fault
  /\ snap' = Written(got[i], i)
  /\ UNCHANGED <<world, leading, process, heard, flips>>

\* publish() returns, whether the gateway took the event or not.
EventLands(i) ==
  /\ pc[i] = "push" /\ pc' = [pc EXCEPT ![i] = "slow"]
  /\ \/ heard' = Written(got[i], i) /\ UNCHANGED faults
     \/ Fault /\ heard' = [heard EXCEPT !.by = None]
  /\ UNCHANGED <<world, leading, got, service, prev, local, snap, flips>>

\* The slow lane of the tick: not due, without an answer, or fetched and stored.
SlowLaneDone(i) ==
  /\ pc[i] = "slow" /\ pc' = [pc EXCEPT ![i] = "idle"]
  /\ UNCHANGED <<world, leading, got, service, prev, local, snap, heard, flips, faults>>

\* The process dies and another one is started: everything in memory is lost.
Crash(i) ==
  /\ Fault
  /\ leading' = leading \ {i}
  /\ pc' = [pc EXCEPT ![i] = "idle"] /\ flight' = [flight EXCEPT ![i] = {}]
  /\ cache' = [cache EXCEPT ![i] = None] /\ prev' = [prev EXCEPT ![i] = None]
  /\ local' = [local EXCEPT ![i] = None]
  /\ heard' = IF heard.by = i THEN [heard EXCEPT !.by = None] ELSE heard
  /\ UNCHANGED <<world, got, snap, flips>>

Next ==
  \/ GatewayChanges \/ SnapshotExpires
  \/ \E i \in Instances :
       \/ LeaseFlips(i) \/ CacheExpires(i)
       \/ DirectRead(i) \/ GatewayAnswers(i) \/ FlightLands(i)
       \/ RunTick(i) \/ SetLands(i) \/ SetIsRepeated(i) \/ EventLands(i) \/ SlowLaneDone(i)
       \/ Crash(i)

\* Every call has a timeout, the interval keeps firing and the cache expires.
Fairness ==
  \A i \in Instances :
    /\ WF_vars(CacheExpires(i)) /\ WF_vars(GatewayAnswers(i)) /\ WF_vars(FlightLands(i))
    /\ WF_vars(RunTick(i)) /\ WF_vars(SetLands(i)) /\ WF_vars(EventLands(i))
    /\ WF_vars(SlowLaneDone(i))

Spec == Init /\ [][Next]_vars
FairSpec == Spec /\ Fairness

-----------------------------------------------------------------------------
(* What the routers answer.                                                *)

LocalFirst(i) ==                                           \* (mutant)
  IF local[i] # None THEN local[i] ELSE IF snap.val # None THEN snap.val ELSE Degraded

\* GET /api/status while Redis answers.
ReadStatus(i) ==
  IF snap.val # None THEN snap.val ELSE IF local[i] # None THEN local[i] ELSE Degraded

-----------------------------------------------------------------------------
(* Properties.                                                             *)

\* The status an instance writes never goes back from one of its writes to the
\* next, whatever the cache, the requests that share its fetches, crashes and
\* repeated commands do: only a write of another instance comes between a newer
\* status and an older one.
SnapshotGoesForward ==
  [][(snap.by # None /\ snap'.by = snap.by /\ snap.val # Degraded /\ snap'.val # Degraded)
       => snap'.val >= snap.val]_vars

\* Change detection drops no change.  Between two pushes, what an instance pushed
\* last, or tried to (prev), is what it wrote last (local), whether it led
\* throughout or another term lies in between; and the clients, if it was the last
\* they heard and no push was lost since, have heard just that.  What another
\* instance told them meanwhile, prev does not know.
LastWordIsCurrent ==
  \A i \in Instances : pc[i] \in {"idle", "fetch", "slow"} =>
    /\ prev[i] = local[i]
    /\ heard.by = i => heard.val = prev[i]

\* Once one instance leads for good, every instance ends up answering with the
\* gateway's state: writes of ticks that outlived their term are overwritten,
\* degraded payloads and old caches replaced.
ReadersConverge ==
  \A i \in Instances :
    <>[](leading = {i}) => <>[](\A j \in Instances : ReadStatus(j) = world)
=============================================================================
