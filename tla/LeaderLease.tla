----------------------------- MODULE LeaderLease -----------------------------
(***************************************************************************)
(* The leader lease of services/upstream/leaderLease.ts: API instances     *)
(* compete for one Redis key with SET NX PX, renew it by compare-and-      *)
(* expire on a timer and delete it by compare-and-delete at shutdown.      *)
(*                                                                         *)
(* An instance believes what the last answer told it (isLeader()); the key *)
(* is the truth.  A Redis command is a record in the instance's queue: one *)
(* ioredis connection, so commands run and answer in order.  Time is       *)
(* discrete; the timer's callback does not wait for the answer of the      *)
(* command it sent before.  A restarted process is a new instance: the     *)
(* value of the key is a UUID minted at boot.                              *)
(***************************************************************************)
EXTENDS Naturals, Sequences, FiniteSets

CONSTANTS
  Instances,      \* the processes, by the UUID each mints at boot
  None,           \* no instance
  LeaseTtl,       \* leaseTtlMs
  RenewInterval,  \* renewIntervalMs
  MaxLag,         \* bound: how late a timer may fire
  MaxRtt,         \* bound: how long a Redis command may take to settle
  MaxFaults       \* bound: commands whose connection breaks

ASSUME LeaseAssumption ==
  /\ None \notin Instances
  /\ LeaseTtl \in Nat \ {0} /\ RenewInterval \in Nat \ {0}
  /\ MaxLag \in Nat /\ MaxRtt \in Nat /\ MaxFaults \in Nat

VARIABLES
  key, ttl,       \* Redis: the holder of the lease and what is left of its TTL
  leader,         \* leader[p]: the closure variable behind isLeader()
  phase,          \* phase[p]: where p is in its life
  timer,          \* timer[p]: time since the renewal timer last fired
  calls,          \* calls[p]: Redis commands not settled yet: [op, st, age]
  faults          \* what is left of MaxFaults

redis == <<key, ttl>>
vars  == <<redis, leader, phase, timer, calls, faults>>

Up == {p \in Instances : phase[p] = "up"}
Command(op) == [op |-> op, st |-> "sent", age |-> 0]

Init ==
  /\ key = None /\ ttl = 0
  /\ leader = [p \in Instances |-> FALSE]
  /\ phase = [p \in Instances |-> "new"]
  /\ timer = [p \in Instances |-> 0]
  /\ calls = [p \in Instances |-> <<>>]
  /\ faults = MaxFaults

-----------------------------------------------------------------------------
(* The instance.                                                           *)

Send(p, op) == calls' = [calls EXCEPT ![p] = Append(@, Command(op))]

\* bootstrapUpstream(): a first tryAcquire(), not awaited, and start().
Boot(p) ==
  /\ phase[p] = "new"
  /\ phase' = [phase EXCEPT ![p] = "up"]
  /\ timer' = [timer EXCEPT ![p] = 0]
  /\ Send(p, "acquire")
  /\ UNCHANGED <<redis, leader, faults>>

\* The interval's callback: renew as a leader, try to acquire as a candidate.
NextOp(p) == IF leader[p] THEN "renew" ELSE "acquire"

TimerFires(p) ==
  /\ p \in Up
  /\ timer[p] >= RenewInterval
  /\ timer' = [timer EXCEPT ![p] = 0]
  /\ Send(p, NextOp(p))
  /\ UNCHANGED <<redis, leader, phase, faults>>

\* stop() of bootstrapUpstream: the timer is cleared, then the listener is
\* stopped (awaited), then release() looks at what this instance believes.
StopBegins(p) ==
  /\ p \in Up
  /\ phase' = [phase EXCEPT ![p] = "stopping"]
  /\ UNCHANGED <<redis, leader, timer, calls, faults>>

Release(p) ==
  /\ phase[p] = "stopping"
  /\ IF leader[p]
       THEN phase' = [phase EXCEPT ![p] = "releasing"] /\ Send(p, "release")
       ELSE phase' = [phase EXCEPT ![p] = "down"] /\ UNCHANGED calls
  /\ UNCHANGED <<redis, leader, timer, faults>>

\* The process dies; what it had sent may still reach Redis.
Crash(p) ==
  /\ phase[p] \in {"up", "stopping", "releasing"}
  /\ phase' = [phase EXCEPT ![p] = "crashed"]
  /\ leader' = [leader EXCEPT ![p] = FALSE]
  /\ \/ UNCHANGED calls
     \/ calls' = [calls EXCEPT ![p] = <<>>]
  /\ UNCHANGED <<redis, timer, faults>>

-----------------------------------------------------------------------------
(* Redis executes a command: SET NX PX, PEXPIRE or DEL if equal.           *)

NextToRun(p, i) == calls[p][i].st = "sent" /\ \A j \in 1..(i - 1) : calls[p][j].st # "sent"

Settle(p, i, st) == calls' = [calls EXCEPT ![p][i].st = st]
Refuse(p, i) == Settle(p, i, "no") /\ UNCHANGED redis

FreshTtl == LeaseTtl

\* SET key p PX ttl NX.
SetAlways(p) == TRUE                                       \* (mutant)
SetIfThere(p) == key # None                                \* (mutant)
MaySet(p) == key = None

RunSet(p, i) ==
  /\ calls[p][i].op = "acquire"
  /\ IF MaySet(p)
       THEN Settle(p, i, "ok") /\ key' = p /\ ttl' = FreshTtl
       ELSE Refuse(p, i)

\* PEXPIRE_IF_EQUALS_SCRIPT and DEL_IF_EQUALS_SCRIPT.
Equals(p) == key = p

RunExpire(p, i) ==
  /\ calls[p][i].op = "renew"
  /\ IF Equals(p)
       THEN Settle(p, i, "ok") /\ ttl' = FreshTtl /\ UNCHANGED key
       ELSE Refuse(p, i)

RunDelete(p, i) ==
  /\ calls[p][i].op = "release"
  /\ IF Equals(p)
       THEN Settle(p, i, "ok") /\ key' = None /\ ttl' = 0
       ELSE Refuse(p, i)

Execute(p) ==
  /\ \E i \in DOMAIN calls[p] :
       NextToRun(p, i) /\ (RunSet(p, i) \/ RunExpire(p, i) \/ RunDelete(p, i))
  /\ UNCHANGED <<leader, phase, timer, faults>>

\* The connection breaks before the answer is read, whether or not Redis ran
\* the command: ioredis sends it once more or rejects it.
Break(p) ==
  /\ faults > 0 /\ faults' = faults - 1
  /\ \E i \in DOMAIN calls[p], st \in {"sent", "error"} :
       /\ calls[p][i].st # "error"
       /\ \A j \in DOMAIN calls[p] : j > i => calls[p][j].st = "sent"
       /\ Settle(p, i, st)
  /\ UNCHANGED <<redis, leader, phase, timer>>

-----------------------------------------------------------------------------
(* The instance reads an answer: the rest of tryAcquire(), tryRenew() and  *)
(* release().                                                              *)

Believes(p, op, st) ==
  CASE op = "acquire" -> st = "ok"
    [] op = "renew"   -> leader[p] /\ st = "ok"
    [] op = "release" -> FALSE

Answer(p) ==
  /\ calls[p] # <<>>
  /\ LET c == Head(calls[p])
     IN  /\ c.st # "sent"
         /\ leader' = [leader EXCEPT ![p] = phase[p] # "crashed" /\ Believes(p, c.op, c.st)]
         /\ IF phase[p] = "releasing" /\ c.op = "release"
              THEN phase' = [phase EXCEPT ![p] = "down"]
              ELSE UNCHANGED phase
  /\ calls' = [calls EXCEPT ![p] = Tail(@)]
  /\ UNCHANGED <<redis, timer, faults>>

-----------------------------------------------------------------------------
(* One unit of time.  It waits for what is due: a timer, an answer.        *)

Due == \/ \E p \in Up : timer[p] = RenewInterval + MaxLag
       \/ \E p \in Instances : \E i \in DOMAIN calls[p] : calls[p][i].age = MaxRtt

Tick ==
  /\ ~Due
  /\ \E p \in Instances : phase[p] \in {"up", "stopping", "releasing"} \/ calls[p] # <<>>
  /\ ttl' = IF ttl = 0 THEN 0 ELSE ttl - 1
  /\ key' = IF ttl <= 1 THEN None ELSE key
  /\ timer' = [p \in Instances |-> IF p \in Up THEN timer[p] + 1 ELSE 0]
  /\ calls' = [p \in Instances |->
                 [i \in DOMAIN calls[p] |-> [calls[p][i] EXCEPT !.age = @ + 1]]]
  /\ UNCHANGED <<leader, phase, faults>>

Step ==
  \E p \in Instances : \/ Boot(p) \/ TimerFires(p) \/ StopBegins(p) \/ Release(p) \/ Crash(p)
                       \/ Execute(p) \/ Break(p) \/ Answer(p)

Next == Step \/ Tick

Spec == Init /\ [][Next]_vars

-----------------------------------------------------------------------------
(* Properties.                                                             *)

Phases == {"new", "up", "stopping", "releasing", "down", "crashed"}
Commands == [op : {"acquire", "renew", "release"}, st : {"sent", "ok", "no", "error"},
             age : 0..MaxRtt]

\* The type invariant; a lease that is held always has an expiry.
TypeOK ==
  /\ key \in Instances \cup {None} /\ ttl \in 0..LeaseTtl
  /\ key = None <=> ttl = 0
  /\ leader \in [Instances -> BOOLEAN] /\ phase \in [Instances -> Phases]
  /\ timer \in [Instances -> 0..(RenewInterval + MaxLag)]
  /\ calls \in [Instances -> Seq(Commands)]
  /\ faults \in 0..MaxFaults

\* "exactly one instance wins per environment": no two running instances
\* believe they lead at the same time.  (One that is shutting down has
\* stopped its leader-gated work before release() looks at the lease.)
OneLeader == \A p, q \in Up : leader[p] /\ leader[q] => p = q

\* What a running leader believes is true of Redis.
LeaderHolds == \A p \in Up : leader[p] => key = p

\* The deployment's timing: a renewal has run before the TTL is over.
Prompt == RenewInterval + MaxLag + MaxRtt < LeaseTtl

\* Why it is so in a prompt deployment: what is left of the TTL lasts
\* until the timer's next command has run, or until an answer under way
\* (after the k-th) has told the instance that it does not lead.
Lasting(p, k) ==
  \/ ttl + timer[p] > RenewInterval + MaxLag + MaxRtt
  \/ \E i \in DOMAIN calls[p] : /\ i > k
                              /\ calls[p][i].st # "ok"
                              /\ ttl + calls[p][i].age > MaxRtt

Founded(p) ==
  /\ leader[p] => key = p /\ Lasting(p, 0)
  /\ \A k \in DOMAIN calls[p] :
       /\ calls[p][k].op # "release"
       /\ calls[p][k].op = "acquire" /\ calls[p][k].st = "ok" => key = p /\ Lasting(p, k)

LeaseIInv ==
  /\ TypeOK
  /\ \A p \in Up : Founded(p)
  /\ \A p \in Instances : phase[p] = "new" => ~leader[p] /\ calls[p] = <<>>

\* However late a command runs, it never extends, replaces or deletes the
\* lease of another instance: a lease only lapses, or its holder drops it.
ForeignLeaseUntouched ==
  [][\A p \in Instances :
       key = p => /\ key' # p => ttl = 1 \/ \E i \in DOMAIN calls[p] : calls[p][i].op = "release"
                  /\ ttl' > ttl => calls'[p] # calls[p]]_vars

=============================================================================
