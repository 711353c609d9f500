-------------------------- MODULE LeaderLeaseProofs --------------------------
(***************************************************************************)
(* The lease for every number of instances, every TTL, timer, lag, round   *)
(* trip and number of failures: type correctness; that no command touches  *)
(* another instance's lease, however late it runs; in a deployment that is *)
(* Prompt, that at most one running instance believes it leads; and in one *)
(* that is Settling, that a lost leader is replaced within GapLimit.       *)
(***************************************************************************)
EXTENDS LeaseFailover, SequenceTheorems, TLAPS

(* The queues: what Settle, Send and reading an answer do to them.         *)
LEMMA QueueType ==
  ASSUME TypeOK, NEW p \in Instances
  PROVE  /\ calls[p] \in Seq(Commands) /\ Len(calls[p]) \in Nat
         /\ DOMAIN calls[p] = 1..Len(calls[p])
         /\ \A i \in DOMAIN calls[p] : calls[p][i] \in Commands
<1>1. calls[p] \in Seq(Commands)
  BY DEF TypeOK
<1>2. QED
  BY <1>1, LenProperties, ElementOfSeq

LEMMA SettleEffect ==
  ASSUME TypeOK, NEW p \in Instances, NEW i \in DOMAIN calls[p],
         NEW st \in {"sent", "ok", "no", "error"}, Settle(p, i, st)
  PROVE  /\ calls' \in [Instances -> Seq(Commands)]
         /\ DOMAIN calls'[p] = DOMAIN calls[p]
         /\ \A j \in DOMAIN calls[p] : j # i => calls'[p][j] = calls[p][j]
         /\ calls'[p][i].op = calls[p][i].op /\ calls'[p][i].age = calls[p][i].age
         /\ calls'[p][i].st = st
         /\ \A q \in Instances : q # p => calls'[q] = calls[q]
<1> DEFINE c == [calls[p][i] EXCEPT !.st = st]
           s == [calls[p] EXCEPT ![i] = c]
<1>1. calls \in [Instances -> Seq(Commands)] /\ calls[p] \in Seq(Commands)
  BY DEF TypeOK
<1>2. i \in 1..Len(calls[p]) /\ calls[p][i] \in Commands
  BY QueueType
<1>3. c \in Commands /\ c.op = calls[p][i].op /\ c.age = calls[p][i].age /\ c.st = st
  BY <1>2 DEF Commands
<1>4. /\ s \in Seq(Commands) /\ Len(s) = Len(calls[p])
      /\ \A j \in 1..Len(calls[p]) : s[j] = IF j = i THEN c ELSE calls[p][j]
  BY <1>1, <1>2, <1>3, ExceptSeq
<1>5. calls' = [calls EXCEPT ![p] = s]
  BY DEF Settle
<1>6. calls'[p] = s /\ \A q \in Instances : q # p => calls'[q] = calls[q]
  BY <1>1, <1>5
<1>7. calls' \in [Instances -> Seq(Commands)]
  BY <1>1, <1>4, <1>5
<1>8. DOMAIN s = 1..Len(calls[p]) /\ DOMAIN calls[p] = 1..Len(calls[p])
  BY <1>1, <1>4, LenProperties
<1>9. QED
  BY <1>2, <1>3, <1>4, <1>6, <1>7, <1>8

LEMMA SendEffect ==
  ASSUME TypeOK, NEW p \in Instances, NEW op \in {"acquire", "renew", "release"}, Send(p, op)
  PROVE  /\ calls' \in [Instances -> Seq(Commands)]
         /\ DOMAIN calls'[p] = 1..(Len(calls[p]) + 1)
         /\ \A j \in DOMAIN calls[p] : calls'[p][j] = calls[p][j]
         /\ calls'[p][Len(calls[p]) + 1] = Command(op)
         /\ \A q \in Instances : q # p => calls'[q] = calls[q]
<1> DEFINE s == Append(calls[p], Command(op))
<1>1. calls \in [Instances -> Seq(Commands)] /\ calls[p] \in Seq(Commands)
  BY DEF TypeOK
<1>2. Command(op) \in Commands
  BY LeaseAssumption DEF Command, Commands
<1>3. /\ s \in Seq(Commands) /\ Len(s) = Len(calls[p]) + 1
      /\ \A j \in 1..Len(calls[p]) : s[j] = calls[p][j]
      /\ s[Len(calls[p]) + 1] = Command(op)
  BY <1>1, <1>2, AppendProperties
<1>4. calls' = [calls EXCEPT ![p] = s]
  BY DEF Send
<1>5. DOMAIN s = 1..(Len(calls[p]) + 1) /\ DOMAIN calls[p] = 1..Len(calls[p])
  BY <1>1, <1>3, LenProperties
<1>6. calls'[p] = s /\ (\A q \in Instances : q # p => calls'[q] = calls[q])
  BY <1>1, <1>4
<1>7. calls' \in [Instances -> Seq(Commands)]
  BY <1>1, <1>3, <1>4
<1>8. QED
  BY <1>3, <1>5, <1>6, <1>7

LEMMA AnswerEffect ==
  ASSUME TypeOK, NEW p \in Instances, calls[p] # <<>>,
         calls' = [calls EXCEPT ![p] = Tail(@)]
  PROVE  /\ calls' \in [Instances -> Seq(Commands)]
         /\ Len(calls[p]) \in Nat \ {0} /\ Head(calls[p]) = calls[p][1]
         /\ DOMAIN calls'[p] = 1..(Len(calls[p]) - 1)
         /\ \A j \in DOMAIN calls'[p] : calls'[p][j] = calls[p][j + 1]
         /\ \A q \in Instances : q # p => calls'[q] = calls[q]
<1>1. calls \in [Instances -> Seq(Commands)] /\ calls[p] \in Seq(Commands)
  BY DEF TypeOK
<1>2. /\ Tail(calls[p]) \in Seq(Commands) /\ Len(Tail(calls[p])) = Len(calls[p]) - 1
      /\ \A j \in 1..Len(Tail(calls[p])) : Tail(calls[p])[j] = calls[p][j + 1]
  BY <1>1, HeadTailProperties
<1>3. Len(calls[p]) \in Nat \ {0} /\ Head(calls[p]) = calls[p][1]
  BY <1>1, EmptySeq
<1>4. calls'[p] = Tail(calls[p]) /\ \A q \in Instances : q # p => calls'[q] = calls[q]
  BY <1>1
<1>5. DOMAIN Tail(calls[p]) = 1..(Len(calls[p]) - 1)
  BY <1>2, LenProperties
<1>6. calls' \in [Instances -> Seq(Commands)]
  BY <1>1, <1>2
<1>7. QED
  BY <1>2, <1>3, <1>4, <1>5, <1>6

LEMMA TickEffect ==
  ASSUME TypeOK, Tick
  PROVE  /\ calls' \in [Instances -> Seq(Commands)]
         /\ \A p \in Instances :
              /\ DOMAIN calls'[p] = DOMAIN calls[p]
              /\ \A i \in DOMAIN calls[p] : /\ calls'[p][i].op = calls[p][i].op
                                            /\ calls'[p][i].st = calls[p][i].st
                                            /\ calls'[p][i].age = calls[p][i].age + 1
                                            /\ calls[p][i].age < MaxRtt
<1> DEFINE older(p) == [i \in DOMAIN calls[p] |-> [calls[p][i] EXCEPT !.age = @ + 1]]
<1>1. calls' = [p \in Instances |-> older(p)]
  BY DEF Tick
<1>2. ASSUME NEW p \in Instances
      PROVE  /\ older(p) \in Seq(Commands)
             /\ DOMAIN older(p) = DOMAIN calls[p]
             /\ \A i \in DOMAIN calls[p] : /\ older(p)[i].op = calls[p][i].op
                                           /\ older(p)[i].st = calls[p][i].st
                                           /\ older(p)[i].age = calls[p][i].age + 1
                                           /\ calls[p][i].age < MaxRtt
  <2>1. Len(calls[p]) \in Nat /\ DOMAIN calls[p] = 1..Len(calls[p])
    BY QueueType
  <2>2. ASSUME NEW i \in DOMAIN calls[p]
        PROVE  /\ older(p)[i] \in Commands
               /\ older(p)[i].op = calls[p][i].op /\ older(p)[i].st = calls[p][i].st
               /\ older(p)[i].age = calls[p][i].age + 1 /\ calls[p][i].age < MaxRtt
    <3>1. calls[p][i] \in Commands
      BY QueueType
    <3>2. calls[p][i].age # MaxRtt /\ calls[p][i].age \in 0..MaxRtt
      BY <3>1 DEF Tick, Due, Commands
    <3>3. older(p)[i] = [calls[p][i] EXCEPT !.age = @ + 1]
      OBVIOUS
    <3>4. QED
      BY <3>1, <3>2, <3>3, LeaseAssumption DEF Commands
  <2>3. older(p) \in [1..Len(calls[p]) -> Commands]
    BY <2>1, <2>2
  <2>4. older(p) \in Seq(Commands)
    BY <2>1, <2>3
  <2>5. QED
    BY <2>2, <2>4
<1> HIDE DEF older
<1>3. \A p \in Instances : calls'[p] = older(p)
  BY <1>1
<1>4. calls' \in [Instances -> Seq(Commands)]
  BY <1>1, <1>2
<1>5. QED
  BY <1>2, <1>3, <1>4

-------------------------------------------------------------------------------

(* Type correctness, step by step.                                         *)
LEMMA ExecuteRuns ==
  ASSUME TypeOK, NEW p \in Instances, Execute(p)
  PROVE  \E i \in DOMAIN calls[p] : \E st \in {"ok", "no"} :
           /\ calls[p][i].st = "sent" /\ Settle(p, i, st)
           /\ UNCHANGED <<leader, phase, timer, faults>>
           /\ \/ st = "no" /\ UNCHANGED redis /\ (calls[p][i].op = "acquire" => key # None)
              \/ /\ st = "ok" /\ calls[p][i].op = "acquire" /\ key = None
                 /\ key' = p /\ ttl' = LeaseTtl
              \/ /\ st = "ok" /\ calls[p][i].op = "renew" /\ key = p
                 /\ key' = p /\ ttl' = LeaseTtl
              \/ /\ st = "ok" /\ calls[p][i].op = "release" /\ key = p
                 /\ key' = None /\ ttl' = 0
<1>1. PICK i \in DOMAIN calls[p] :
        NextToRun(p, i) /\ (RunSet(p, i) \/ RunExpire(p, i) \/ RunDelete(p, i))
  BY DEF Execute
<1>2. calls[p][i].st = "sent" /\ UNCHANGED <<leader, phase, timer, faults>>
  BY <1>1 DEF NextToRun, Execute
<1>3. CASE RunSet(p, i)
  BY <1>2, <1>3 DEF RunSet, MaySet, Refuse, FreshTtl
<1>4. CASE RunExpire(p, i)
  BY <1>2, <1>4 DEF RunExpire, Equals, Refuse, FreshTtl
<1>5. CASE RunDelete(p, i)
  BY <1>2, <1>5 DEF RunDelete, Equals, Refuse
<1>6. QED
  BY <1>1, <1>3, <1>4, <1>5

LEMMA ExecuteType == ASSUME TypeOK, NEW p \in Instances, Execute(p) PROVE TypeOK'
<1>1. PICK i \in DOMAIN calls[p], st \in {"ok", "no"} :
           /\ calls[p][i].st = "sent" /\ Settle(p, i, st)
           /\ UNCHANGED <<leader, phase, timer, faults>>
           /\ \/ UNCHANGED redis
              \/ key' = p /\ ttl' = LeaseTtl
              \/ key' = None /\ ttl' = 0
  BY ExecuteRuns
<1>2. calls' \in [Instances -> Seq(Commands)]
  BY <1>1, SettleEffect
<1>3. /\ key' \in Instances \cup {None} /\ ttl' \in 0..LeaseTtl /\ (key' = None <=> ttl' = 0)
  BY <1>1, LeaseAssumption DEF TypeOK, redis
<1>4. QED
  BY <1>1, <1>2, <1>3 DEF TypeOK

LEMMA BreakType == ASSUME TypeOK, NEW p \in Instances, Break(p) PROVE TypeOK'
<1>1. PICK i \in DOMAIN calls[p], st \in {"sent", "error"} : Settle(p, i, st)
  BY DEF Break
<1>2. calls' \in [Instances -> Seq(Commands)]
  BY <1>1, SettleEffect
<1>3. faults' \in 0..MaxFaults
  BY LeaseAssumption DEF Break, TypeOK
<1>4. UNCHANGED <<redis, leader, phase, timer>>
  BY DEF Break
<1>5. QED
  BY <1>2, <1>3, <1>4 DEF TypeOK, redis

LEMMA AnswerType == ASSUME TypeOK, NEW p \in Instances, Answer(p) PROVE TypeOK'
<1>1. calls' \in [Instances -> Seq(Commands)]
  BY AnswerEffect DEF Answer
<1>2. phase' \in [Instances -> Phases]
  BY DEF Answer, TypeOK, Phases
<1>3. Believes(p, Head(calls[p]).op, Head(calls[p]).st) \in BOOLEAN
  <2>1. Head(calls[p]).op \in {"acquire", "renew", "release"}
    BY AnswerEffect, QueueType DEF Answer, Commands
  <2>2. leader[p] \in BOOLEAN
    BY DEF TypeOK
  <2>3. QED
    BY <2>1, <2>2 DEF Believes
<1>4. leader' \in [Instances -> BOOLEAN]
  BY <1>3 DEF Answer, TypeOK
<1>5. UNCHANGED <<redis, timer, faults>>
  BY DEF Answer
<1>6. QED
  BY <1>1, <1>2, <1>4, <1>5 DEF TypeOK, redis

LEMMA TickType == ASSUME TypeOK, Tick PROVE TypeOK'
<1>1. calls' \in [Instances -> Seq(Commands)]
  BY TickEffect
<1>2. timer' \in [Instances -> 0..(RenewInterval + MaxLag)]
  <2>1. ASSUME NEW p \in Instances
        PROVE  (IF p \in Up THEN timer[p] + 1 ELSE 0) \in 0..(RenewInterval + MaxLag)
    <3>1. timer[p] \in 0..(RenewInterval + MaxLag)
      BY DEF TypeOK
    <3>2. p \in Up => timer[p] # RenewInterval + MaxLag
      BY DEF Tick, Due
    <3>3. QED
      BY <3>1, <3>2, LeaseAssumption
  <2>2. QED
    BY <2>1 DEF Tick
<1>3. key' \in Instances \cup {None} /\ ttl' \in 0..LeaseTtl /\ (key' = None <=> ttl' = 0)
  BY LeaseAssumption DEF Tick, TypeOK
<1>4. UNCHANGED <<leader, phase, faults>>
  BY DEF Tick
<1>5. QED
  BY <1>1, <1>2, <1>3, <1>4 DEF TypeOK

LEMMA BootType == ASSUME TypeOK, NEW p \in Instances, Boot(p) PROVE TypeOK'
<1>1. calls' \in [Instances -> Seq(Commands)]
  BY SendEffect DEF Boot
<1>2. timer' \in [Instances -> 0..(RenewInterval + MaxLag)] /\ phase' \in [Instances -> Phases]
  BY LeaseAssumption DEF Boot, TypeOK, Phases
<1>3. QED
  BY <1>1, <1>2 DEF Boot, TypeOK, redis

LEMMA TimerType == ASSUME TypeOK, NEW p \in Instances, TimerFires(p) PROVE TypeOK'
<1>1. calls' \in [Instances -> Seq(Commands)]
  BY SendEffect DEF TimerFires, NextOp
<1>2. timer' \in [Instances -> 0..(RenewInterval + MaxLag)]
  BY LeaseAssumption DEF TimerFires, TypeOK
<1>3. QED
  BY <1>1, <1>2 DEF TimerFires, TypeOK, redis

LEMMA StopType == ASSUME TypeOK, NEW p \in Instances, StopBegins(p) PROVE TypeOK'
  BY DEF StopBegins, TypeOK, Phases, redis

LEMMA ReleaseType == ASSUME TypeOK, NEW p \in Instances, Release(p) PROVE TypeOK'
<1>1. calls' \in [Instances -> Seq(Commands)]
  BY SendEffect DEF Release, TypeOK
<1>2. phase' \in [Instances -> Phases]
  BY DEF Release, TypeOK, Phases
<1>3. QED
  BY <1>1, <1>2 DEF Release, TypeOK, redis

LEMMA CrashType == ASSUME TypeOK, NEW p \in Instances, Crash(p) PROVE TypeOK'
<1>1. calls' \in [Instances -> Seq(Commands)]
  BY EmptySeq DEF Crash, TypeOK
<1>2. phase' \in [Instances -> Phases] /\ leader' \in [Instances -> BOOLEAN]
  BY DEF Crash, TypeOK, Phases
<1>3. QED
  BY <1>1, <1>2 DEF Crash, TypeOK, redis

LEMMA NextType == TypeOK /\ [Next]_vars => TypeOK'
<1> SUFFICES ASSUME TypeOK, [Next]_vars PROVE TypeOK'
  OBVIOUS
<1>1. ASSUME NEW p \in Instances,
             \/ Boot(p) \/ TimerFires(p) \/ StopBegins(p) \/ Release(p) \/ Crash(p)
             \/ Execute(p) \/ Break(p) \/ Answer(p)
      PROVE  TypeOK'
  BY <1>1, BootType, TimerType, StopType, ReleaseType, CrashType, ExecuteType, BreakType,
     AnswerType
<1>2. CASE Tick
  BY <1>2, TickType
<1>3. CASE UNCHANGED vars
  BY <1>3 DEF vars, redis, TypeOK
<1>4. QED
  BY <1>1, <1>2, <1>3 DEF Next, Step

LEMMA InitType == Init => TypeOK
<1> SUFFICES ASSUME Init PROVE TypeOK
  OBVIOUS
<1>1. calls \in [Instances -> Seq(Commands)]
  BY EmptySeq DEF Init
<1>2. phase \in [Instances -> Phases] /\ timer \in [Instances -> 0..(RenewInterval + MaxLag)]
  BY LeaseAssumption DEF Init, Phases
<1>3. QED
  BY <1>1, <1>2, LeaseAssumption DEF Init, TypeOK

(* Redis, the instances and their queues keep their types; a held lease    *)
(* always has an expiry, so a dead leader never holds it for ever.         *)
THEOREM LeaseType == Spec => []TypeOK
  BY InitType, NextType, PTL DEF Spec

-------------------------------------------------------------------------------

(* At most one leader.  What a step does to the instances it is not of.    *)
LEMMA Numbers ==
  ASSUME TypeOK, NEW p \in Instances
  PROVE  /\ ttl \in Nat /\ timer[p] \in Nat /\ timer[p] <= RenewInterval + MaxLag
         /\ \A i \in DOMAIN calls[p] : calls[p][i].age \in Nat
         /\ RenewInterval \in Nat /\ MaxLag \in Nat /\ MaxRtt \in Nat /\ LeaseTtl \in Nat
<1>1. timer[p] \in 0..(RenewInterval + MaxLag) /\ ttl \in 0..LeaseTtl
  BY DEF TypeOK
<1>2. \A i \in DOMAIN calls[p] : calls[p][i].age \in 0..MaxRtt
  BY QueueType DEF Commands
<1>3. QED
  BY <1>1, <1>2, LeaseAssumption

LEMMA Undisturbed ==
  ASSUME TypeOK, TypeOK', NEW q \in Instances, Founded(q), calls'[q] = calls[q],
         leader'[q] = leader[q], timer'[q] = timer[q],
         key = q => key' = q /\ ttl' >= ttl
  PROVE  Founded(q)'
<1>1. /\ ttl \in Nat /\ timer[q] \in Nat /\ RenewInterval \in Nat /\ MaxLag \in Nat
      /\ MaxRtt \in Nat /\ \A i \in DOMAIN calls[q] : calls[q][i].age \in Nat
  BY Numbers
<1>2. ttl' \in Nat
  BY LeaseAssumption DEF TypeOK
<1>3. ASSUME NEW k \in Nat, Lasting(q, k), key = q PROVE Lasting(q, k)'
  BY <1>1, <1>2, <1>3 DEF Lasting
<1>4. leader'[q] => key' = q /\ Lasting(q, 0)'
  BY <1>3 DEF Founded
<1>5. DOMAIN calls[q] \subseteq Nat
  BY QueueType
<1>6. QED
  BY <1>3, <1>4, <1>5 DEF Founded

LEMMA SettledNotOk ==
  ASSUME TypeOK, NEW p \in Instances, Founded(p), NEW i \in DOMAIN calls[p],
         NEW st \in {"no", "sent", "error"}, Settle(p, i, st),
         UNCHANGED <<redis, leader, timer>>
  PROVE  Founded(p)'
<1>1. /\ DOMAIN calls'[p] = DOMAIN calls[p]
      /\ \A j \in DOMAIN calls[p] : j # i => calls'[p][j] = calls[p][j]
      /\ calls'[p][i].op = calls[p][i].op /\ calls'[p][i].age = calls[p][i].age
      /\ calls'[p][i].st = st
  BY SettleEffect
<1>2. /\ key' = key /\ ttl' = ttl /\ leader' = leader /\ timer' = timer /\ st # "ok"
  BY DEF redis
<1>3. ASSUME NEW k \in Nat, Lasting(p, k) PROVE Lasting(p, k)'
  BY <1>1, <1>2, <1>3 DEF Lasting
<1>4. leader'[p] => key' = p /\ Lasting(p, 0)'
  BY <1>2, <1>3 DEF Founded
<1>5. DOMAIN calls[p] \subseteq Nat
  BY QueueType
<1>6. ASSUME NEW k \in DOMAIN calls'[p]
      PROVE  /\ calls'[p][k].op # "release"
             /\ calls'[p][k].op = "acquire" /\ calls'[p][k].st = "ok" => key' = p /\ Lasting(p, k)'
  BY <1>1, <1>2, <1>3, <1>5 DEF Founded
<1>7. QED
  BY <1>4, <1>6 DEF Founded

LEMMA SettledOk ==
  ASSUME Prompt, TypeOK, TypeOK', NEW p \in Instances, Founded(p), NEW i \in DOMAIN calls[p],
         Settle(p, i, "ok"), key' = p, ttl' = LeaseTtl, UNCHANGED <<leader, timer>>
  PROVE  Founded(p)'
<1>1. /\ DOMAIN calls'[p] = DOMAIN calls[p]
      /\ \A j \in DOMAIN calls[p] : j # i => calls'[p][j] = calls[p][j]
      /\ calls'[p][i].op = calls[p][i].op
  BY SettleEffect
<1>2. ttl' + timer'[p] > RenewInterval + MaxLag + MaxRtt
  BY Numbers DEF Prompt
<1>3. \A k : Lasting(p, k)'
  BY <1>2 DEF Lasting
<1>4. QED
  BY <1>1, <1>3 DEF Founded

LEMMA ExecuteFounded ==
  ASSUME Prompt, TypeOK, TypeOK', NEW p \in Instances, Execute(p),
         NEW q \in Up, Founded(q)
  PROVE  Founded(q)'
<1>1. PICK i \in DOMAIN calls[p], st \in {"ok", "no"} :
           /\ Settle(p, i, st) /\ UNCHANGED <<leader, phase, timer, faults>>
           /\ \/ st = "no" /\ UNCHANGED redis
              \/ st = "ok" /\ key = None /\ key' = p /\ ttl' = LeaseTtl
              \/ st = "ok" /\ key = p /\ key' = p /\ ttl' = LeaseTtl
              \/ calls[p][i].op = "release" /\ key = p
  BY ExecuteRuns
<1>2. q \in Instances /\ q # None
  BY LeaseAssumption DEF Up
<1>3. CASE q # p
  <2>1. calls'[q] = calls[q]
    BY <1>1, <1>2, <1>3, SettleEffect
  <2>2. ttl \in Nat
    BY <1>2, Numbers
  <2>3. key = q => key' = q /\ ttl' >= ttl
    BY <1>1, <1>2, <1>3, <2>2 DEF redis
  <2>4. QED
    BY <1>1, <1>2, <2>1, <2>3, Undisturbed
<1>4. CASE q = p
  <2>1. calls[p][i].op # "release"
    BY <1>4 DEF Founded
  <2>2. CASE st = "no" /\ UNCHANGED redis
    BY <1>1, <1>4, <2>2, SettledNotOk
  <2>3. CASE st = "ok" /\ key' = p /\ ttl' = LeaseTtl
    BY <1>1, <1>4, <2>3, SettledOk
  <2>4. QED
    BY <1>1, <2>1, <2>2, <2>3
<1>5. QED
  BY <1>3, <1>4

LEMMA BreakFounded ==
  ASSUME TypeOK, TypeOK', NEW p \in Instances, Break(p), NEW q \in Up, Founded(q)
  PROVE  Founded(q)'
<1>1. PICK i \in DOMAIN calls[p], st \in {"sent", "error"} : Settle(p, i, st)
  BY DEF Break
<1>2. UNCHANGED <<redis, leader, phase, timer>> /\ q \in Instances
  BY DEF Break, Up
<1>3. CASE q # p
  <2>1. calls'[q] = calls[q]
    BY <1>1, <1>2, <1>3, SettleEffect
  <2>2. ttl' >= ttl /\ key' = key
    BY <1>2, Numbers DEF redis
  <2>3. QED
    BY <1>2, <2>1, <2>2, Undisturbed
<1>4. CASE q = p
  BY <1>1, <1>2, <1>4, SettledNotOk
<1>5. QED
  BY <1>3, <1>4

LEMMA AnswerFounded ==
  ASSUME TypeOK, TypeOK', NEW p \in Instances, Answer(p), NEW q \in Up, Founded(q)
  PROVE  Founded(q)'
<1>1. UNCHANGED <<redis, timer, faults>> /\ q \in Instances
  BY DEF Answer, Up
<1>2. /\ Len(calls[p]) \in Nat \ {0} /\ Head(calls[p]) = calls[p][1]
      /\ DOMAIN calls'[p] = 1..(Len(calls[p]) - 1)
      /\ \A j \in DOMAIN calls'[p] : calls'[p][j] = calls[p][j + 1]
      /\ \A r \in Instances : r # p => calls'[r] = calls[r]
  BY AnswerEffect DEF Answer
<1>3. CASE q # p
  <2>1. leader'[q] = leader[q]
    BY <1>1, <1>3 DEF Answer, TypeOK
  <2>2. ttl' >= ttl /\ key' = key /\ timer' = timer
    BY <1>1, Numbers DEF redis
  <2>3. QED
    BY <1>1, <1>2, <1>3, <2>1, <2>2, Undisturbed
<1>4. CASE q = p
  <2>1. DOMAIN calls[p] = 1..Len(calls[p])
    BY QueueType
  <2>2. key' = key /\ ttl' = ttl /\ timer' = timer
    BY <1>1 DEF redis
  <2>3. ASSUME NEW k \in Nat, Lasting(p, k + 1) PROVE Lasting(p, k)'
    <3>1. CASE ttl + timer[p] > RenewInterval + MaxLag + MaxRtt
      BY <2>2, <3>1 DEF Lasting
    <3>2. ASSUME NEW i \in DOMAIN calls[p], i > k + 1, calls[p][i].st # "ok",
                 ttl + calls[p][i].age > MaxRtt
          PROVE  Lasting(p, k)'
      <4>1. /\ i - 1 \in DOMAIN calls'[p] /\ i - 1 > k /\ (i - 1) + 1 = i
        BY <1>2, <2>1, <3>2
      <4>2. calls'[p][i - 1] = calls[p][i]
        BY <1>2, <4>1
      <4>3. QED
        BY <2>2, <3>2, <4>1, <4>2 DEF Lasting
    <3>3. QED
      BY <2>3, <3>1, <3>2 DEF Lasting
  <2>4. ASSUME calls[p][1].st = "ok", Lasting(p, 0) PROVE Lasting(p, 1)
    BY <2>1, <2>4 DEF Lasting
  <2>5. leader'[p] => key' = p /\ Lasting(p, 0)'
    <3>1. leader'[p] => Believes(p, calls[p][1].op, calls[p][1].st)
      BY <1>2 DEF Answer, TypeOK
    <3>2. 1 \in DOMAIN calls[p] /\ calls[p][1].op \in {"acquire", "renew"}
      BY <1>2, <1>4, <2>1, QueueType DEF Founded, Commands
    <3>3. leader'[p] => calls[p][1].st = "ok" /\ (calls[p][1].op = "acquire" \/ leader[p])
      BY <3>1, <3>2 DEF Believes
    <3>4. leader'[p] => key = p /\ Lasting(p, 1)
      BY <1>4, <2>4, <3>2, <3>3 DEF Founded
    <3>5. Lasting(p, 0 + 1) => Lasting(p, 0)'
      BY <2>3
    <3>6. QED
      BY <2>2, <3>4, <3>5
  <2>6. ASSUME NEW k \in DOMAIN calls'[p]
        PROVE  /\ calls'[p][k].op # "release"
               /\ calls'[p][k].op = "acquire" /\ calls'[p][k].st = "ok" => key' = p /\ Lasting(p, k)'
    <3>1. k \in Nat /\ k + 1 \in DOMAIN calls[p] /\ calls'[p][k] = calls[p][k + 1]
      BY <1>2, <2>1
    <3>2. QED
      BY <1>4, <2>2, <2>3, <3>1 DEF Founded
  <2>7. QED
    BY <1>4, <2>5, <2>6 DEF Founded
<1>5. QED
  BY <1>3, <1>4

LEMMA TimerFounded ==
  ASSUME TypeOK, TypeOK', NEW p \in Instances, TimerFires(p), NEW q \in Up, Founded(q)
  PROVE  Founded(q)'
<1> DEFINE n == Len(calls[p])
<1>1. /\ n \in Nat /\ DOMAIN calls[p] = 1..n
      /\ DOMAIN calls'[p] = 1..(n + 1)
      /\ \A j \in DOMAIN calls[p] : calls'[p][j] = calls[p][j]
      /\ calls'[p][n + 1] = Command(NextOp(p))
      /\ \A r \in Instances : r # p => calls'[r] = calls[r]
  BY QueueType, SendEffect DEF TimerFires, NextOp
<1>2. key' = key /\ ttl' = ttl /\ leader' = leader /\ q \in Instances
  BY DEF TimerFires, redis, Up
<1>3. CASE q # p
  <2>1. timer'[q] = timer[q]
    BY <1>2, <1>3 DEF TimerFires, TypeOK
  <2>2. ttl' >= ttl
    BY <1>2, Numbers
  <2>3. QED
    BY <1>1, <1>2, <1>3, <2>1, <2>2, Undisturbed
<1>4. CASE q = p
  <2>1. /\ ttl \in Nat /\ timer[p] \in Nat /\ timer[p] <= RenewInterval + MaxLag
        /\ RenewInterval \in Nat /\ MaxLag \in Nat /\ MaxRtt \in Nat
    BY Numbers
  <2>2. /\ calls'[p][n + 1].st = "sent" /\ calls'[p][n + 1].age = 0
        /\ calls'[p][n + 1].op \in {"acquire", "renew"}
    BY <1>1 DEF Command, NextOp
  <2>3. ASSUME NEW k \in 0..n, Lasting(p, k) PROVE Lasting(p, k)'
    <3>1. CASE ttl + timer[p] > RenewInterval + MaxLag + MaxRtt
      <4>1. ttl' + calls'[p][n + 1].age > MaxRtt
        BY <1>2, <2>1, <2>2, <3>1
      <4>2. n + 1 \in DOMAIN calls'[p] /\ n + 1 > k
        BY <1>1
      <4>3. QED
        BY <2>2, <4>1, <4>2 DEF Lasting
    <3>2. ASSUME NEW i \in DOMAIN calls[p], i > k, calls[p][i].st # "ok",
                 ttl + calls[p][i].age > MaxRtt
          PROVE  Lasting(p, k)'
      <4>1. i \in DOMAIN calls'[p] /\ calls'[p][i] = calls[p][i]
        BY <1>1
      <4>2. QED
        BY <1>2, <3>2, <4>1 DEF Lasting
    <3>3. QED
      BY <2>3, <3>1, <3>2 DEF Lasting
  <2>4. leader'[p] => key' = p /\ Lasting(p, 0)'
    <3>1. 0 \in 0..n
      BY <1>1
    <3>2. QED
      BY <1>2, <1>4, <2>3, <3>1 DEF Founded
  <2>5. ASSUME NEW k \in DOMAIN calls'[p]
        PROVE  /\ calls'[p][k].op # "release"
               /\ calls'[p][k].op = "acquire" /\ calls'[p][k].st = "ok" => key' = p /\ Lasting(p, k)'
    <3>1. CASE k = n + 1
      BY <2>2, <3>1
    <3>2. CASE k # n + 1
      <4>1. k \in DOMAIN calls[p] /\ k \in 0..n
        BY <1>1, <3>2
      <4>2. QED
        BY <1>1, <1>2, <1>4, <2>3, <4>1 DEF Founded
    <3>3. QED
      BY <3>1, <3>2
  <2>6. QED
    BY <1>4, <2>4, <2>5 DEF Founded
<1>5. QED
  BY <1>3, <1>4

LEMMA BootFounded ==
  ASSUME TypeOK, TypeOK', NEW p \in Instances, Boot(p), ~leader[p], calls[p] = <<>>
  PROVE  Founded(p)'
<1>1. Len(calls[p]) = 0
  BY EmptySeq
<1>2. DOMAIN calls'[p] = {1} /\ calls'[p][1] = Command("acquire")
  BY <1>1, SendEffect DEF Boot
<1>3. calls'[p][1].op = "acquire" /\ calls'[p][1].st = "sent"
  BY <1>2 DEF Command
<1>4. ~leader'[p]
  BY DEF Boot
<1>5. QED
  BY <1>2, <1>3, <1>4 DEF Founded

LEMMA TickFounded ==
  ASSUME TypeOK, TypeOK', Tick, NEW q \in Up, Founded(q)
  PROVE  Founded(q)'
<1>1. q \in Instances
  BY DEF Up
<1>2. /\ DOMAIN calls'[q] = DOMAIN calls[q]
      /\ \A i \in DOMAIN calls[q] : /\ calls'[q][i].op = calls[q][i].op
                                    /\ calls'[q][i].st = calls[q][i].st
                                    /\ calls'[q][i].age = calls[q][i].age + 1
                                    /\ calls[q][i].age < MaxRtt
  BY <1>1, TickEffect
<1>3. /\ ttl \in Nat /\ timer[q] \in Nat /\ timer[q] <= RenewInterval + MaxLag
      /\ \A i \in DOMAIN calls[q] : calls[q][i].age \in Nat
      /\ RenewInterval \in Nat /\ MaxLag \in Nat /\ MaxRtt \in Nat
  BY <1>1, Numbers
<1>4. timer[q] # RenewInterval + MaxLag /\ timer'[q] = timer[q] + 1
  BY <1>1 DEF Tick, Due
<1>5. leader'[q] = leader[q]
  BY DEF Tick
<1>6. /\ ttl > 1 => key' = key /\ ttl' = ttl - 1
  BY <1>3 DEF Tick
<1>7. ASSUME NEW k \in Nat, Lasting(q, k) PROVE ttl > 1 /\ Lasting(q, k)'
  <2>1. CASE ttl + timer[q] > RenewInterval + MaxLag + MaxRtt
    <3>1. ttl > 1
      BY <1>3, <1>4, <2>1
    <3>2. ttl' + timer'[q] > RenewInterval + MaxLag + MaxRtt
      BY <1>3, <1>4, <1>6, <2>1, <3>1
    <3>3. QED
      BY <3>1, <3>2 DEF Lasting
  <2>2. ASSUME NEW i \in DOMAIN calls[q], i > k, calls[q][i].st # "ok",
               ttl + calls[q][i].age > MaxRtt
        PROVE  ttl > 1 /\ Lasting(q, k)'
    <3>1. ttl > 1
      BY <1>2, <1>3, <2>2
    <3>2. ttl' + calls'[q][i].age > MaxRtt
      BY <1>2, <1>3, <1>6, <2>2, <3>1
    <3>3. QED
      BY <1>2, <2>2, <3>1, <3>2 DEF Lasting
  <2>3. QED
    BY <1>7, <2>1, <2>2 DEF Lasting
<1>8. leader'[q] => key' = q /\ Lasting(q, 0)'
  BY <1>5, <1>6, <1>7 DEF Founded
<1>9. DOMAIN calls[q] \subseteq Nat
  BY <1>1, QueueType
<1>10. ASSUME NEW k \in DOMAIN calls'[q]
       PROVE  /\ calls'[q][k].op # "release"
              /\ calls'[q][k].op = "acquire" /\ calls'[q][k].st = "ok" => key' = q /\ Lasting(q, k)'
  <2>1. k \in DOMAIN calls[q] /\ k \in Nat
    BY <1>2, <1>9
  <2>2. /\ calls[q][k].op # "release"
        /\ calls[q][k].op = "acquire" /\ calls[q][k].st = "ok" => key = q /\ Lasting(q, k)
    BY <2>1 DEF Founded
  <2>3. QED
    BY <1>2, <1>6, <1>7, <2>1, <2>2
<1>11. QED
  BY <1>8, <1>10 DEF Founded

(* A step of an instance that leaves the others' variables alone.          *)
LEMMA OtherFounded ==
  ASSUME TypeOK, TypeOK', NEW q \in Instances, Founded(q), UNCHANGED redis,
         calls'[q] = calls[q], leader'[q] = leader[q], timer'[q] = timer[q]
  PROVE  Founded(q)'
<1>1. key = q => key' = q /\ ttl' >= ttl
  BY Numbers DEF redis
<1>2. QED
  BY <1>1, Undisturbed

LEMMA NewStaysNew ==
  ASSUME TypeOK, [Next]_vars, NEW q \in Instances, phase'[q] = "new",
         phase[q] = "new" => ~leader[q] /\ calls[q] = <<>>
  PROVE  ~leader'[q] /\ calls'[q] = <<>>
<1>0. TypeOK
  OBVIOUS
<1>1. phase[q] = "new"
  <2>1. phase \in [Instances -> Phases]
    BY <1>0 DEF TypeOK
  <2>2. QED
    BY <2>1 DEF Next, Step, Boot, TimerFires, StopBegins, Release, Crash, Execute, Break,
      Answer, Tick, vars
<1>2. ~leader[q] /\ calls[q] = <<>>
  BY <1>1
<1>3. DOMAIN calls[q] = {}
  BY <1>0, <1>2, QueueType, EmptySeq
<1>4. ASSUME NEW p \in Instances,
             \/ Boot(p) \/ TimerFires(p) \/ StopBegins(p) \/ Release(p) \/ Crash(p)
             \/ Execute(p) \/ Break(p) \/ Answer(p)
      PROVE  ~leader'[q] /\ calls'[q] = <<>>
  <2>1. calls \in [Instances -> Seq(Commands)] /\ leader \in [Instances -> BOOLEAN]
        /\ phase \in [Instances -> Phases]
    BY <1>0 DEF TypeOK
  <2>2. CASE p = q
    <3>1. ~Boot(q) /\ ~TimerFires(q) /\ ~StopBegins(q) /\ ~Release(q) /\ ~Crash(q)
      BY <1>1, <2>1 DEF Boot, TimerFires, StopBegins, Release, Crash, Up
    <3>2. ~Execute(q) /\ ~Break(q) /\ ~Answer(q)
      BY <1>2, <1>3 DEF Execute, Break, Answer
    <3>3. QED
      BY <1>4, <2>2, <3>1, <3>2
  <2>3. CASE p # q
    <3>1. calls'[q] = calls[q]
      <4>1. CASE Execute(p)
        BY <1>0, <2>3, <4>1, ExecuteRuns, SettleEffect
      <4>2. CASE Break(p)
        BY <1>0, <2>3, <4>2, SettleEffect DEF Break
      <4>3. CASE \/ Boot(p) \/ TimerFires(p) \/ StopBegins(p) \/ Release(p) \/ Crash(p) \/ Answer(p)
        BY <2>1, <2>3, <4>3 DEF Boot, TimerFires, StopBegins, Release, Crash, Answer, Send
      <4>4. QED
        BY <1>4, <4>1, <4>2, <4>3
    <3>2. leader'[q] = leader[q]
      BY <1>4, <2>1, <2>3 DEF Boot, TimerFires, StopBegins, Release, Crash, Execute, Break, Answer
    <3>3. QED
      BY <1>2, <3>1, <3>2
  <2>4. QED
    BY <2>2, <2>3
<1>5. CASE Tick
  <2>1. ~leader'[q]
    BY <1>2, <1>5 DEF Tick
  <2>2. calls' \in [Instances -> Seq(Commands)] /\ DOMAIN calls'[q] = {}
    BY <1>0, <1>3, <1>5, TickEffect
  <2>3. calls'[q] \in Seq(Commands)
    BY <2>2
  <2>4. Len(calls'[q]) \in Nat /\ DOMAIN calls'[q] = 1..Len(calls'[q])
    BY <2>3, LenProperties
  <2>5. calls'[q] = <<>>
    <3>1. Len(calls'[q]) = 0
      <4>1. Len(calls'[q]) # 0 => 1 \in 1..Len(calls'[q])
        BY <2>4
      <4>2. QED
        BY <2>2, <2>4, <4>1
    <3>2. QED
      BY <2>3, <3>1, EmptySeq
  <2>6. QED
    BY <2>1, <2>5
<1>6. CASE UNCHANGED vars
  BY <1>2, <1>6 DEF vars
<1>7. QED
  BY <1>4, <1>5, <1>6 DEF Next, Step

LEMMA NextFounded ==
  ASSUME Prompt, LeaseIInv, [Next]_vars PROVE LeaseIInv'
<1>1. TypeOK /\ TypeOK'
  BY NextType DEF LeaseIInv
<1>2. ASSUME NEW q \in Instances, phase'[q] = "up" PROVE Founded(q)'
  <2>0. calls \in [Instances -> Seq(Commands)] /\ leader \in [Instances -> BOOLEAN]
        /\ phase \in [Instances -> Phases] /\ timer \in [Instances -> 0..(RenewInterval + MaxLag)]
    BY <1>1 DEF TypeOK
  <2>1. phase[q] = "up" => q \in Up /\ Founded(q)
    BY DEF LeaseIInv, Up
  <2>2. ASSUME NEW p \in Instances, Boot(p) PROVE Founded(q)'
    <3>1. CASE p = q
      BY <1>1, <2>2, <3>1, BootFounded DEF Boot, LeaseIInv
    <3>2. CASE p # q
      <4>1. phase[q] = "up" /\ calls'[q] = calls[q] /\ leader'[q] = leader[q] /\ timer'[q] = timer[q]
        BY <1>2, <2>0, <2>2, <3>2 DEF Boot, Send
      <4>2. QED
        BY <1>1, <2>1, <2>2, <4>1, OtherFounded DEF Boot
    <3>3. QED
      BY <3>1, <3>2
  <2>3. ASSUME NEW p \in Instances, StopBegins(p) \/ Release(p) \/ Crash(p) PROVE Founded(q)'
    <3>1. p # q
      BY <1>2, <2>0, <2>3 DEF StopBegins, Release, Crash
    <3>2. /\ phase[q] = "up" /\ calls'[q] = calls[q] /\ leader'[q] = leader[q]
          /\ timer'[q] = timer[q] /\ UNCHANGED redis
      BY <1>2, <2>0, <2>3, <3>1 DEF StopBegins, Release, Crash, Send
    <3>3. QED
      BY <1>1, <2>1, <3>2, OtherFounded
  <2>4. ASSUME NEW p \in Instances, TimerFires(p) \/ Execute(p) \/ Break(p) \/ Answer(p)
        PROVE  Founded(q)'
    <3>1. phase[q] = "up"
      BY <1>2, <2>0, <2>4 DEF TimerFires, Execute, Break, Answer
    <3>2. QED
      BY <1>1, <2>1, <2>4, <3>1, TimerFounded, ExecuteFounded, BreakFounded, AnswerFounded
  <2>5. CASE Tick
    <3>1. phase[q] = "up"
      BY <1>2, <2>5 DEF Tick
    <3>2. QED
      BY <1>1, <2>1, <2>5, <3>1, TickFounded
  <2>6. CASE UNCHANGED vars
    <3>1. /\ phase[q] = "up" /\ calls'[q] = calls[q] /\ leader'[q] = leader[q]
          /\ timer'[q] = timer[q] /\ UNCHANGED redis
      BY <1>2, <2>6 DEF vars
    <3>2. QED
      BY <1>1, <2>1, <3>1, OtherFounded
  <2>7. QED
    BY <2>2, <2>3, <2>4, <2>5, <2>6 DEF Next, Step
<1>3. \A q \in Up' : Founded(q)'
  BY <1>2 DEF Up
<1>4. \A q \in Instances : phase'[q] = "new" => ~leader'[q] /\ calls'[q] = <<>>
  BY NewStaysNew DEF LeaseIInv
<1>5. QED
  BY <1>1, <1>3, <1>4 DEF LeaseIInv

LEMMA InitFounded == Init => LeaseIInv
<1> SUFFICES ASSUME Init PROVE LeaseIInv
  OBVIOUS
<1>1. TypeOK
  BY InitType
<1>2. Up = {}
  BY DEF Init, Up
<1>3. QED
  BY <1>1, <1>2 DEF Init, LeaseIInv

(* "exactly one instance wins per environment": whenever a renewal has run *)
(* before the TTL is over, no two running instances of tryAcquire() and    *)
(* tryRenew() believe they lead, and a leader's belief is true of Redis.   *)
THEOREM LeaseExclusion == ASSUME Prompt PROVE Spec => [](OneLeader /\ LeaderHolds)
<1>1. LeaseIInv /\ [Next]_vars => LeaseIInv'
  BY NextFounded
<1>2. LeaseIInv => OneLeader /\ LeaderHolds
  BY DEF LeaseIInv, Founded, OneLeader, LeaderHolds
<1>3. QED
  BY <1>1, <1>2, InitFounded, PTL DEF Spec

(* The compare-and-set scripts: without any assumption on timing, no step  *)
(* extends, replaces or deletes the lease of another instance.             *)
THEOREM LeaseForeign == Spec => ForeignLeaseUntouched
<1> DEFINE Kept == \A p \in Instances :
       key = p => /\ key' # p => ttl = 1 \/ \E i \in DOMAIN calls[p] : calls[p][i].op = "release"
                  /\ ttl' > ttl => calls'[p] # calls[p]
<1>1. TypeOK /\ [Next]_vars => [Kept]_vars
  <2> SUFFICES ASSUME TypeOK, Next, NEW p \in Instances, key = p
               PROVE  /\ key' # p => ttl = 1 \/ \E i \in DOMAIN calls[p] : calls[p][i].op = "release"
                      /\ ttl' > ttl => calls'[p] # calls[p]
    BY DEF Kept
  <2>1. ttl \in Nat /\ ~(ttl > ttl)
    BY Numbers
  <2>2. ASSUME NEW q \in Instances, Execute(q)
        PROVE  /\ key' # p => ttl = 1 \/ \E i \in DOMAIN calls[p] : calls[p][i].op = "release"
               /\ ttl' > ttl => calls'[p] # calls[p]
    <3>1. PICK i \in DOMAIN calls[q], st \in {"ok", "no"} :
           /\ calls[q][i].st = "sent" /\ Settle(q, i, st)
           /\ \/ st = "no" /\ UNCHANGED redis
              \/ key = None
              \/ key = q /\ key' = q
              \/ key = q /\ calls[q][i].op = "release"
      BY <2>2, ExecuteRuns
    <3>2. p # None
      BY LeaseAssumption
    <3>3. calls'[q] # calls[q]
      BY <3>1, SettleEffect
    <3>4. QED
      BY <2>1, <3>1, <3>2, <3>3 DEF redis
  <2>3. CASE Tick
    <3>1. /\ key' # p => ttl <= 1
          /\ ~(ttl' > ttl)
      BY <2>1, <2>3 DEF Tick
    <3>2. ttl # 0
      BY LeaseAssumption DEF TypeOK
    <3>3. QED
      BY <2>1, <3>1, <3>2
  <2>4. ASSUME NEW q \in Instances,
               \/ Boot(q) \/ TimerFires(q) \/ StopBegins(q) \/ Release(q) \/ Crash(q)
               \/ Break(q) \/ Answer(q)
        PROVE  key' = key /\ ttl' = ttl
    BY <2>4 DEF Boot, TimerFires, StopBegins, Release, Crash, Break, Answer, redis
  <2>5. QED
    BY <2>1, <2>2, <2>3, <2>4 DEF Next, Step
<1>2. QED
  BY <1>1, LeaseType, PTL DEF Spec, ForeignLeaseUntouched

-------------------------------------------------------------------------------

(* The failover bound.  First what it needs of the queues: in a deployment *)
(* that is Settling a running instance has one command under way at most.  *)
\* A running instance that waits for an answer waits for one, to the command its
\* timer sent last; and a lease it took with it still has most of its TTL.
Alone(p) ==
  \A i \in DOMAIN calls[p] :
    /\ i = 1 /\ calls[p][i].age = timer[p] /\ calls[p][i].op = NextOp(p)
    /\ calls[p][i].op = "acquire" /\ calls[p][i].st = "ok" =>
         key = p /\ ttl + timer[p] >= LeaseTtl

AloneIInv ==
  /\ TypeOK
  /\ \A p \in Up : Alone(p)
  /\ \A p \in Instances : phase[p] = "new" => ~leader[p] /\ calls[p] = <<>>

LEMMA StillAlone ==
  ASSUME NEW p \in Instances, Alone(p), calls'[p] = calls[p], timer'[p] = timer[p],
         leader'[p] = leader[p], key = p => key' = p /\ ttl' = ttl
  PROVE  Alone(p)'
BY DEF Alone, NextOp

LEMMA TimerAlone ==
  ASSUME Settling, AloneIInv, NEW p \in Instances, TimerFires(p)
  PROVE  calls[p] = <<>> /\ Alone(p)'
<1>1. TypeOK /\ Alone(p) /\ timer[p] >= RenewInterval /\ timer[p] \in Nat
  BY Numbers DEF AloneIInv, TimerFires
<1>2. \A i \in DOMAIN calls[p] : calls[p][i].age \in 0..MaxRtt
  BY <1>1, QueueType DEF Commands
<1>3. DOMAIN calls[p] = {}
  BY <1>1, <1>2, Numbers DEF Alone, Settling
<1>4. Len(calls[p]) = 0 /\ calls[p] = <<>>
  BY <1>1, <1>3, QueueType, EmptySeq
<1>5. DOMAIN calls'[p] = 1..1 /\ calls'[p][1] = Command(NextOp(p))
  BY <1>1, <1>4, SendEffect DEF TimerFires, NextOp
<1>6. timer'[p] = 0 /\ leader' = leader
  BY <1>1 DEF TimerFires, TypeOK
<1> QED
  BY <1>4, <1>5, <1>6 DEF Alone, Command, NextOp

LEMMA SettledAlone ==
  ASSUME AloneIInv, NEW p \in Up, NEW i \in DOMAIN calls[p],
         NEW st \in {"sent", "ok", "no", "error"}, Settle(p, i, st), UNCHANGED <<leader, timer>>,
         calls[p][i].op = "acquire" /\ st = "ok" => key' = p /\ ttl' = LeaseTtl
  PROVE  Alone(p)'
<1>1. TypeOK /\ p \in Instances /\ Alone(p)
  BY DEF AloneIInv, Up
<1>2. /\ DOMAIN calls'[p] = DOMAIN calls[p] /\ \A j \in DOMAIN calls[p] : j = i
      /\ calls'[p][i].op = calls[p][i].op /\ calls'[p][i].age = calls[p][i].age
      /\ calls'[p][i].st = st
  BY <1>1, SettleEffect DEF Alone
<1>3. timer[p] \in Nat /\ LeaseTtl \in Nat
  BY <1>1, Numbers
<1> QED
  BY <1>1, <1>2, <1>3 DEF Alone, NextOp

LEMMA TickAlone ==
  ASSUME Settling, AloneIInv, NEW p \in Up, Tick
  PROVE  Alone(p)'
<1>1. TypeOK /\ p \in Instances /\ Alone(p)
  BY DEF AloneIInv, Up
<1>2. SUFFICES ASSUME NEW i \in DOMAIN calls'[p]
      PROVE  /\ i = 1 /\ calls'[p][i].age = timer'[p] /\ calls'[p][i].op = NextOp(p)
             /\ calls'[p][i].op = "acquire" /\ calls'[p][i].st = "ok" =>
                  key' = p /\ ttl' + timer'[p] >= LeaseTtl
  BY DEF Alone, NextOp, Tick
<1>3. /\ i \in DOMAIN calls[p] /\ calls'[p][i].op = calls[p][i].op
      /\ calls'[p][i].st = calls[p][i].st /\ calls'[p][i].age = calls[p][i].age + 1
      /\ calls[p][i].age < MaxRtt
  BY <1>1, TickEffect
<1>4. /\ timer'[p] = timer[p] + 1 /\ ttl' = (IF ttl = 0 THEN 0 ELSE ttl - 1)
      /\ key' = IF ttl <= 1 THEN None ELSE key
  BY <1>1 DEF Tick
<1>5. /\ ttl \in Nat /\ timer[p] \in Nat /\ LeaseTtl \in Nat /\ MaxRtt \in Nat
      /\ MaxRtt < LeaseTtl
  BY <1>1, Numbers DEF Settling
<1>6. i = 1 /\ calls[p][i].age = timer[p] /\ calls[p][i].op = NextOp(p)
  BY <1>1, <1>3 DEF Alone
<1>7. ASSUME calls[p][i].op = "acquire", calls[p][i].st = "ok"
      PROVE  key' = p /\ ttl' + timer'[p] >= LeaseTtl
  <2>1. key = p /\ ttl + timer[p] >= LeaseTtl
    BY <1>1, <1>3, <1>7 DEF Alone
  <2>2. ttl > 1
    BY <2>1, <1>3, <1>5, <1>6
  <2> QED
    BY <2>1, <2>2, <1>4, <1>5
<1> QED
  BY <1>3, <1>4, <1>6, <1>7


LEMMA OthersUntouched ==
  ASSUME TypeOK, NEW p \in Instances, NEW q \in Instances, q # p,
         \/ Boot(p) \/ TimerFires(p) \/ StopBegins(p) \/ Release(p) \/ Crash(p)
         \/ Execute(p) \/ Break(p) \/ Answer(p)
  PROVE  /\ calls'[q] = calls[q] /\ timer'[q] = timer[q] /\ leader'[q] = leader[q]
         /\ phase'[q] = phase[q]
         /\ key = q => key' = q /\ ttl' = ttl
<1>1. /\ calls \in [Instances -> Seq(Commands)] /\ leader \in [Instances -> BOOLEAN]
      /\ phase \in [Instances -> Phases] /\ timer \in [Instances -> 0..(RenewInterval + MaxLag)]
  BY DEF TypeOK
<1>2. CASE Execute(p)
  <2>1. PICK i \in DOMAIN calls[p], st \in {"ok", "no"} :
          /\ Settle(p, i, st) /\ UNCHANGED <<leader, phase, timer, faults>>
          /\ UNCHANGED redis \/ key \in {None, p}
    BY <1>2, ExecuteRuns
  <2>2. calls'[q] = calls[q]
    BY <2>1, SettleEffect
  <2> QED
    BY <2>1, <2>2, LeaseAssumption DEF redis
<1>3. CASE Break(p)
  BY <1>3, SettleEffect DEF Break, redis
<1>4. CASE \/ Boot(p) \/ TimerFires(p) \/ StopBegins(p) \/ Release(p) \/ Crash(p) \/ Answer(p)
  BY <1>1, <1>4 DEF Boot, TimerFires, StopBegins, Release, Crash, Answer, Send, redis
<1> QED
  BY <1>2, <1>3, <1>4

\* What a running instance waits for is answered: it waits for nothing.
LEMMA AnswerAlone ==
  ASSUME AloneIInv, NEW p \in Up, Answer(p)
  PROVE  /\ Len(calls[p]) = 1 /\ DOMAIN calls[p] = {1} /\ Head(calls[p]) = calls[p][1]
         /\ calls'[p] = <<>>
<1>1. TypeOK /\ p \in Instances /\ Alone(p)
  BY DEF AloneIInv, Up
<1>2. /\ calls' \in [Instances -> Seq(Commands)]
      /\ Len(calls[p]) \in Nat \ {0} /\ Head(calls[p]) = calls[p][1]
      /\ DOMAIN calls'[p] = 1..(Len(calls[p]) - 1) /\ DOMAIN calls[p] = 1..Len(calls[p])
  BY <1>1, AnswerEffect, QueueType DEF Answer
<1>3. Len(calls[p]) = 1
  <2>1. Len(calls[p]) \in DOMAIN calls[p]
    BY <1>2
  <2> QED
    BY <1>1, <2>1 DEF Alone
<1>4. calls'[p] \in Seq(Commands) /\ DOMAIN calls'[p] = {}
  BY <1>1, <1>2, <1>3
<1>5. calls'[p] = <<>>
  <2>1. Len(calls'[p]) \in Nat /\ DOMAIN calls'[p] = 1..Len(calls'[p])
    BY <1>4, LenProperties
  <2>2. Len(calls'[p]) # 0 => 1 \in 1..Len(calls'[p])
    BY <2>1
  <2>3. Len(calls'[p]) = 0
    BY <1>4, <2>1, <2>2
  <2> QED
    BY <1>4, <2>3, EmptySeq
<1> QED
  BY <1>2, <1>3, <1>5

LEMMA NothingWaits == ASSUME TypeOK, NEW p \in Instances, calls[p] = <<>> PROVE DOMAIN calls[p] = {}
  BY QueueType, EmptySeq

LEMMA BootAlone ==
  ASSUME AloneIInv, NEW p \in Instances, Boot(p)
  PROVE  calls[p] = <<>> /\ Alone(p)'
<1>1. TypeOK /\ calls[p] = <<>> /\ ~leader[p]
  BY DEF AloneIInv, Boot
<1>2. Len(calls[p]) = 0
  BY <1>1, EmptySeq
<1>3. DOMAIN calls'[p] = 1..1 /\ calls'[p][1] = Command("acquire")
  BY <1>1, <1>2, SendEffect DEF Boot
<1>4. timer'[p] = 0 /\ ~leader'[p]
  BY <1>1 DEF Boot, TypeOK
<1> QED
  BY <1>1, <1>3, <1>4 DEF Alone, Command, NextOp

LEMMA StepAlone ==
  ASSUME Settling, AloneIInv, TypeOK', NEW p \in Instances, phase'[p] = "up",
         \/ Boot(p) \/ TimerFires(p) \/ StopBegins(p) \/ Release(p) \/ Crash(p)
         \/ Execute(p) \/ Break(p) \/ Answer(p)
  PROVE  Alone(p)'
<1>1. TypeOK /\ TypeOK'
  BY DEF AloneIInv
<1>2. /\ ~StopBegins(p) /\ ~Release(p) /\ ~Crash(p)
      /\ Execute(p) \/ Break(p) \/ Answer(p) => p \in Up
  BY <1>1 DEF TypeOK, StopBegins, Release, Crash, Execute, Break, Answer, Up
<1>3. CASE Execute(p)
  <2>1. PICK i \in DOMAIN calls[p], st \in {"ok", "no"} :
          /\ Settle(p, i, st) /\ UNCHANGED <<leader, phase, timer, faults>>
          /\ calls[p][i].op = "acquire" /\ st = "ok" => key' = p /\ ttl' = LeaseTtl
    BY <1>1, <1>3, ExecuteRuns
  <2> QED
    BY <1>2, <1>3, <2>1, SettledAlone
<1>4. CASE Break(p)
  <2>1. PICK i \in DOMAIN calls[p], st \in {"sent", "error"} : Settle(p, i, st)
    BY <1>4 DEF Break
  <2> QED
    BY <1>2, <1>4, <2>1, SettledAlone DEF Break
<1>5. CASE Answer(p)
  <2>1. calls'[p] = <<>>
    BY <1>2, <1>5, AnswerAlone
  <2>2. DOMAIN calls'[p] = {}
    BY <2>1
  <2> QED
    BY <2>2 DEF Alone
<1> QED
  BY <1>2, <1>3, <1>4, <1>5, BootAlone, TimerAlone

LEMMA AloneStep ==
  ASSUME Settling, AloneIInv, [Next]_vars
  PROVE  AloneIInv'
<1>1. TypeOK /\ TypeOK'
  BY NextType DEF AloneIInv
<1>2. ASSUME NEW q \in Instances, phase'[q] = "up" PROVE Alone(q)'
  <2>1. ASSUME NEW p \in Instances,
               \/ Boot(p) \/ TimerFires(p) \/ StopBegins(p) \/ Release(p) \/ Crash(p)
               \/ Execute(p) \/ Break(p) \/ Answer(p)
        PROVE  Alone(q)'
    <3>1. CASE p = q
      BY <1>1, <1>2, <2>1, <3>1, StepAlone
    <3>2. CASE p # q
      <4>1. phase[q] = "up" /\ Alone(q)
        BY <1>1, <1>2, <2>1, <3>2, OthersUntouched DEF AloneIInv, Up
      <4> QED
        BY <1>1, <2>1, <3>2, <4>1, OthersUntouched, StillAlone
    <3> QED
      BY <3>1, <3>2
  <2>2. CASE Tick
    BY <1>1, <1>2, <2>2, TickAlone DEF Tick, Up
  <2>3. CASE UNCHANGED vars
    BY <1>2, <2>3, StillAlone DEF vars, redis, AloneIInv, Up
  <2> QED
    BY <2>1, <2>2, <2>3 DEF Next, Step
<1>3. \A q \in Instances : phase'[q] = "new" => ~leader'[q] /\ calls'[q] = <<>>
  BY <1>1, NewStaysNew DEF AloneIInv
<1> QED
  BY <1>1, <1>2, <1>3 DEF AloneIInv, Up


-------------------------------------------------------------------------------

(* How long it takes until somebody leads.  Gone is the longest that what  *)
(* is left of the last leader can stand in the way: a command under way,   *)
(* then the TTL that it set.  Tried is when the timers have fired after.   *)
Gone  == MaxRtt + LeaseTtl
Tried == Gone + RenewInterval + MaxLag

Asks(p)  == \E i \in DOMAIN calls[p] : calls[p][i].st = "sent"

\* What an instance left behind is older than the gap.
LeftBehind(p) ==
  \A i \in DOMAIN calls[p] :
    calls[p][i].st = "sent" /\ calls[p][i].op # "release" => gap <= calls[p][i].age

\* A lease that nobody leads with is running out, or its owner is about to know.
Taken ==
  \/ gap + ttl <= Gone
  \/ /\ key \in Up
     /\ \E i \in DOMAIN calls[key] :
          /\ calls[key][i].op = "acquire" /\ calls[key][i].st = "ok"
          /\ gap <= Tried + MaxRtt + calls[key][i].age

\* While nobody has the lease, every timer is running, and once they have fired
\* somebody is asking.
Waited == \A p \in Up : Asks(p) \/ gap <= Gone + timer[p]
Asked ==
  gap > Tried =>
    \E p \in Up : \E i \in DOMAIN calls[p] :
      calls[p][i].op = "acquire" /\ calls[p][i].st = "sent" /\ gap <= Tried + calls[p][i].age

Gap ==
  /\ gap \in Nat
  /\ Led => gap = 0
  /\ \A p \in Instances \ Up : LeftBehind(p)
  /\ ~Led /\ key # None => Taken
  /\ ~Led /\ key = None => Waited /\ Asked

FailoverIInv == AloneIInv /\ Gap

LEMMA Bounds ==
  ASSUME TypeOK
  PROVE  /\ MaxRtt \in Nat /\ LeaseTtl \in Nat /\ RenewInterval \in Nat /\ MaxLag \in Nat
         /\ Gone \in Nat /\ Tried \in Nat /\ ttl \in Nat /\ ttl <= LeaseTtl /\ None \notin Instances
         /\ \A p \in Instances :
              /\ timer[p] \in Nat /\ timer[p] <= RenewInterval + MaxLag
              /\ \A i \in DOMAIN calls[p] : calls[p][i].age \in Nat /\ calls[p][i].age <= MaxRtt
<1>1. \A p \in Instances : \A i \in DOMAIN calls[p] : calls[p][i].age \in 0..MaxRtt
  BY QueueType DEF Commands
<1> QED
  BY <1>1, LeaseAssumption DEF TypeOK, Gone, Tried

\* The bound that is checked follows.
LEMMA GapIsBounded == ASSUME FailoverIInv PROVE GapBounded
<1>1. TypeOK /\ gap \in Nat
  BY DEF FailoverIInv, AloneIInv, Gap
<1>2. GapLimit = Tried + 2 * MaxRtt /\ GapLimit \in Nat
  BY <1>1, Bounds DEF GapLimit, Tried, Gone
<1>3. CASE Led
  BY <1>1, <1>2, <1>3, Bounds DEF FailoverIInv, Gap, GapBounded
<1>4. CASE ~Led /\ key # None
  <2>1. Taken
    BY <1>4 DEF FailoverIInv, Gap
  <2>2. CASE gap + ttl <= Gone
    BY <1>1, <1>2, <2>2, Bounds DEF Tried, GapBounded
  <2>3. CASE key \in Up /\ ~(gap + ttl <= Gone)
    <3>1. PICK i \in DOMAIN calls[key] : gap <= Tried + MaxRtt + calls[key][i].age
      BY <2>1, <2>3 DEF Taken
    <3>2. calls[key][i].age \in Nat /\ calls[key][i].age <= MaxRtt
      BY <1>1, <2>3, Bounds DEF Up
    <3> QED
      BY <1>1, <1>2, <3>1, <3>2, Bounds DEF GapBounded
  <2> QED
    BY <2>1, <2>2, <2>3 DEF Taken
<1>5. CASE ~Led /\ key = None
  <2>1. CASE gap > Tried
    <3>1. PICK p \in Up : \E i \in DOMAIN calls[p] : gap <= Tried + calls[p][i].age
      BY <1>5, <2>1 DEF FailoverIInv, Gap, Asked
    <3>2. PICK i \in DOMAIN calls[p] : gap <= Tried + calls[p][i].age
      BY <3>1
    <3>3. calls[p][i].age \in Nat /\ calls[p][i].age <= MaxRtt
      BY <1>1, Bounds DEF Up
    <3> QED
      BY <1>1, <1>2, <3>2, <3>3, Bounds DEF GapBounded
  <2> QED
    BY <1>1, <1>2, <2>1, Bounds DEF GapBounded
<1> QED
  BY <1>3, <1>4, <1>5

\* The count starts again.
LEMMA GapZero == ASSUME TypeOK', gap' = 0 PROVE Gap'
<1>0. MaxRtt \in Nat /\ LeaseTtl \in Nat /\ RenewInterval \in Nat /\ MaxLag \in Nat
  BY LeaseAssumption
<1>1. ttl' \in 0..LeaseTtl
  BY DEF TypeOK
<1>2. \A p \in Instances : timer'[p] \in Nat
  BY LeaseAssumption DEF TypeOK
<1>3. \A p \in Instances : \A i \in DOMAIN calls'[p] : calls'[p][i].age \in Nat
  <2> SUFFICES ASSUME NEW p \in Instances, NEW i \in DOMAIN calls'[p]
               PROVE  calls'[p][i].age \in Nat
    OBVIOUS
  <2>1. calls'[p] \in Seq(Commands)
    BY DEF TypeOK
  <2>2. calls'[p][i] \in Commands
    BY <2>1, LenProperties, ElementOfSeq
  <2> QED
    BY <2>2, LeaseAssumption DEF Commands
<1>4. \A p \in Instances : LeftBehind(p)'
  BY <1>3 DEF LeftBehind
<1>5. Taken'
  <2>1. \A t \in 0..LeaseTtl : 0 + t <= MaxRtt + LeaseTtl
    BY <1>0
  <2> QED
    BY <1>1, <2>1 DEF Taken, Gone
<1>6. Asked'
  <2>1. ~(0 > MaxRtt + LeaseTtl + RenewInterval + MaxLag)
    BY <1>0
  <2> QED
    BY <2>1 DEF Asked, Tried, Gone
<1>7. Waited'
  <2>1. \A t \in Nat : 0 <= MaxRtt + LeaseTtl + t
    BY <1>0
  <2> QED
    BY <1>2, <2>1 DEF Waited, Up, Gone
<1> QED
  BY <1>4, <1>5, <1>6, <1>7 DEF Gap

\* A step of an instance that was waiting for nothing, or was not running, and is
\* now asking, or not running: the lease and the others are as they were.
LEMMA GapStands ==
  ASSUME FailoverIInv, ~Led, gap' = gap, UNCHANGED redis, ~Led', NEW p \in Instances,
         \A q \in Instances : q # p => /\ calls'[q] = calls[q] /\ timer'[q] = timer[q]
                                       /\ phase'[q] = phase[q],
         p \in Up => calls[p] = <<>>,
         p \in Up' => Asks(p)', p \notin Up' => LeftBehind(p)'
  PROVE  Gap'
<1>1. TypeOK /\ gap \in Nat
  BY DEF FailoverIInv, AloneIInv, Gap
<1>2. \A q \in Instances : q # p => (q \in Up' <=> q \in Up)
  BY DEF Up
<1>3. \A q \in Up : (\E i \in DOMAIN calls[q] : TRUE) => q # p /\ q \in Up' /\ q \in Instances
  BY <1>1, <1>2, NothingWaits DEF Up
<1>4. \A q \in Instances \ Up' : LeftBehind(q)'
  BY <1>2 DEF FailoverIInv, Gap, LeftBehind
<1>5. ASSUME key' # None PROVE Taken'
  <2>1. Taken /\ key' = key /\ ttl' = ttl
    BY <1>5 DEF FailoverIInv, Gap, redis
  <2> QED
    BY <2>1, <1>3 DEF Taken
<1>6. ASSUME key' = None PROVE Waited' /\ Asked'
  <2>1. Waited /\ Asked
    BY <1>6 DEF FailoverIInv, Gap, redis
  <2>2. Waited'
    <3> SUFFICES ASSUME NEW q \in Up', ~Asks(q)' PROVE gap' <= Gone + timer'[q]
      BY DEF Waited
    <3>1. q \in Instances /\ q # p
      BY DEF Up
    <3> QED
      BY <2>1, <3>1, <1>2 DEF Waited, Asks
  <2>3. Asked'
    BY <2>1, <1>3 DEF Asked
  <2> QED
    BY <2>2, <2>3
<1> QED
  BY <1>1, <1>4, <1>5, <1>6 DEF Gap


\* Redis runs a command.  One that was left behind has been on its way for as
\* long as the count; one of an instance that runs is a candidate's.
LEMMA RunGap ==
  ASSUME Settling, FailoverIInv, ~Led, ~Led', gap' = gap, NEW p \in Instances, Execute(p)
  PROVE  Gap'
<1>0. TypeOK /\ gap \in Nat /\ None \notin Instances /\ AloneIInv
  BY Bounds DEF FailoverIInv, AloneIInv, Gap
<1>1. PICK i \in DOMAIN calls[p], st \in {"ok", "no"} :
           /\ calls[p][i].st = "sent" /\ Settle(p, i, st)
           /\ UNCHANGED <<leader, phase, timer, faults>>
           /\ \/ st = "no" /\ UNCHANGED redis /\ (calls[p][i].op = "acquire" => key # None)
              \/ /\ st = "ok" /\ calls[p][i].op = "acquire" /\ key = None
                 /\ key' = p /\ ttl' = LeaseTtl
              \/ /\ st = "ok" /\ calls[p][i].op = "renew" /\ key = p
                 /\ key' = p /\ ttl' = LeaseTtl
              \/ /\ st = "ok" /\ calls[p][i].op = "release" /\ key = p
                 /\ key' = None /\ ttl' = 0
  BY <1>0, ExecuteRuns
<1>2. /\ DOMAIN calls'[p] = DOMAIN calls[p]
      /\ \A j \in DOMAIN calls[p] : j # i => calls'[p][j] = calls[p][j]
      /\ calls'[p][i].op = calls[p][i].op /\ calls'[p][i].age = calls[p][i].age
      /\ calls'[p][i].st = st
      /\ \A q \in Instances : q # p => calls'[q] = calls[q]
  BY <1>0, <1>1, SettleEffect
<1>3. Up' = Up /\ timer' = timer /\ phase' = phase
  BY <1>1 DEF Up
<1>4. calls[p][i].age \in Nat /\ calls[p][i].age <= MaxRtt
  BY <1>0, Bounds
<1>5. p \in Up => calls[p][i].op = "acquire" /\ \A j \in DOMAIN calls[p] : j = i
  BY <1>0 DEF AloneIInv, Alone, NextOp, Led
<1>6. p \notin Up /\ calls[p][i].op # "release" => gap <= MaxRtt
  <2>1. ASSUME p \notin Up, calls[p][i].op # "release" PROVE gap <= calls[p][i].age
    BY <1>1, <2>1 DEF FailoverIInv, Gap, LeftBehind
  <2> QED
    BY <2>1, <1>0, <1>4, Bounds
<1>7. \A q \in Instances \ Up' : LeftBehind(q)'
  <2> SUFFICES ASSUME NEW q \in Instances \ Up, NEW j \in DOMAIN calls'[q],
                      calls'[q][j].st = "sent", calls'[q][j].op # "release"
               PROVE  gap <= calls'[q][j].age
    BY <1>3 DEF LeftBehind
  <2>1. calls'[q][j] = calls[q][j] /\ j \in DOMAIN calls[q]
    BY <1>1, <1>2
  <2> QED
    BY <2>1 DEF FailoverIInv, Gap, LeftBehind
<1>8. CASE st = "no" /\ UNCHANGED redis /\ (calls[p][i].op = "acquire" => key # None)
  <2>1. ASSUME key # None PROVE Taken'
    <3>1. Taken /\ key' = key /\ ttl' = ttl
      BY <2>1, <1>8 DEF FailoverIInv, Gap, redis
    <3>2. ASSUME key \in Up, NEW j \in DOMAIN calls[key], calls[key][j].st = "ok"
          PROVE  calls'[key][j] = calls[key][j] /\ j \in DOMAIN calls'[key]
      BY <1>1, <1>2, <3>2 DEF Up
    <3> QED
      BY <3>1, <3>2, <1>3 DEF Taken
  <2>2. ASSUME key = None PROVE Waited' /\ Asked'
    <3>1. Waited /\ Asked /\ p \notin Up
      BY <2>2, <1>5, <1>8 DEF FailoverIInv, Gap
    <3>2. \A q \in Up : q # p /\ q \in Instances /\ calls'[q] = calls[q]
      BY <3>1, <1>2 DEF Up
    <3>3. Waited'
      BY <3>1, <3>2, <1>3 DEF Waited, Asks
    <3>4. Asked'
      BY <3>1, <3>2, <1>3 DEF Asked
    <3> QED
      BY <3>3, <3>4
  <2> QED
    BY <1>0, <1>7, <1>8, <2>1, <2>2 DEF Gap, redis
<1>9. CASE st = "ok" /\ calls[p][i].op = "acquire" /\ key = None /\ key' = p /\ ttl' = LeaseTtl
  <2>1. CASE p \notin Up
    <3>1. gap' + ttl' <= Gone
      BY <1>0, <1>6, <1>9, <2>1, Bounds DEF Gone
    <3> QED
      BY <1>0, <1>7, <1>9, <3>1 DEF Gap, Taken
  <2>2. CASE p \in Up
    <3>1. gap <= Tried + MaxRtt
      <4>1. CASE gap > Tried
        <5>1. PICK q \in Up : \E j \in DOMAIN calls[q] : gap <= Tried + calls[q][j].age
          BY <1>9, <4>1 DEF FailoverIInv, Gap, Asked
        <5>2. PICK j \in DOMAIN calls[q] : gap <= Tried + calls[q][j].age
          BY <5>1
        <5>3. calls[q][j].age \in Nat /\ calls[q][j].age <= MaxRtt
          BY <1>0, Bounds DEF Up
        <5> QED
          BY <1>0, <5>2, <5>3, Bounds
      <4> QED
        BY <1>0, <4>1, Bounds
    <3>2. gap <= Tried + MaxRtt + calls[p][i].age
      BY <1>0, <1>4, <3>1, Bounds
    <3>3. Taken'
      BY <1>2, <1>3, <1>9, <2>2, <3>2 DEF Taken, Tried, Gone
    <3> QED
      BY <1>0, <1>7, <1>9, <3>3 DEF Gap
  <2> QED
    BY <2>1, <2>2
<1>10. CASE st = "ok" /\ calls[p][i].op = "renew" /\ key = p /\ key' = p /\ ttl' = LeaseTtl
  <2>1. gap' + ttl' <= Gone
    BY <1>0, <1>5, <1>6, <1>10, Bounds DEF Gone
  <2> QED
    BY <1>0, <1>7, <1>10, <2>1 DEF Gap, Taken
<1>11. CASE st = "ok" /\ calls[p][i].op = "release" /\ key = p /\ key' = None /\ ttl' = 0
  <2>1. Taken /\ p \notin Up
    BY <1>0, <1>5, <1>11 DEF FailoverIInv, Gap
  <2>2. gap <= Gone
    BY <2>1, <1>0, <1>11, Bounds DEF Taken
  <2>3. Waited'
    <3> SUFFICES ASSUME NEW q \in Up PROVE gap <= Gone + timer[q]
      BY <1>3 DEF Waited, Gone
    <3> QED
      BY <1>0, <2>2, Bounds DEF Up
  <2>4. ~(gap > Tried)
    BY <1>0, <2>2, Bounds DEF Tried
  <2>5. Asked'
    BY <2>4 DEF Asked, Tried, Gone
  <2> QED
    BY <1>0, <1>7, <1>11, <2>3, <2>5 DEF Gap
<1> QED
  BY <1>1, <1>8, <1>9, <1>10, <1>11

\* An instance reads an answer: a candidate that is still one was refused.
LEMMA ReadGap ==
  ASSUME Settling, FailoverIInv, ~Led, ~Led', gap' = gap, NEW p \in Instances, Answer(p)
  PROVE  Gap'
<1>0. TypeOK /\ gap \in Nat /\ None \notin Instances /\ AloneIInv
  BY Bounds DEF FailoverIInv, AloneIInv, Gap
<1>1. /\ \A q \in Instances : q # p => /\ calls'[q] = calls[q] /\ timer'[q] = timer[q]
                                       /\ phase'[q] = phase[q]
      /\ Up' = Up /\ timer' = timer /\ UNCHANGED redis
  BY <1>0 DEF Answer, TypeOK, Up
<1>2. CASE p \notin Up
  <2>1. LeftBehind(p)'
    <3> SUFFICES ASSUME NEW j \in DOMAIN calls'[p],
                        calls'[p][j].st = "sent", calls'[p][j].op # "release"
                 PROVE  gap <= calls'[p][j].age
      BY DEF LeftBehind
    <3>1. /\ Len(calls[p]) \in Nat \ {0} /\ DOMAIN calls[p] = 1..Len(calls[p])
          /\ DOMAIN calls'[p] = 1..(Len(calls[p]) - 1)
          /\ calls'[p][j] = calls[p][j + 1]
      BY <1>0, AnswerEffect, QueueType DEF Answer
    <3>2. j + 1 \in DOMAIN calls[p]
      BY <3>1
    <3> QED
      BY <1>2, <3>1, <3>2 DEF FailoverIInv, Gap, LeftBehind
  <2> QED
    BY <1>1, <1>2, <2>1, GapStands
<1>3. CASE p \in Up
  <2>1. DOMAIN calls[p] = {1} /\ Head(calls[p]) = calls[p][1] /\ calls'[p] = <<>>
    BY <1>0, <1>3, AnswerAlone
  <2>2. calls[p][1].op = "acquire"
    BY <1>0, <1>3, <2>1 DEF AloneIInv, Alone, NextOp, Led
  <2>3. calls[p][1].st # "sent" /\ calls[p][1].st # "ok"
    <3>1. /\ calls[p][1].st # "sent"
          /\ leader'[p] = (phase[p] # "crashed" /\ Believes(p, "acquire", calls[p][1].st))
      BY <1>0, <2>1, <2>2 DEF Answer, TypeOK
    <3>2. ~leader'[p] /\ phase[p] # "crashed"
      BY <1>1, <1>3 DEF Led, Up
    <3> QED
      BY <3>1, <3>2 DEF Believes
  <2>4. \A q \in Up : q # p => q \in Instances /\ calls'[q] = calls[q]
    BY <1>1 DEF Up
  <2>5. \A q \in Instances \ Up' : LeftBehind(q)'
    BY <1>1, <1>3 DEF FailoverIInv, Gap, LeftBehind
  <2>6. ASSUME key # None PROVE Taken'
    <3>1. Taken /\ key' = key /\ ttl' = ttl
      BY <2>6, <1>1 DEF FailoverIInv, Gap, redis
    <3>2. ASSUME key \in Up, NEW j \in DOMAIN calls[key], calls[key][j].st = "ok" PROVE key # p
      BY <3>2, <2>1, <2>3
    <3> QED
      BY <3>1, <3>2, <2>4, <1>1 DEF Taken
  <2>7. ASSUME key = None PROVE Waited' /\ Asked'
    <3>1. Waited /\ Asked
      BY <2>7 DEF FailoverIInv, Gap
    <3>2. ~Asks(p)
      BY <2>1, <2>3 DEF Asks
    <3>3. Waited'
      <4> SUFFICES ASSUME NEW q \in Up, ~Asks(q)' PROVE gap <= Gone + timer[q]
        BY <1>1 DEF Waited, Gone
      <4>1. ~Asks(q)
        BY <2>4, <3>2 DEF Asks
      <4> QED
        BY <3>1, <4>1 DEF Waited
    <3>4. ASSUME NEW q \in Up, NEW j \in DOMAIN calls[q], calls[q][j].st = "sent" PROVE q # p
      BY <3>4, <3>2 DEF Asks
    <3>5. Asked'
      BY <3>1, <3>4, <2>4, <1>1 DEF Asked
    <3> QED
      BY <3>3, <3>5
  <2> QED
    BY <1>0, <1>1, <2>5, <2>6, <2>7 DEF Gap, redis
<1> QED
  BY <1>2, <1>3


\* A step that does not start the count again.
LEMMA StepGap ==
  ASSUME Settling, FailoverIInv, AloneIInv', ~Led, ~Led', gap' = gap, faults' = faults,
         NEW p \in Instances, p \in Up /\ p \notin Up' => ~Claims(p),
         \/ Boot(p) \/ TimerFires(p) \/ StopBegins(p) \/ Release(p) \/ Crash(p)
         \/ Execute(p) \/ Break(p) \/ Answer(p)
  PROVE  Gap'
<1>0. TypeOK /\ TypeOK' /\ AloneIInv
  BY DEF FailoverIInv, AloneIInv
<1>1. \A q \in Instances : q # p => /\ calls'[q] = calls[q] /\ timer'[q] = timer[q]
                                    /\ phase'[q] = phase[q]
  BY <1>0, OthersUntouched
<1>2. /\ calls \in [Instances -> Seq(Commands)] /\ phase \in [Instances -> Phases]
  BY <1>0 DEF TypeOK
<1>3. CASE Boot(p)
  <2>1. calls[p] = <<>> /\ Len(calls[p]) = 0
    BY <1>0, <1>3, BootAlone, EmptySeq
  <2>2. DOMAIN calls'[p] = 1..1 /\ calls'[p][1] = Command("acquire")
    BY <1>0, <1>3, <2>1, SendEffect DEF Boot
  <2>3. Asks(p)' /\ p \in Up'
    BY <1>2, <1>3, <2>2 DEF Asks, Command, Boot, Up
  <2> QED
    BY <1>1, <1>3, <2>1, <2>3, GapStands DEF Boot
<1>4. CASE TimerFires(p)
  <2>1. calls[p] = <<>> /\ Len(calls[p]) = 0
    BY <1>0, <1>4, TimerAlone, EmptySeq
  <2>2. DOMAIN calls'[p] = 1..1 /\ calls'[p][1] = Command(NextOp(p))
    BY <1>0, <1>4, <2>1, SendEffect DEF TimerFires, NextOp
  <2>3. Asks(p)' /\ p \in Up'
    BY <1>4, <2>2 DEF Asks, Command, TimerFires, Up
  <2> QED
    BY <1>1, <1>4, <2>1, <2>3, GapStands DEF TimerFires
<1>5. CASE StopBegins(p)
  <2>1. p \in Up /\ p \notin Up'
    BY <1>2, <1>5 DEF StopBegins, Up
  <2>2. calls[p] = <<>> /\ calls'[p] = calls[p]
    BY <1>5, <2>1 DEF Claims, StopBegins
  <2>3. LeftBehind(p)'
    BY <1>0, <2>2, NothingWaits DEF LeftBehind
  <2> QED
    BY <1>1, <1>5, <2>1, <2>2, <2>3, GapStands DEF StopBegins
<1>6. CASE Release(p)
  <2>1. p \notin Up /\ p \notin Up'
    BY <1>2, <1>6 DEF Release, Up
  <2>2. LeftBehind(p)
    BY <2>1 DEF FailoverIInv, Gap
  <2>3. LeftBehind(p)'
    <3>1. CASE calls' = calls
      BY <2>2, <3>1 DEF LeftBehind
    <3>2. CASE Send(p, "release")
      <4>1. /\ DOMAIN calls'[p] = 1..(Len(calls[p]) + 1)
            /\ \A j \in DOMAIN calls[p] : calls'[p][j] = calls[p][j]
            /\ calls'[p][Len(calls[p]) + 1] = Command("release")
        BY <1>0, <3>2, SendEffect
      <4>2. DOMAIN calls[p] = 1..Len(calls[p]) /\ Len(calls[p]) \in Nat
        BY <1>0, QueueType
      <4>3. \A j \in DOMAIN calls'[p] : j \in DOMAIN calls[p] \/ calls'[p][j].op = "release"
        BY <4>1, <4>2 DEF Command
      <4> QED
        BY <2>2, <4>1, <4>3 DEF LeftBehind
    <3> QED
      BY <1>6, <3>1, <3>2 DEF Release
  <2> QED
    BY <1>1, <1>6, <2>1, <2>3, GapStands DEF Release
<1>7. CASE Crash(p)
  <2>1. p \notin Up'
    BY <1>2, <1>7 DEF Crash, Up
  <2>2. p \in Up => calls[p] = <<>>
    BY <2>1 DEF Claims
  <2>3. calls'[p] = calls[p] \/ calls'[p] = <<>>
    BY <1>2, <1>7 DEF Crash
  <2>4. LeftBehind(p)'
    <3>1. CASE calls'[p] = <<>>
      BY <1>0, <3>1, EmptySeq DEF LeftBehind
    <3>2. CASE p \notin Up /\ calls'[p] = calls[p]
      BY <3>2 DEF LeftBehind, FailoverIInv, Gap
    <3> QED
      BY <2>2, <2>3, <3>1, <3>2
  <2> QED
    BY <1>1, <1>7, <2>1, <2>2, <2>4, GapStands DEF Crash
<1>8. ~Break(p)
  BY <1>0 DEF Break, TypeOK
<1> QED
  BY <1>3, <1>4, <1>5, <1>6, <1>7, <1>8, RunGap, ReadGap

\* Time passes and nobody leads: what stands in the way gets older as well.
LEMMA TickGap ==
  ASSUME Settling, FailoverIInv, AloneIInv', ~Led, Up # {}, gap' = gap + 1, Tick
  PROVE  Gap'
<1>0. /\ TypeOK /\ AloneIInv /\ gap \in Nat
      /\ MaxRtt \in Nat /\ LeaseTtl \in Nat /\ RenewInterval \in Nat /\ MaxLag \in Nat
      /\ Gone \in Nat /\ Tried \in Nat /\ ttl \in Nat
  BY Bounds DEF FailoverIInv, AloneIInv, Gap
<1>1. Up' = Up /\ ~Led'
  BY DEF Tick, Up, Led
<1>2. \A q \in Instances :
        /\ DOMAIN calls'[q] = DOMAIN calls[q]
        /\ \A i \in DOMAIN calls[q] : /\ calls'[q][i].op = calls[q][i].op
                                      /\ calls'[q][i].st = calls[q][i].st
                                      /\ calls'[q][i].age = calls[q][i].age + 1
                                      /\ calls[q][i].age \in Nat /\ calls[q][i].age < MaxRtt
  BY <1>0, TickEffect, Bounds
<1>3. \A q \in Up : /\ q \in Instances /\ timer'[q] = timer[q] + 1 /\ timer[q] \in Nat
                    /\ timer[q] < RenewInterval + MaxLag
  <2> SUFFICES ASSUME NEW q \in Up
               PROVE  /\ q \in Instances /\ timer'[q] = timer[q] + 1 /\ timer[q] \in Nat
                      /\ timer[q] < RenewInterval + MaxLag
    OBVIOUS
  <2>1. q \in Instances /\ timer'[q] = timer[q] + 1 /\ timer[q] # RenewInterval + MaxLag
    BY DEF Tick, Due, Up
  <2>2. timer[q] \in Nat /\ timer[q] <= RenewInterval + MaxLag
    BY <1>0, <2>1, Bounds
  <2> QED
    BY <1>0, <2>1, <2>2
<1>4. \A q \in Instances \ Up' : LeftBehind(q)'
  <2> SUFFICES ASSUME NEW q \in Instances \ Up, NEW j \in DOMAIN calls'[q],
                      calls'[q][j].st = "sent", calls'[q][j].op # "release"
               PROVE  gap' <= calls'[q][j].age
    BY <1>1 DEF LeftBehind
  <2>1. gap <= calls[q][j].age
    BY <1>2 DEF FailoverIInv, Gap, LeftBehind
  <2> QED
    BY <1>0, <1>2, <2>1
<1>5. CASE key # None
  <2>1. Taken
    BY <1>5 DEF FailoverIInv, Gap
  <2>2. ASSUME key \in Up, NEW i \in DOMAIN calls[key],
               calls[key][i].op = "acquire", calls[key][i].st = "ok"
        PROVE  ttl > 1
    <3>1. ttl + timer[key] >= LeaseTtl /\ calls[key][i].age = timer[key]
      BY <1>0, <2>2 DEF AloneIInv, Alone
    <3>2. timer[key] \in Nat /\ timer[key] < MaxRtt
      BY <1>2, <1>3, <2>2, <3>1
    <3>3. MaxRtt < LeaseTtl
      BY DEF Settling
    <3> QED
      BY <1>0, <3>1, <3>2, <3>3
  <2>3. CASE ttl > 1
    <3>1. key' = key /\ ttl' = ttl - 1
      BY <1>0, <2>3 DEF Tick
    <3>2. Taken'
      <4>1. CASE gap + ttl <= Gone
        <5>1. gap' + ttl' <= Gone
          BY <1>0, <3>1, <4>1, <2>3
        <5> QED
          BY <5>1 DEF Taken, Gone
      <4>2. ASSUME key \in Up, NEW i \in DOMAIN calls[key],
                   calls[key][i].op = "acquire", calls[key][i].st = "ok",
                   gap <= Tried + MaxRtt + calls[key][i].age
            PROVE  Taken'
        <5>1. /\ i \in DOMAIN calls'[key] /\ calls'[key][i].op = "acquire"
              /\ calls'[key][i].st = "ok" /\ calls[key][i].age \in Nat
              /\ calls'[key][i].age = calls[key][i].age + 1
          BY <1>2, <1>3, <4>2
        <5>2. gap' <= Tried + MaxRtt + calls'[key][i].age
          BY <1>0, <4>2, <5>1
        <5> QED
          BY <1>1, <3>1, <4>2, <5>1, <5>2 DEF Taken, Tried, Gone
      <4> QED
        BY <2>1, <4>1, <4>2 DEF Taken
    <3> QED
      BY <1>0, <1>1, <1>4, <1>5, <3>1, <3>2 DEF Gap
  <2>4. CASE ttl <= 1
    <3>1. gap + ttl <= Gone /\ key' = None /\ ttl = 1
      <4>1. ttl # 0
        BY <1>0, <1>5 DEF TypeOK
      <4> QED
        BY <1>0, <2>1, <2>2, <2>4, <4>1 DEF Taken, Tick
    <3>2. gap' <= Gone
      BY <1>0, <3>1
    <3>3. Waited'
      <4> SUFFICES ASSUME NEW q \in Up PROVE gap' <= Gone + timer'[q]
        BY <1>1 DEF Waited, Gone
      <4> QED
        BY <1>0, <1>3, <3>2
    <3>4. ~(gap' > Tried)
      BY <1>0, <3>2 DEF Tried
    <3>5. Asked'
      BY <3>4 DEF Asked, Tried, Gone
    <3> QED
      BY <1>0, <1>1, <1>4, <3>1, <3>3, <3>5 DEF Gap
  <2> QED
    BY <1>0, <2>3, <2>4
<1>6. CASE key = None
  <2>1. Waited /\ Asked /\ key' = None
    BY <1>6 DEF FailoverIInv, Gap, Tick
  <2>2. Waited'
    <3> SUFFICES ASSUME NEW q \in Up, ~Asks(q)' PROVE gap' <= Gone + timer'[q]
      BY <1>1 DEF Waited, Gone
    <3>1. ~Asks(q)
      BY <1>2, <1>3 DEF Asks
    <3>2. gap <= Gone + timer[q]
      BY <2>1, <3>1 DEF Waited
    <3> QED
      BY <1>0, <1>3, <3>2
  <2>3. ASSUME gap' > Tried
        PROVE  \E q \in Up : \E i \in DOMAIN calls[q] :
                 /\ calls[q][i].op = "acquire" /\ calls[q][i].st = "sent"
                 /\ gap <= Tried + calls[q][i].age
    <3>1. CASE gap > Tried
      BY <2>1, <3>1 DEF Asked
    <3>2. CASE gap = Tried
      <4>1. PICK q \in Up : TRUE
        OBVIOUS
      <4>2. ~(gap <= Gone + timer[q])
        BY <1>0, <1>3, <3>2 DEF Tried
      <4>3. PICK i \in DOMAIN calls[q] : calls[q][i].st = "sent"
        BY <2>1, <4>2 DEF Waited, Asks
      <4>4. calls[q][i].op = "acquire"
        BY <1>0 DEF AloneIInv, Alone, NextOp, Led
      <4>5. gap <= Tried + calls[q][i].age
        BY <1>0, <1>2, <1>3, <3>2
      <4> QED
        BY <4>3, <4>4, <4>5
    <3> QED
      BY <1>0, <2>3, <3>1, <3>2
  <2>4. Asked'
    <3> SUFFICES ASSUME gap' > Tried
                 PROVE  \E q \in Up : \E i \in DOMAIN calls'[q] :
                          /\ calls'[q][i].op = "acquire" /\ calls'[q][i].st = "sent"
                          /\ gap' <= Tried + calls'[q][i].age
      BY <1>1 DEF Asked, Tried, Gone
    <3>1. PICK q \in Up : \E i \in DOMAIN calls[q] :
                 /\ calls[q][i].op = "acquire" /\ calls[q][i].st = "sent"
                 /\ gap <= Tried + calls[q][i].age
      BY <2>3
    <3>2. PICK i \in DOMAIN calls[q] :
                 /\ calls[q][i].op = "acquire" /\ calls[q][i].st = "sent"
                 /\ gap <= Tried + calls[q][i].age
      BY <3>1
    <3>3. gap' <= Tried + calls'[q][i].age
      BY <1>0, <1>2, <1>3, <3>2
    <3> QED
      BY <1>2, <1>3, <3>2, <3>3
  <2> QED
    BY <1>0, <1>1, <1>4, <2>1, <2>2, <2>4 DEF Gap
<1> QED
  BY <1>5, <1>6

LEMMA FailoverStep ==
  ASSUME Settling, FailoverIInv, [GapNext]_<<vars, gap>>
  PROVE  FailoverIInv'
<1>0. AloneIInv /\ Gap /\ TypeOK /\ gap \in Nat
  BY DEF FailoverIInv, AloneIInv, Gap
<1>1. [Next]_vars
  BY DEF GapNext, Next
<1>2. AloneIInv' /\ TypeOK'
  BY <1>0, <1>1, AloneStep DEF AloneIInv
<1>3. ASSUME gap' = 0 PROVE Gap'
  BY <1>2, <1>3, GapZero
<1>4. ASSUME NEW p \in Instances,
             \/ Boot(p) \/ TimerFires(p) \/ StopBegins(p) \/ Release(p) \/ Crash(p)
             \/ Execute(p) \/ Break(p) \/ Answer(p),
             gap' = IF Led' \/ faults' # faults \/ \E q \in Up : q \notin Up' /\ Claims(q)
                      THEN 0 ELSE gap
      PROVE  Gap'
  <2>1. CASE gap' = 0
    BY <2>1, <1>3
  <2>2. CASE gap' # 0
    <3>1. gap' = gap /\ ~Led' /\ faults' = faults /\ (p \in Up /\ p \notin Up' => ~Claims(p))
      BY <1>4, <2>2
    <3>2. ~Led
      BY <1>0, <2>2, <3>1 DEF Gap
    <3> QED
      BY <1>2, <1>4, <3>1, <3>2, StepGap
  <2> QED
    BY <2>1, <2>2
<1>5. ASSUME Tick, gap' = CASE Up = {} \/ Led -> 0 [] gap > GapLimit -> gap [] OTHER -> gap + 1
      PROVE  Gap'
  <2>1. ~(gap > GapLimit)
    <3>1. GapLimit \in Nat
      BY <1>0, Bounds DEF GapLimit
    <3> QED
      BY <1>0, <3>1, GapIsBounded DEF GapBounded
  <2>2. CASE Up = {} \/ Led
    <3>1. gap' = 0
      BY <1>5, <2>1, <2>2
    <3> QED
      BY <3>1, <1>3
  <2>3. CASE ~(Up = {} \/ Led)
    <3>1. gap' = gap + 1
      BY <1>5, <2>1, <2>3
    <3> QED
      BY <1>2, <1>5, <2>3, <3>1, TickGap
  <2> QED
    BY <2>2, <2>3
<1>6. ASSUME UNCHANGED <<vars, gap>> PROVE Gap'
  <2>1. UNCHANGED <<key, ttl, leader, phase, timer, calls, faults, gap>>
    BY <1>6 DEF vars, redis
  <2>2. Up' = Up
    BY <2>1 DEF Up
  <2>3. Led' = Led
    BY <2>1, <2>2 DEF Led
  <2>4. \A p \in Instances : LeftBehind(p) => LeftBehind(p)'
    BY <2>1 DEF LeftBehind
  <2>5. Taken => Taken'
    BY <2>1, <2>2 DEF Taken, Tried, Gone
  <2>6. Waited => Waited'
    BY <2>1, <2>2 DEF Waited, Asks, Gone
  <2>7. Asked => Asked'
    BY <2>1, <2>2 DEF Asked, Tried, Gone
  <2> QED
    BY <1>0, <2>1, <2>2, <2>3, <2>4, <2>5, <2>6, <2>7 DEF Gap
<1>7. Gap'
  BY <1>4, <1>5, <1>6 DEF GapNext, Step
<1> QED
  BY <1>2, <1>7 DEF FailoverIInv

LEMMA FailoverInit == GapInit => FailoverIInv
<1> SUFFICES ASSUME GapInit PROVE FailoverIInv
  OBVIOUS
<1>1. TypeOK /\ Up = {}
  BY InitType DEF GapInit, Init, Up
<1>2. \A p \in Instances : LeftBehind(p)
  BY <1>1, NothingWaits DEF GapInit, Init, LeftBehind
<1>3. Waited /\ Asked /\ key = None
  BY <1>1, Bounds DEF GapInit, Init, Waited, Asked
<1> QED
  BY <1>1, <1>2, <1>3 DEF FailoverIInv, AloneIInv, Gap, GapInit, Init

(* A leader that crashed, shut down or was refused its own lease is        *)
(* replaced within GapLimit, by tryAcquire() of any instance that is up,   *)
(* when commands settle before the timer fires again and before a TTL is   *)
(* over: for any number of instances, crashes, and broken connections.     *)
THEOREM FailoverBound == ASSUME Settling PROVE GapSpec => []GapBounded
<1>1. FailoverIInv /\ [GapNext]_<<vars, gap>> => FailoverIInv'
  BY FailoverStep
<1>2. FailoverIInv => GapBounded
  BY GapIsBounded
<1> QED
  BY <1>1, <1>2, FailoverInit, PTL DEF GapSpec

=============================================================================
