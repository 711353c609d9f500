----------------------------- MODULE BeaconIngest -----------------------------
(***************************************************************************)
(* services/analyticsService.ts and routers/beaconRouter.ts in one         *)
(* process: a beacon is dropped without a word, or stored, and the first   *)
(* one stored on a UTC day has the process delete what is a year old.      *)
(*                                                                         *)
(* The filters before the limit and the validation after it come down to   *)
(* "passes" or not.  One step of the clock is what brings one token back,  *)
(* a second of the code's.                                                 *)
(***************************************************************************)
EXTENDS Naturals, FiniteSets

CONSTANTS
  Ips,            \* client addresses
  Beacons,        \* bound: beacons in the database calls at the same time
  NoBucket,       \* an address the limiter knows nothing of
  Capacity,       \* BUCKET_CAPACITY
  UtcDay,         \* a day, in steps of the clock
  LastSecond      \* bound: the last value of the clock

ASSUME BeaconAssumption ==
  /\ Capacity \in Nat \ {0} /\ UtcDay \in Nat \ {0} /\ LastSecond \in Nat
  /\ NoBucket \notin [tokens : 0..Capacity, last : 0..LastSecond]

VARIABLES
  seconds,        \* Date.now()
  bucket,         \* buckets
  lastPrune,
  lastRetentionDay,   \* 0: no day yet
  beacon          \* beacon[b]: where it waits

limiter == <<bucket, lastPrune>>
beaconVars == <<seconds, limiter, lastRetentionDay, beacon>>

\* BUCKET_IDLE_MS: as long as a refill from empty.
IdleAfter == Capacity
Today == 1 + seconds \div UtcDay
AllDays == 1..(1 + LastSecond \div UtcDay)

BeaconTypeOK ==
  /\ seconds \in 0..LastSecond
  /\ bucket \in [Ips -> [tokens : 0..Capacity, last : 0..LastSecond] \cup {NoBucket}]
  /\ lastPrune \in 0..LastSecond /\ lastRetentionDay \in {0} \cup AllDays
  /\ beacon \in [Beacons -> {"idle", "insert", "inserted", "delete"}]

BeaconInit ==
  /\ seconds = 0
  /\ bucket = [ip \in Ips |-> NoBucket] /\ lastPrune = 0
  /\ lastRetentionDay = 0
  /\ beacon = [b \in Beacons |-> "idle"]

-----------------------------------------------------------------------------
(* underRateLimit()                                                        *)

AtMost(x) == IF x < Capacity THEN x ELSE Capacity
Level(k) == IF k = NoBucket THEN Capacity ELSE AtMost(k.tokens + (seconds - k.last))

\* pruneBuckets(): at most once per idle time, those that must be full again.
HalfIdleBucket(k) == k # NoBucket /\ 2 * (seconds - k.last) >= IdleAfter  \* (mutant)
IdleBucket(k) == k # NoBucket /\ seconds - k.last >= IdleAfter
PruneDue == seconds - lastPrune >= IdleAfter
Pruned == [ip \in Ips |-> IF PruneDue /\ IdleBucket(bucket[ip]) THEN NoBucket ELSE bucket[ip]]

Touch(ip, taken) ==
  /\ bucket' = [Pruned EXCEPT ![ip] = [tokens |-> Level(@) - taken, last |-> seconds]]
  /\ lastPrune' = IF PruneDue THEN seconds ELSE lastPrune

-----------------------------------------------------------------------------
(* ingestBeacon()                                                          *)

\* Bots, foreign origins: nothing is touched.  Over the limit: only the limiter.
Limited(ip) ==
  /\ Level(Pruned[ip]) < 1 /\ Touch(ip, 0)
  /\ UNCHANGED <<seconds, lastRetentionDay, beacon>>

\* Admitted, and invalid or on its way to the database.
Admitted(b, ip) ==
  /\ beacon[b] = "idle" /\ Level(Pruned[ip]) >= 1 /\ Touch(ip, 1)
  /\ \E at \in {"idle", "insert"} : beacon' = [beacon EXCEPT ![b] = at]
  /\ UNCHANGED <<seconds, lastRetentionDay>>

\* The INSERT ran; a failed one ends the beacon.
Insert(b) ==
  /\ beacon[b] = "insert"
  /\ \E at \in {"idle", "inserted"} : beacon' = [beacon EXCEPT ![b] = at]
  /\ UNCHANGED <<seconds, limiter, lastRetentionDay>>

\* maybePruneRetention(): the day is claimed before the DELETE is sent, and stays
\* claimed when it fails.
Retain(b) ==
  /\ beacon[b] = "inserted"
  /\ IF lastRetentionDay = Today
       THEN /\ beacon' = [beacon EXCEPT ![b] = "idle"]
            /\ UNCHANGED lastRetentionDay
       ELSE /\ beacon' = [beacon EXCEPT ![b] = "delete"]
            /\ lastRetentionDay' = Today
  /\ UNCHANGED <<seconds, limiter>>

Deleted(b) ==
  /\ beacon[b] = "delete" /\ beacon' = [beacon EXCEPT ![b] = "idle"]
  /\ UNCHANGED <<seconds, limiter, lastRetentionDay>>

Second ==
  /\ seconds < LastSecond /\ seconds' = seconds + 1
  /\ UNCHANGED <<limiter, lastRetentionDay, beacon>>

BeaconNext ==
  \/ Second
  \/ \E ip \in Ips : Limited(ip) \/ \E b \in Beacons : Admitted(b, ip)
  \/ \E b \in Beacons : Insert(b) \/ Retain(b) \/ Deleted(b)

BeaconSpec == BeaconInit /\ [][BeaconNext]_beaconVars

-----------------------------------------------------------------------------
(* Properties.                                                             *)

\* Forgetting idle addresses is invisible: the limiter with its lazy refill and its
\* pruning admits and refuses like one that keeps a level for every address.
Limit == INSTANCE TokenBucket WITH level <- [ip \in Ips |-> Level(bucket[ip])]
ImplementsBucket == Limit!LSpec
=============================================================================
