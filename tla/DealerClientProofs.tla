-------------------------- MODULE DealerClientProofs --------------------------
(***************************************************************************)
(* For any number of failures, calls and playback changes: the dealer      *)
(* client's safety invariants, its rule about events, and that it          *)
(* implements DealerListener.  IInv (in DealerClient) is the inductive     *)
(* invariant.  Every way back into the loop goes through teardownSocket(), *)
(* which bumps the epoch; so Reconnected below is proved once.             *)
(***************************************************************************)
EXTENDS DealerClient, TLAPS

(* After a teardown nothing in flight is current and no socket is held.    *)
LEMMA Torn ==
  ASSUME IInv, TeardownSocket, mints' \subseteq mints, puts' \subseteq puts
  PROVE  /\ live' = {} /\ socket' = NoSocket /\ ~token' /\ ~connectionId' /\ wire' = <<>>
         /\ epoch' \in Nat /\ ~Minting'
         /\ \A m \in mints' : m.epoch < epoch'
         /\ \A p \in puts' : p.epoch < epoch'
<1>1. live' = {}
  BY DEF IInv, Sockets, TeardownSocket, CloseSocket
<1>2. epoch' = epoch + 1 /\ epoch \in Nat
  BY DEF IInv, TypeOK, TeardownSocket, BumpEpoch
<1>3. /\ \A m \in mints' : m.epoch \in Nat /\ m.epoch <= epoch
      /\ \A p \in puts' : p.epoch \in Nat /\ p.epoch <= epoch
  BY DEF IInv, TypeOK, Flights
<1>4. \A m \in mints' : m.epoch < epoch' /\ m.epoch # epoch'
  BY <1>2, <1>3
<1>5. ~Minting'
  BY <1>4 DEF Minting
<1>6. \A p \in puts' : p.epoch < epoch'
  BY <1>2, <1>3
<1>7. epoch' \in Nat
  BY <1>2
<1>8. QED
  BY <1>1, <1>4, <1>5, <1>6, <1>7 DEF TeardownSocket, NoSocket

(* A teardown that leaves one of the three resting states keeps IInv.      *)
LEMMA Rested ==
  ASSUME IInv, TeardownSocket, ClearPing, mints' \subseteq mints, puts' \subseteq puts,
         state' \in {"idle", "backoff", "credential_dead"},
         stopped' \in BOOLEAN, stopped' <=> state' = "idle",
         backoffTimer' \in BOOLEAN, backoffTimer' <=> state' = "backoff",
         backoffAttempt' \in 0..AttemptCap,
         faults' \in 0..MaxFaults, calls' \in 0..MaxCalls,
         UNCHANGED <<attempts, world>>
  PROVE  IInv'
<1>1. /\ live' = {} /\ socket' = NoSocket /\ ~token' /\ ~connectionId' /\ wire' = <<>>
      /\ epoch' \in Nat /\ ~Minting'
      /\ \A m \in mints' : m.epoch < epoch'
      /\ \A p \in puts' : p.epoch < epoch'
  BY Torn
<1>2. mints' \subseteq [id : Nat \ {NoSocket}, epoch : Nat]
  BY DEF IInv, TypeOK
<1>3. puts' \subseteq [id : Nat \ {NoSocket}, epoch : Nat, served : BOOLEAN, ver : Nat]
  BY DEF IInv, TypeOK
<1>4. TypeOK'
  <2>1. /\ token' = FALSE /\ connectionId' = FALSE /\ pingTimer' = FALSE /\ pongTimer' = FALSE
        /\ socket' \in Nat /\ wire' \in Seq(Nat) /\ state' \in States
    BY <1>1 DEF TeardownSocket, ClearPing, NoSocket, States
  <2>2. attempts' \in Nat /\ play' \in Nat /\ emitted' \in [by : Nat, ver : Nat]
    BY DEF IInv, TypeOK, world
  <2>3. QED BY <1>1, <1>2, <1>3, <2>1, <2>2 DEF TypeOK
<1>5. Shape'
  BY <1>1 DEF Shape, ClearPing
<1>6. Sockets'
  BY <1>1 DEF Sockets
<1>7. Flights'
  BY <1>1, <1>2, <1>3 DEF Flights
<1>8. QED
  BY <1>4, <1>5, <1>6, <1>7 DEF IInv

LEMMA Reconnected ==
  ASSUME IInv, ScheduleReconnect, mints' \subseteq mints, puts' \subseteq puts,
         state # "idle", state # "credential_dead",
         faults' \in 0..MaxFaults, calls' \in 0..MaxCalls,
         UNCHANGED <<attempts, world>>
  PROVE  IInv' /\ state' = "backoff"
<1>1. ~stopped
  BY DEF IInv, Shape
<1>2. /\ ClearPing /\ TeardownSocket /\ state' = "backoff" /\ backoffTimer' = TRUE
      /\ backoffAttempt' = NextAttempt /\ stopped' = stopped
  BY <1>1 DEF ScheduleReconnect, ArmBackoff
<1>3. backoffAttempt' \in 0..AttemptCap
  BY <1>2, DealerAssumption DEF IInv, TypeOK, NextAttempt
<1>4. stopped' \in BOOLEAN /\ ~stopped'
  BY <1>1, <1>2 DEF IInv, TypeOK
<1>5. QED
  BY <1>2, <1>3, <1>4, Rested

(* A promise that settles out of date disturbs nothing.                    *)
LEMMA Ignored ==
  ASSUME IInv, mints' \subseteq mints, puts' \subseteq puts,
         \A m \in mints : m.epoch = epoch => m \in mints',
         faults' \in 0..MaxFaults, calls' \in 0..MaxCalls,
         UNCHANGED <<loop, conn, live, wire, attempts, world>>
  PROVE  IInv'
<1>1. TypeOK'
  BY DEF IInv, TypeOK, loop, conn, world
<1>2. Minting' = Minting
  BY DEF Minting, loop
<1>3. Shape'
  BY <1>2 DEF IInv, Shape, loop, conn
<1>4. Sockets'
  BY DEF IInv, Sockets, loop, conn
<1>5. Flights'
  BY <1>2 DEF IInv, Flights, loop, conn
<1>6. QED
  BY <1>1, <1>3, <1>4, <1>5 DEF IInv

-------------------------------------------------------------------------------

LEMMA InitIInv == Init => IInv
<1> SUFFICES ASSUME Init PROVE IInv
  OBVIOUS
<1>1. TypeOK
  <2>1. <<>> \in Seq(Nat)
    OBVIOUS
  <2>2. wire \in Seq(Nat) /\ emitted \in [by : Nat, ver : Nat]
    BY <2>1 DEF Init, NoSocket
  <2>3. /\ stopped \in BOOLEAN /\ token \in BOOLEAN /\ connectionId \in BOOLEAN
        /\ pingTimer \in BOOLEAN /\ pongTimer \in BOOLEAN /\ backoffTimer \in BOOLEAN
    BY DEF Init
  <2>4. /\ epoch \in Nat /\ attempts \in Nat /\ play \in Nat /\ socket \in Nat
        /\ mints = {} /\ live = {} /\ puts = {} /\ state \in States
    BY DEF Init, States, NoSocket
  <2>5. /\ backoffAttempt \in 0..AttemptCap
        /\ faults \in 0..MaxFaults /\ calls \in 0..MaxCalls
    BY DealerAssumption DEF Init
  <2>6. QED
    BY <2>2, <2>3, <2>4, <2>5 DEF TypeOK
<1>2. ~Minting
  BY DEF Init, Minting
<1>3. QED
  BY <1>1, <1>2 DEF Init, IInv, Shape, Sockets, Flights

(* start() and the backoff timer begin a new attempt in the same epoch.    *)
LEMMA Connecting ==
  ASSUME IInv, Connect, state \in {"idle", "backoff", "credential_dead"},
         stopped' = FALSE, backoffTimer' = FALSE, backoffAttempt' \in 0..AttemptCap,
         faults' \in 0..MaxFaults, calls' \in 0..MaxCalls,
         UNCHANGED <<epoch, conn, live, puts, wire, world>>
  PROVE  IInv'
<1>1. ~Minting /\ socket = NoSocket
  BY DEF IInv, Shape
<1> DEFINE new == [id |-> attempts + 1, epoch |-> epoch]
<1>2. /\ attempts' \in Nat /\ new \in [id : Nat \ {NoSocket}, epoch : Nat]
      /\ mints' = mints \cup {new} /\ state' = "connecting"
  BY DEF Connect, IInv, TypeOK, NoSocket
<1>3. TypeOK'
  BY <1>2 DEF IInv, TypeOK, conn, world, States
<1>4. Minting'
  <2>1. new \in mints' /\ new.epoch = epoch'
    BY <1>2
  <2>2. QED
    BY <2>1 DEF Minting
<1>5. Shape'
  BY <1>1, <1>2, <1>4 DEF IInv, Shape, conn
<1>6. Sockets'
  BY <1>2 DEF IInv, Sockets, conn
<1>7. Flights'
  <2>1. \A m \in mints : m.epoch # epoch
    BY <1>1 DEF Minting
  <2>2. \A m, n \in mints' : m.epoch = epoch' /\ n.epoch = epoch' => m = n
    BY <1>2, <2>1
  <2>3. \A m \in mints' : m.epoch <= epoch'
    BY <1>2 DEF IInv, Flights, TypeOK
  <2>4. \A p \in puts' : p.epoch # epoch'
    BY <1>1 DEF IInv, Flights, Shape
  <2>5. \A p \in puts' : p.epoch <= epoch'
    BY DEF IInv, Flights
  <2>6. socket' = NoSocket /\ state' = "connecting"
    BY <1>1, <1>2 DEF conn
  <2>7. QED
    BY <2>2, <2>3, <2>4, <2>5, <2>6 DEF Flights
<1>8. QED
  BY <1>3, <1>5, <1>6, <1>7 DEF IInv

LEMMA StartStep == IInv /\ Start => IInv'
<1> SUFFICES ASSUME IInv, Start PROVE IInv'
  OBVIOUS
<1>1. state \in {"idle", "backoff", "credential_dead"}
  BY DEF Start, IInv, TypeOK, States
<1>2. backoffAttempt' \in 0..AttemptCap
  BY DealerAssumption DEF Start, IInv, TypeOK
<1>3. faults' \in 0..MaxFaults /\ calls' \in 0..MaxCalls
  BY DealerAssumption DEF Start, Call, IInv, TypeOK
<1>4. QED
  BY <1>1, <1>2, <1>3, Connecting DEF Start

LEMMA StopStep == IInv /\ Stop => IInv'
<1> SUFFICES ASSUME IInv, Stop PROVE IInv'
  OBVIOUS
<1>1. faults' \in 0..MaxFaults /\ calls' \in 0..MaxCalls
  BY DealerAssumption DEF Stop, Call, IInv, TypeOK
<1>2. backoffAttempt' \in 0..AttemptCap
  BY DealerAssumption DEF Stop
<1>3. QED
  BY <1>1, <1>2, Rested DEF Stop

LEMMA BackoffStep == IInv /\ BackoffFires => IInv'
<1> SUFFICES ASSUME IInv, BackoffFires PROVE IInv'
  OBVIOUS
<1>1. state = "backoff" /\ ~stopped
  BY DEF BackoffFires, IInv, Shape
<1>2. Connect
  BY <1>1 DEF BackoffFires
<1>3. stopped' = FALSE /\ backoffAttempt' \in 0..AttemptCap
  BY <1>1 DEF BackoffFires, IInv, TypeOK
<1>4. faults' \in 0..MaxFaults /\ calls' \in 0..MaxCalls
  BY DEF BackoffFires, budget, IInv, TypeOK
<1>5. QED
  BY <1>1, <1>2, <1>3, <1>4, Connecting DEF BackoffFires

(* The budget a failure leaves.                                            *)
LEMMA FaultBudget ==
  ASSUME TypeOK, Fault PROVE faults' \in 0..MaxFaults /\ calls' \in 0..MaxCalls
  BY DealerAssumption DEF Fault, TypeOK

LEMMA MintSucceedsStep ==
  ASSUME IInv, NEW m \in mints, MintSucceeds(m) PROVE IInv'
<1>0. faults' \in 0..MaxFaults /\ calls' \in 0..MaxCalls
  BY DEF MintSucceeds, budget, IInv, TypeOK
<1>1. CASE ~Current(m)
  <2>1. \A n \in mints : n.epoch = epoch => n \in mints'
    BY <1>1 DEF MintSucceeds, Current
  <2>2. mints' \subseteq mints /\ puts' \subseteq puts
    BY DEF MintSucceeds
  <2>3. UNCHANGED <<loop, conn, live, wire, attempts, world>>
    BY <1>1 DEF MintSucceeds
  <2>4. QED
    BY <1>0, <2>1, <2>2, <2>3, Ignored
<1>2. CASE Current(m)
  <2> DEFINE ws == [id |-> m.id, epoch |-> m.epoch, opened |-> FALSE]
  <2>1. Minting /\ m.epoch = epoch
    BY <1>2 DEF Minting, Current
  <2>2. socket = NoSocket /\ state = "connecting"
    BY <2>1 DEF IInv, Flights
  <2>3. live = {}
    BY <2>2 DEF IInv, Sockets, TypeOK, NoSocket
  <2>4. \A n \in mints' : n.epoch # epoch
    BY <2>1 DEF MintSucceeds, IInv, Flights
  <2>5. /\ token' = TRUE /\ socket' = m.id /\ connectionId' = FALSE /\ wire' = <<>>
        /\ live' = {ws} /\ UNCHANGED <<pingTimer, pongTimer, loop, attempts, puts, world>>
    BY <1>2, <2>3 DEF MintSucceeds, KeepToken
  <2>6. /\ m.id \in Nat \ {NoSocket} /\ m.epoch \in Nat
        /\ ws \in [id : Nat \ {NoSocket}, epoch : Nat, opened : BOOLEAN]
    BY DEF IInv, TypeOK
  <2>7. mints' \subseteq mints
    BY DEF MintSucceeds
  <2>8. TypeOK'
    <3>1. wire' \in Seq(Nat) /\ socket' \in Nat /\ token' \in BOOLEAN /\ connectionId' \in BOOLEAN
      <4>1. wire' = <<>> /\ socket' = m.id /\ token' = TRUE /\ connectionId' = FALSE
        BY <2>5
      <4>2. wire' \in Seq(Nat)
        BY <4>1
      <4>3. socket' \in Nat
        BY <2>6, <4>1
      <4>4. token' \in BOOLEAN /\ connectionId' \in BOOLEAN
        BY <4>1
      <4>5. QED
        BY <4>2, <4>3, <4>4
    <3>2. live' \subseteq [id : Nat \ {NoSocket}, epoch : Nat, opened : BOOLEAN]
      BY <2>5, <2>6
    <3>3. QED
      BY <1>0, <2>5, <2>7, <3>1, <3>2 DEF IInv, TypeOK, loop, world
  <2>9. ~Minting'
    BY <2>4, <2>5 DEF Minting, loop
  <2>10. Shape'
    <3>1. ~connectionId' /\ wire' = <<>> /\ socket' # NoSocket /\ state' = "connecting"
      BY <2>2, <2>5, <2>6 DEF loop
    <3>2. QED
      BY <2>5, <3>1 DEF IInv, Shape, loop
  <2>11. Sockets'
    BY <2>1, <2>5 DEF Sockets, loop
  <2>12. \A p \in puts' : p.epoch # epoch'
    BY <2>2, <2>5 DEF IInv, Flights, Shape, loop
  <2>13. Flights'
    BY <2>4, <2>5, <2>7, <2>9, <2>12 DEF IInv, Flights, loop
  <2>14. QED
    BY <2>8, <2>10, <2>11, <2>13 DEF IInv
<1>3. QED
  BY <1>1, <1>2

LEMMA MintFailsStep ==
  ASSUME IInv, NEW m \in mints, MintFails(m) PROVE IInv'
<1>0. faults' \in 0..MaxFaults /\ calls' \in 0..MaxCalls
  BY FaultBudget DEF MintFails, IInv
<1>1. CASE ~Current(m)
  <2>1. \A n \in mints : n.epoch = epoch => n \in mints'
    BY <1>1 DEF MintFails, Current
  <2>2. QED
    BY <1>0, <1>1, <2>1, Ignored DEF MintFails
<1>2. CASE Current(m)
  <2>1. state = "connecting"
    BY <1>2 DEF Current, Minting, IInv, Flights
  <2>2. QED
    BY <1>0, <1>2, <2>1, Reconnected DEF MintFails
<1>3. QED
  BY <1>1, <1>2

LEMMA MintRejectedStep ==
  ASSUME IInv, NEW m \in mints, MintRejected(m) PROVE IInv'
<1>0. faults' \in 0..MaxFaults /\ calls' \in 0..MaxCalls
  BY FaultBudget DEF MintRejected, IInv
<1>1. CASE ~Current(m)
  <2>1. \A n \in mints : n.epoch = epoch => n \in mints'
    BY <1>1 DEF MintRejected, Current
  <2>2. QED
    BY <1>0, <1>1, <2>1, Ignored DEF MintRejected
<1>2. CASE Current(m)
  <2>1. state = "connecting"
    BY <1>2 DEF Current, Minting, IInv, Flights
  <2>2. stopped' \in BOOLEAN /\ ~stopped' /\ backoffAttempt' \in 0..AttemptCap
    BY <1>2, <2>1 DEF MintRejected, IInv, TypeOK, Shape
  <2>3. QED
    BY <1>0, <1>2, <2>2, Rested DEF MintRejected
<1>3. QED
  BY <1>1, <1>2

-------------------------------------------------------------------------------

(* A handler of the owned socket that changes only the keepalive timers.   *)
LEMMA Keepalive ==
  ASSUME IInv, socket # NoSocket, pingTimer' \in BOOLEAN, pongTimer' \in BOOLEAN,
         UNCHANGED <<loop, socket, token, connectionId, async, world, budget>>
  PROVE  IInv'
<1>1. Minting' = Minting
  BY DEF Minting, loop, async
<1>2. TypeOK'
  BY DEF IInv, TypeOK, loop, async, world, budget
<1>3. Shape'
  BY <1>1 DEF IInv, Shape, loop, async
<1>4. Sockets' /\ Flights'
  BY <1>1 DEF IInv, Sockets, Flights, loop, async
<1>5. QED
  BY <1>2, <1>3, <1>4 DEF IInv

(* The owned socket is the only one.                                       *)
LEMMA Owned ==
  ASSUME IInv, NEW s \in live
  PROVE  /\ socket # NoSocket /\ s.id = socket /\ Current(s) /\ live = {s}
         /\ token /\ state \in {"connecting", "connected"} /\ ~stopped
<1>1. s.id = socket /\ s.epoch = epoch /\ live = {s}
  BY DEF IInv, Sockets
<1>2. socket # NoSocket
  BY <1>1 DEF IInv, TypeOK
<1>3. QED
  BY <1>1, <1>2 DEF IInv, Sockets, Shape, Current

LEMMA SocketOpensStep ==
  ASSUME IInv, NEW s \in live, SocketOpens(s) PROVE IInv'
<1>1. /\ socket # NoSocket /\ s.id = socket /\ Current(s) /\ live = {s}
  BY Owned
<1> DEFINE t == [s EXCEPT !.opened = TRUE]
<1>2. /\ live' = {t} /\ pingTimer' = TRUE
      /\ UNCHANGED <<loop, socket, token, connectionId, pongTimer, attempts, mints, puts,
                     wire, world, budget>>
  BY <1>1 DEF SocketOpens
<1>3. s \in [id : Nat \ {NoSocket}, epoch : Nat, opened : BOOLEAN]
  BY DEF IInv, TypeOK
<1>4. /\ t \in [id : Nat \ {NoSocket}, epoch : Nat, opened : BOOLEAN]
      /\ t.id = s.id /\ t.epoch = s.epoch /\ t.opened = TRUE
  BY <1>3
<1>5. Minting' = Minting
  BY <1>2 DEF Minting, loop
<1>6. TypeOK'
  <2>1. live' \subseteq [id : Nat \ {NoSocket}, epoch : Nat, opened : BOOLEAN]
    BY <1>2, <1>4
  <2>2. pingTimer' \in BOOLEAN
    BY <1>2
  <2>3. QED
    BY <1>2, <2>1, <2>2 DEF IInv, TypeOK, loop, world, budget
<1>7. Shape'
  BY <1>1, <1>2, <1>5 DEF IInv, Shape, loop
<1>8. Sockets'
  BY <1>1, <1>2, <1>4 DEF IInv, Sockets, Current, loop
<1>9. Flights'
  BY <1>2, <1>5 DEF IInv, Flights, loop
<1>10. QED
  BY <1>6, <1>7, <1>8, <1>9 DEF IInv

LEMMA SocketFailsStep ==
  ASSUME IInv, NEW s \in live, SocketFails(s) PROVE IInv'
<1>1. Current(s) /\ state \in {"connecting", "connected"}
  BY Owned
<1>2. faults' \in 0..MaxFaults /\ calls' \in 0..MaxCalls
  BY FaultBudget DEF SocketFails, IInv
<1>3. QED
  BY <1>1, <1>2, Reconnected DEF SocketFails

LEMMA PongStep ==
  ASSUME IInv, NEW s \in live, PongArrives(s) PROVE IInv'
<1>1. socket # NoSocket
  BY Owned
<1>2. QED
  BY <1>1, Keepalive DEF PongArrives

LEMMA PingStep == IInv /\ PingTimerFires => IInv'
<1> SUFFICES ASSUME IInv, PingTimerFires PROVE IInv'
  OBVIOUS
<1>1. socket # NoSocket
  BY DEF PingTimerFires, IInv, Shape
<1>2. pongTimer' \in BOOLEAN /\ pingTimer' \in BOOLEAN
  BY DEF PingTimerFires
<1>3. QED
  BY <1>1, <1>2, Keepalive DEF PingTimerFires

LEMMA KeepaliveFailsStep == IInv /\ KeepaliveFails => IInv'
<1> SUFFICES ASSUME IInv, KeepaliveFails PROVE IInv'
  OBVIOUS
<1>1. socket # NoSocket
  BY DEF KeepaliveFails, IInv, Shape
<1>2. state \in {"connecting", "connected"}
  BY <1>1 DEF IInv, Shape
<1>3. faults' \in 0..MaxFaults /\ calls' \in 0..MaxCalls
  BY FaultBudget DEF KeepaliveFails, IInv
<1>4. QED
  BY <1>2, <1>3, Reconnected DEF KeepaliveFails

LEMMA HelloStep ==
  ASSUME IInv, NEW s \in live, HelloArrives(s) PROVE IInv'
<1>1. /\ socket # NoSocket /\ s.id = socket /\ s.epoch = epoch /\ token /\ live = {s}
      /\ state \in {"connecting", "connected"}
  BY Owned DEF Current
<1> DEFINE new == [id |-> s.id, epoch |-> s.epoch, served |-> FALSE, ver |-> 0]
<1>2. /\ ~connectionId /\ connectionId' = TRUE /\ puts' = puts \cup {new}
      /\ UNCHANGED <<loop, socket, token, pingTimer, pongTimer, live, wire, attempts, mints,
                     world, budget>>
  BY <1>1 DEF HelloArrives
<1>3. state = "connecting"
  BY <1>1, <1>2 DEF IInv, Shape
<1>4. s \in [id : Nat \ {NoSocket}, epoch : Nat, opened : BOOLEAN]
  BY DEF IInv, TypeOK
<1>5. new \in [id : Nat \ {NoSocket}, epoch : Nat, served : BOOLEAN, ver : Nat]
  BY <1>4
<1>6. \A p \in puts : p.epoch # epoch
  BY <1>2 DEF IInv, Flights
<1>7. Minting' = Minting
  BY <1>2 DEF Minting, loop
<1>8. TypeOK'
  <2>1. puts' \subseteq [id : Nat \ {NoSocket}, epoch : Nat, served : BOOLEAN, ver : Nat]
    BY <1>2, <1>5 DEF IInv, TypeOK
  <2>2. connectionId' \in BOOLEAN
    BY <1>2
  <2>3. QED
    BY <1>2, <2>1, <2>2 DEF IInv, TypeOK, loop, world, budget
<1>9. Shape'
  BY <1>1, <1>2, <1>3, <1>7 DEF IInv, Shape, loop
<1>10. Sockets'
  BY <1>1, <1>2 DEF HelloArrives, IInv, Sockets, loop
<1>11. Flights'
  <2>1. \A p \in puts' : p.epoch = epoch' => p = new
    BY <1>2, <1>6 DEF loop
  <2>2. \A p \in puts' : p.epoch <= epoch'
    BY <1>1, <1>2 DEF IInv, TypeOK, Flights, loop
  <2>3. new.id = socket' /\ connectionId' /\ state' = "connecting"
    BY <1>1, <1>2, <1>3 DEF loop
  <2>4. /\ \A m \in mints' : m.epoch <= epoch'
        /\ \A m, n \in mints' : m.epoch = epoch' /\ n.epoch = epoch' => m = n
        /\ Minting' => socket' = NoSocket /\ state' = "connecting"
    BY <1>2, <1>7 DEF IInv, Flights, loop
  <2>5. \A p \in puts' : p.epoch = epoch' => p.id = socket' /\ connectionId' /\ state' = "connecting"
    BY <2>1, <2>3
  <2>6. \A p, q \in puts' : p.epoch = epoch' /\ q.epoch = epoch' => p = q
    BY <2>1
  <2>7. QED
    BY <2>2, <2>4, <2>5, <2>6 DEF Flights
<1>12. QED
  BY <1>8, <1>9, <1>10, <1>11 DEF IInv

LEMMA PutServedStep ==
  ASSUME IInv, NEW p \in puts, PutServed(p) PROVE IInv'
<1> DEFINE r == [p EXCEPT !.served = TRUE, !.ver = play]
<1>1. p \in [id : Nat \ {NoSocket}, epoch : Nat, served : BOOLEAN, ver : Nat] /\ play \in Nat
  BY DEF IInv, TypeOK
<1>2. /\ r \in [id : Nat \ {NoSocket}, epoch : Nat, served : BOOLEAN, ver : Nat]
      /\ r.id = p.id /\ r.epoch = p.epoch
  BY <1>1
<1>3. /\ puts' = (puts \ {p}) \cup {r}
      /\ UNCHANGED <<loop, conn, attempts, mints, live, wire, world, budget>>
  BY DEF PutServed
<1>4. Minting' = Minting
  BY <1>3 DEF Minting, loop
<1>5. TypeOK'
  <2>1. puts' \subseteq [id : Nat \ {NoSocket}, epoch : Nat, served : BOOLEAN, ver : Nat]
    BY <1>2, <1>3 DEF IInv, TypeOK
  <2>2. QED
    BY <1>3, <2>1 DEF IInv, TypeOK, loop, conn, world, budget
<1>6. Shape' /\ Sockets'
  BY <1>3, <1>4 DEF IInv, Shape, Sockets, loop, conn
<1>7. Flights'
  <2>1. \A q \in puts' : \E o \in puts : q.id = o.id /\ q.epoch = o.epoch /\ (o = p \/ q = o)
                                          /\ (o = p => q = r)
    BY <1>2, <1>3
  <2>2. /\ \A q \in puts' : q.epoch <= epoch'
        /\ \A q \in puts' : q.epoch = epoch' => q.id = socket' /\ connectionId' /\ state' = "connecting"
    BY <1>3, <2>1 DEF IInv, Flights, loop, conn
  <2>3. \A q, o \in puts' : q.epoch = epoch' /\ o.epoch = epoch' => q = o
    BY <1>3, <2>1 DEF IInv, Flights, loop
  <2>4. QED
    BY <1>3, <1>4, <2>2, <2>3 DEF IInv, Flights, loop, conn
<1>8. QED
  BY <1>5, <1>6, <1>7 DEF IInv

LEMMA PutSucceedsStep ==
  ASSUME IInv, NEW p \in puts, PutSucceeds(p) PROVE IInv'
<1>0. p \in [id : Nat \ {NoSocket}, epoch : Nat, served : BOOLEAN, ver : Nat]
  BY DEF IInv, TypeOK
<1>1. faults' \in 0..MaxFaults /\ calls' \in 0..MaxCalls /\ puts' \subseteq puts
  BY DEF PutSucceeds, budget, IInv, TypeOK
<1>2. CASE ~Current(p)
  <2>1. UNCHANGED <<loop, conn, live, wire, attempts, world, mints>>
    BY <1>2 DEF PutSucceeds, loop, world
  <2>2. QED
    BY <1>1, <2>1, Ignored
<1>3. CASE Current(p)
  <2>1. p.epoch = epoch /\ connectionId /\ state = "connecting"
    BY <1>3 DEF Current, IInv, Flights
  <2>2. /\ state' = "connected" /\ backoffAttempt' = 0
        /\ emitted' \in {[by |-> p.id, ver |-> p.ver], emitted}
        /\ UNCHANGED <<stopped, epoch, backoffTimer, conn, attempts, mints, live, wire, play, budget>>
    BY <1>3 DEF PutSucceeds, Emit
  <2>3. \A q \in puts' : q.epoch # epoch
    BY <2>1 DEF PutSucceeds, IInv, Flights
  <2>4. socket # NoSocket /\ ~Minting /\ ~Minting'
    BY <2>1, <2>2 DEF IInv, Shape, Flights, Minting
  <2>5. TypeOK'
    <3>1. emitted' \in [by : Nat, ver : Nat]
      BY <1>0, <2>2 DEF IInv, TypeOK
    <3>2. backoffAttempt' \in 0..AttemptCap /\ state' \in States
      BY <2>2, DealerAssumption DEF States
    <3>3. QED
      BY <1>1, <2>2, <3>1, <3>2 DEF IInv, TypeOK, conn, budget
  <2>6. Shape'
    BY <2>1, <2>2, <2>4 DEF IInv, Shape, conn
  <2>7. Sockets'
    BY <2>2 DEF IInv, Sockets, conn
  <2>8. Flights'
    BY <1>1, <2>2, <2>3, <2>4 DEF IInv, Flights, conn
  <2>9. QED
    BY <2>5, <2>6, <2>7, <2>8 DEF IInv
<1>4. QED
  BY <1>2, <1>3

LEMMA PutFailsStep ==
  ASSUME IInv, NEW p \in puts, PutFails(p) PROVE IInv'
<1>1. faults' \in 0..MaxFaults /\ calls' \in 0..MaxCalls
  BY FaultBudget DEF PutFails, IInv
<1>2. CASE ~Current(p)
  BY <1>1, <1>2, Ignored DEF PutFails
<1>3. CASE Current(p)
  <2>1. state = "connecting"
    BY <1>3 DEF Current, IInv, Flights
  <2>2. QED
    BY <1>1, <1>3, <2>1, Reconnected DEF PutFails
<1>4. QED
  BY <1>2, <1>3

(* Changes of the playback state touch only the wire and what was emitted. *)
LEMMA Wired ==
  ASSUME IInv, wire' \in Seq(Nat), wire' # <<>> => socket # NoSocket,
         play' \in Nat, emitted' \in [by : Nat, ver : Nat],
         UNCHANGED <<loop, conn, attempts, mints, live, puts, budget>>
  PROVE  IInv'
<1>1. Minting' = Minting
  BY DEF Minting, loop
<1>2. TypeOK'
  BY DEF IInv, TypeOK, loop, conn, budget
<1>3. Shape'
  BY <1>1 DEF IInv, Shape, loop, conn
<1>4. Sockets' /\ Flights'
  BY <1>1 DEF IInv, Sockets, Flights, loop, conn
<1>5. QED
  BY <1>2, <1>3, <1>4 DEF IInv

LEMMA PlaybackStep == IInv /\ PlaybackChanges => IInv'
<1> SUFFICES ASSUME IInv, PlaybackChanges PROVE IInv'
  OBVIOUS
<1>1. play' \in Nat /\ wire' \in Seq(Nat) /\ emitted' \in [by : Nat, ver : Nat]
  BY DEF PlaybackChanges, IInv, TypeOK
<1>2. wire' # <<>> => socket # NoSocket
  BY DEF PlaybackChanges, Registered, IInv, Shape
<1>3. QED
  BY <1>1, <1>2, Wired DEF PlaybackChanges

LEMMA ClusterStep == IInv /\ ClusterArrives => IInv' /\ socket # NoSocket /\ emitted'.by = socket
<1> SUFFICES ASSUME IInv, ClusterArrives PROVE IInv' /\ socket # NoSocket /\ emitted'.by = socket
  OBVIOUS
<1>1. wire \in Seq(Nat) /\ wire # <<>> /\ socket \in Nat /\ play \in Nat
  BY DEF ClusterArrives, IInv, TypeOK
<1>2. Head(wire) \in Nat /\ Tail(wire) \in Seq(Nat)
  BY <1>1
<1>3. wire' \in Seq(Nat) /\ emitted' \in [by : Nat, ver : Nat] /\ emitted'.by = socket
  BY <1>1, <1>2 DEF ClusterArrives, Emit
<1>4. socket # NoSocket /\ play' \in Nat
  BY <1>1 DEF ClusterArrives, IInv, Shape
<1>5. QED
  BY <1>3, <1>4, Wired DEF ClusterArrives

-------------------------------------------------------------------------------

LEMMA NextIInv == IInv /\ [Next]_vars => IInv'
<1> SUFFICES ASSUME IInv, [Next]_vars PROVE IInv'
  OBVIOUS
<1>1. CASE Start
  BY <1>1, StartStep
<1>2. CASE Stop
  BY <1>2, StopStep
<1>3. CASE BackoffFires
  BY <1>3, BackoffStep
<1>4. CASE \E m \in mints : MintSucceeds(m) \/ MintFails(m) \/ MintRejected(m)
  BY <1>4, MintSucceedsStep, MintFailsStep, MintRejectedStep
<1>5. CASE \E s \in live : SocketOpens(s) \/ SocketFails(s) \/ PongArrives(s) \/ HelloArrives(s)
  BY <1>5, SocketOpensStep, SocketFailsStep, PongStep, HelloStep
<1>6. CASE PingTimerFires \/ KeepaliveFails
  BY <1>6, PingStep, KeepaliveFailsStep
<1>7. CASE \E p \in puts : PutServed(p) \/ PutSucceeds(p) \/ PutFails(p)
  BY <1>7, PutServedStep, PutSucceedsStep, PutFailsStep
<1>8. CASE PlaybackChanges \/ ClusterArrives
  BY <1>8, PlaybackStep, ClusterStep
<1>9. CASE UNCHANGED vars
  <2>1. UNCHANGED <<loop, conn, async, world, budget>>
    BY <1>9 DEF vars
  <2>2. mints' = mints /\ puts' = puts /\ UNCHANGED <<live, wire, attempts>>
    BY <2>1 DEF async
  <2>3. faults' \in 0..MaxFaults /\ calls' \in 0..MaxCalls
    BY <2>1 DEF budget, IInv, TypeOK
  <2>4. QED
    BY <2>1, <2>2, <2>3, Ignored
<1>10. QED
  BY <1>1, <1>2, <1>3, <1>4, <1>5, <1>6, <1>7, <1>8, <1>9 DEF Next

LEMMA Invariant == Spec => []IInv
  BY InitIInv, NextIInv, PTL DEF Spec

(* What IInv says of the client's safety.                                  *)
LEMMA IInvMeans ==
  IInv => /\ TypeOK /\ NoLeakedSocket /\ OneDriver /\ Quiescent
          /\ TokenForRegistration /\ ConnectedIsRegistered
<1> SUFFICES ASSUME IInv PROVE /\ TypeOK /\ NoLeakedSocket /\ OneDriver /\ Quiescent
                               /\ TokenForRegistration /\ ConnectedIsRegistered
  OBVIOUS
<1>1. TypeOK /\ NoLeakedSocket
  BY DEF IInv, Sockets, NoLeakedSocket
<1>2. OneDriver
  BY DEF IInv, TypeOK, States, Shape, Flights, OneDriver
<1>3. Quiescent
  BY DEF IInv, Shape, Quiescent
<1>4. TokenForRegistration
  BY Owned DEF TokenForRegistration
<1>5. ConnectedIsRegistered
  BY DEF IInv, Shape, Sockets, Flights, ConnectedIsRegistered
<1>6. QED
  BY <1>1, <1>2, <1>3, <1>4, <1>5

(* createDealerListener() never runs two loops, never leaks a websocket,   *)
(* falls silent when stopped or dead, and registers only with a token.     *)
THEOREM DealerSafety ==
  Spec => [](/\ TypeOK /\ NoLeakedSocket /\ OneDriver /\ Quiescent
             /\ TokenForRegistration /\ ConnectedIsRegistered)
  BY Invariant, IInvMeans, PTL

(* A websocket that is open is the one the closure holds: there is at most *)
(* one, and a reconnect or stop() leaves none behind.                      *)
THEOREM SocketsOwned == Spec => []NoLeakedSocket
  BY DealerSafety, PTL

(* emit() speaks only for the connection that is held: no event of an      *)
(* earlier connection reaches a subscriber, and none follows stop().       *)
THEOREM DealerEvents == Spec => EventsFromOwnedSocket
<1> DEFINE Owns == emitted' # emitted => socket # NoSocket /\ emitted'.by = socket
<1>1. IInv /\ [Next]_vars => [Owns]_vars
  <2> SUFFICES ASSUME IInv, Next, emitted' # emitted
               PROVE  socket # NoSocket /\ emitted'.by = socket
    OBVIOUS
  <2>1. CASE ClusterArrives
    BY <2>1, ClusterStep
  <2>2. CASE \E p \in puts : PutSucceeds(p)
    <3>1. PICK p \in puts : PutSucceeds(p)
      BY <2>2
    <3>2. p.epoch = epoch /\ emitted' = [by |-> p.id, ver |-> p.ver]
      BY <3>1 DEF PutSucceeds, Current, Emit
    <3>3. p.id = socket /\ socket # NoSocket
      BY <3>2 DEF IInv, Flights, Shape
    <3>4. QED
      BY <3>2, <3>3
  <2>3. QED
    BY <2>1, <2>2 DEF Next, Start, Stop, BackoffFires, MintSucceeds, MintFails, MintRejected,
      SocketOpens, SocketFails, PongArrives, HelloArrives, PingTimerFires, KeepaliveFails,
      PutServed, PutFails, PlaybackChanges, world
<1>2. QED
  BY <1>1, Invariant, PTL DEF Spec, EventsFromOwnedSocket

(* A rejected cookie is final: no timer, late token or late answer takes   *)
(* the client out of "credential_dead", only start() and stop() do.        *)
THEOREM DeadIsFinal == Spec => DeadUntilCalled
<1> DEFINE Called == state = "credential_dead" /\ state' # state => calls' < calls
<1>1. IInv /\ [Next]_vars => [Called]_vars
  <2> SUFFICES ASSUME IInv, Next, state = "credential_dead", state' # state
               PROVE  calls' < calls
    OBVIOUS
  <2>1. /\ socket = NoSocket /\ ~Minting /\ ~backoffTimer /\ ~pingTimer /\ ~pongTimer /\ wire = <<>>
        /\ live = {} /\ ~stopped
    BY Owned DEF IInv, Shape
  <2>2. /\ \A m \in mints : ~Current(m)
        /\ \A p \in puts : ~Current(p)
    BY <2>1 DEF Minting, Current, IInv, Flights
  <2>3. CASE Start \/ Stop
    BY <2>3 DEF Start, Stop, Call, IInv, TypeOK
  <2>4. CASE \E m \in mints : MintSucceeds(m) \/ MintFails(m) \/ MintRejected(m)
    BY <2>2, <2>4 DEF MintSucceeds, MintFails, MintRejected, loop
  <2>5. CASE \E p \in puts : PutServed(p) \/ PutSucceeds(p) \/ PutFails(p)
    BY <2>2, <2>5 DEF PutServed, PutSucceeds, PutFails, loop
  <2>6. QED
    BY <2>1, <2>3, <2>4, <2>5 DEF Next, BackoffFires, PingTimerFires, KeepaliveFails, PlaybackChanges,
      ClusterArrives, loop
<1>2. QED
  BY <1>1, Invariant, PTL DEF Spec, DeadUntilCalled

-------------------------------------------------------------------------------

(* A reconnect, or a promise out of date, as the interface shows it.       *)
LEMMA ShownReconnect ==
  ASSUME IInv, state \in {"connecting", "connected"}, ScheduleReconnect, UNCHANGED world
  PROVE  Promise!Next
<1>1. ~stopped /\ ~stopped' /\ state' = "backoff" /\ emitted' = emitted
  BY DEF IInv, Shape, ScheduleReconnect, world
<1>2. emitted' \in [by : Nat, ver : Nat]
  BY <1>1 DEF IInv, TypeOK
<1>3. Promise!Move
  BY <1>1, <1>2 DEF Promise!Move, Promise!Moves
<1>4. QED
  BY <1>3 DEF Promise!Next

LEMMA ShownStart ==
  ASSUME IInv, Start PROVE Promise!Next
<1>1. state \in {"idle", "backoff", "credential_dead"}
  BY DEF Start, IInv, TypeOK, States
<1>2. QED
  BY <1>1 DEF Start, Connect, world, Promise!Next, Promise!Start

LEMMA ShownBackoff ==
  ASSUME IInv, BackoffFires PROVE Promise!Next
<1>1. state = "backoff" /\ ~stopped /\ emitted \in [by : Nat, ver : Nat]
  BY DEF BackoffFires, IInv, Shape, TypeOK
<1>2. state' = "connecting" /\ ~stopped' /\ emitted' = emitted
  BY <1>1 DEF BackoffFires, Connect, world
<1>3. Promise!Move
  BY <1>1, <1>2 DEF Promise!Move, Promise!Moves
<1>4. QED
  BY <1>3 DEF Promise!Next

LEMMA ShownMint ==
  ASSUME IInv, NEW m \in mints, MintSucceeds(m) \/ MintFails(m) \/ MintRejected(m)
  PROVE  [Promise!Next]_(Promise!vars)
<1>1. CASE MintSucceeds(m)
  BY <1>1 DEF MintSucceeds, loop, world, Promise!vars
<1>2. CASE ~Current(m) /\ (MintFails(m) \/ MintRejected(m))
  BY <1>2 DEF MintFails, MintRejected, loop, world, Promise!vars
<1>3. CASE Current(m) /\ (MintFails(m) \/ MintRejected(m))
  <2>1. state = "connecting" /\ ~stopped /\ emitted \in [by : Nat, ver : Nat]
    BY <1>3 DEF Current, Minting, IInv, TypeOK, Flights, Shape
  <2>2. CASE MintFails(m)
    BY <1>3, <2>1, <2>2, ShownReconnect DEF MintFails
  <2>3. CASE MintRejected(m)
    <3>1. state' = "credential_dead" /\ stopped' = stopped /\ emitted' = emitted
      BY <1>3, <2>3 DEF MintRejected, world
    <3>2. Promise!Move
      BY <2>1, <3>1 DEF Promise!Move, Promise!Moves
    <3>3. QED
      BY <3>2 DEF Promise!Next
  <2>4. QED
    BY <1>3, <2>2, <2>3
<1>4. QED
  BY <1>1, <1>2, <1>3

LEMMA ShownSocket ==
  ASSUME IInv, NEW s \in live,
         SocketOpens(s) \/ SocketFails(s) \/ PongArrives(s) \/ HelloArrives(s)
  PROVE  [Promise!Next]_(Promise!vars)
<1>1. Current(s) /\ token /\ state \in {"connecting", "connected"}
  BY Owned
<1>2. CASE SocketFails(s)
  BY <1>1, <1>2, ShownReconnect DEF SocketFails
<1>3. CASE SocketOpens(s) \/ PongArrives(s) \/ HelloArrives(s)
  <2>1. UNCHANGED <<loop, world>>
    BY <1>1, <1>3 DEF SocketOpens, PongArrives, HelloArrives
  <2>2. QED
    BY <2>1 DEF loop, world, Promise!vars
<1>4. QED
  BY <1>2, <1>3

LEMMA ShownKeepalive ==
  ASSUME IInv, KeepaliveFails PROVE Promise!Next
<1>1. state \in {"connecting", "connected"}
  BY DEF KeepaliveFails, IInv, Shape
<1>2. QED
  BY <1>1, ShownReconnect DEF KeepaliveFails

LEMMA ShownPut ==
  ASSUME IInv, NEW p \in puts, PutServed(p) \/ PutSucceeds(p) \/ PutFails(p)
  PROVE  [Promise!Next]_(Promise!vars)
<1>1. CASE PutServed(p)
  BY <1>1 DEF PutServed, loop, world, Promise!vars
<1>2. CASE ~Current(p) /\ (PutSucceeds(p) \/ PutFails(p))
  BY <1>2 DEF PutSucceeds, PutFails, loop, world, Promise!vars
<1>3. CASE Current(p) /\ (PutSucceeds(p) \/ PutFails(p))
  <2>1. state = "connecting" /\ ~stopped
    BY <1>3 DEF Current, IInv, Flights, Shape
  <2>2. CASE PutFails(p)
    BY <1>3, <2>1, <2>2, ShownReconnect DEF PutFails
  <2>3. CASE PutSucceeds(p)
    <3>1. /\ state' = "connected" /\ stopped' = stopped
          /\ emitted' \in {[by |-> p.id, ver |-> p.ver], emitted}
      BY <1>3, <2>3 DEF PutSucceeds, Emit
    <3>2. p \in [id : Nat \ {NoSocket}, epoch : Nat, served : BOOLEAN, ver : Nat]
      BY DEF IInv, TypeOK
    <3>3. emitted' \in [by : Nat, ver : Nat]
      BY <3>1, <3>2 DEF IInv, TypeOK
    <3>4. Promise!Move
      BY <2>1, <3>1, <3>3 DEF Promise!Move, Promise!Moves
    <3>5. QED
      BY <3>4 DEF Promise!Next
  <2>4. QED
    BY <1>3, <2>2, <2>3
<1>4. QED
  BY <1>1, <1>2, <1>3

LEMMA ShownCluster ==
  ASSUME IInv, ClusterArrives PROVE Promise!Next
<1>1. socket # NoSocket /\ emitted' \in [by : Nat, ver : Nat]
  BY ClusterStep DEF IInv, TypeOK
<1>2. state \in {"connecting", "connected"} /\ ~stopped
  BY <1>1 DEF IInv, Shape
<1>3. Promise!Deliver
  BY <1>1, <1>2 DEF ClusterArrives, loop, Promise!Deliver
<1>4. QED
  BY <1>3 DEF Promise!Next

(* createDealerListener() keeps what interface DealerListener promises.    *)
THEOREM DealerRefinement == Spec => ImplementsListener
<1>1. Init => Promise!Init
  BY DEF Init, Promise!Init, NoSocket
<1>2. IInv /\ IInv' /\ [Next]_vars => [Promise!Next]_(Promise!vars)
  <2> SUFFICES ASSUME IInv, IInv', [Next]_vars PROVE [Promise!Next]_(Promise!vars)
    OBVIOUS
  <2>1. CASE Start
    BY <2>1, ShownStart
  <2>2. CASE Stop
    BY <2>2 DEF Stop, world, Promise!Next, Promise!Stop
  <2>3. CASE BackoffFires
    BY <2>3, ShownBackoff
  <2>4. CASE \E m \in mints : MintSucceeds(m) \/ MintFails(m) \/ MintRejected(m)
    BY <2>4, ShownMint
  <2>5. CASE \E s \in live : SocketOpens(s) \/ SocketFails(s) \/ PongArrives(s) \/ HelloArrives(s)
    BY <2>5, ShownSocket
  <2>6. CASE PingTimerFires
    BY <2>6 DEF PingTimerFires, loop, world, Promise!vars
  <2>7. CASE KeepaliveFails
    BY <2>7, ShownKeepalive
  <2>8. CASE \E p \in puts : PutServed(p) \/ PutSucceeds(p) \/ PutFails(p)
    BY <2>8, ShownPut
  <2>9. CASE PlaybackChanges
    BY <2>9 DEF PlaybackChanges, loop, Promise!vars
  <2>10. CASE ClusterArrives
    BY <2>10, ShownCluster
  <2>11. CASE UNCHANGED vars
    BY <2>11 DEF vars, loop, world, Promise!vars
  <2>12. QED
    BY <2>1, <2>2, <2>3, <2>4, <2>5, <2>6, <2>7, <2>8, <2>9, <2>10, <2>11 DEF Next
<1>3. QED
  BY <1>1, <1>2, Invariant, PTL DEF Spec, ImplementsListener, Promise!Spec

===============================================================================
