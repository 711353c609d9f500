----------------------------- MODULE FeedsProofs ------------------------------
(***************************************************************************)
(* The two feeds of the site, for any number of instances, failures and    *)
(* calls: what an instance shows of the upstream state (PollLoop), and what *)
(* the shared health record says of the listener (NowPlaying).             *)
(***************************************************************************)
EXTENDS PollLoop, NowPlaying, TLAPS

(***************************************************************************)
(* Now-playing: what the shared health record says.                        *)
(***************************************************************************)
ErrorKinds == {"none", "transient", "invalid_cookie"}
HealthRecords ==
  [key : {"health"}, from : Supervisors, state : States, error : ErrorKinds, at : Nat]
Snapshots == [key : {"snapshot"}, slot : Chains, payload : Nat]

NowPlayingTypeOK ==
  /\ player \in Seq({"paused", "playing", "unknown"})
  /\ held \in [Supervisors -> BOOLEAN] /\ starting \in [Supervisors -> BOOLEAN]
  /\ armed \in [Supervisors -> BOOLEAN]
  /\ state \in [Supervisors -> States] /\ error \in [Supervisors -> ErrorKinds]
  /\ lastEvent \in [Supervisors -> Nat] /\ lastPlaying \in [Supervisors -> Nat]
  /\ pushed \in [Supervisors -> Nat]
  /\ chain \in [Supervisors -> [Chains -> Work \cup {NoWork}]]
  /\ wire \in [Supervisors -> Seq(HealthRecords \cup Snapshots)]
  /\ lastKnown \in Nat /\ snapshot \in Nat /\ health \in HealthRecords \cup {NoWork}

\* Each snapshot on its way is awaited by one chain of its own.
SnapshotsAwaited(i) ==
  \A k \in DOMAIN wire[i] : wire[i][k].key = "snapshot" =>
    /\ chain[i][wire[i][k].slot] # NoWork /\ chain[i][wire[i][k].slot].at = "redis"
    /\ \A m \in DOMAIN wire[i] :
         wire[i][m].key = "snapshot" /\ wire[i][m].slot = wire[i][k].slot => m = k

\* A record that says of i what is so.
Word(i, r) ==
  /\ r.state = state[i]
  /\ ~Busy(i) => r.error = error[i] /\ r.at = lastEvent[i]

\* What i sent last says what is so; when all of it has arrived and nobody wrote
\* after i, so does the record.
Told(i) ==
  /\ \A k \in DOMAIN wire[i] :
       wire[i][k].key = "health" =>
         /\ wire[i][k].from = i
         /\ (\A m \in DOMAIN wire[i] : m > k => wire[i][m].key # "health") => Word(i, wire[i][k])
  /\ (\A k \in DOMAIN wire[i] : wire[i][k].key # "health") /\ health # NoWork /\ health.from = i
       => Word(i, health)

NowPlayingIInv ==
  /\ NowPlayingTypeOK
  /\ \A i \in Supervisors : SnapshotsAwaited(i) /\ Told(i)

\* Nothing that a record could be wrong about has changed.
LEMMA StillTold ==
  ASSUME NowPlayingIInv, NEW i \in Supervisors,
         state'[i] = state[i],
         ~Busy(i)' => ~Busy(i) /\ error'[i] = error[i] /\ lastEvent'[i] = lastEvent[i],
         health' = health \/ health'.from # i,
         \/ wire'[i] = wire[i]
         \/ \E s \in Snapshots : wire'[i] = Append(wire[i], s)
  PROVE  Told(i)'
<1>1. \A r : Word(i, r) => Word(i, r)'
  BY DEF Word
<1>2. CASE wire'[i] = wire[i]
  BY <1>1, <1>2 DEF Told, NowPlayingIInv
<1>3. CASE \E s \in Snapshots : wire'[i] = Append(wire[i], s)
  <2>1. PICK s \in Snapshots : wire'[i] = Append(wire[i], s)
    BY <1>3
  <2>2. s.key # "health"
    BY DEF Snapshots
  <2>3. wire[i] \in Seq(HealthRecords \cup Snapshots)
    BY DEF NowPlayingIInv, NowPlayingTypeOK
  <2>4. /\ DOMAIN wire[i] = 1..Len(wire[i]) /\ DOMAIN wire'[i] = 1..Len(wire[i]) + 1
        /\ \A k \in 1..Len(wire[i]) : wire'[i][k] = wire[i][k]
        /\ wire'[i][Len(wire[i]) + 1] = s /\ Len(wire[i]) \in Nat
    BY <2>1, <2>3
  <2>5. Told(i)
    BY DEF NowPlayingIInv
  <2>6. ASSUME NEW k \in DOMAIN wire'[i], wire'[i][k].key = "health"
        PROVE  /\ wire'[i][k].from = i
               /\ (\A m \in DOMAIN wire'[i] : m > k => wire'[i][m].key # "health") => Word(i, wire[i][k])' 
    <3>1. k \in DOMAIN wire[i] /\ wire'[i][k] = wire[i][k]
      BY <2>2, <2>4, <2>6
    <3> QED
      BY <1>1, <2>4, <2>5, <2>6, <3>1 DEF Told, Word
  <2> QED
    BY <1>1, <2>4, <2>5, <2>6 DEF Told, Word
<1> QED
  BY <1>2, <1>3

\* A record was sent that says what is so.
LEMMA NowTold ==
  ASSUME NowPlayingIInv, NEW i \in Supervisors, NEW r \in HealthRecords,
         wire'[i] = Append(wire[i], r),
         r.from = i, r.state = state'[i],
         ~Busy(i)' => r.error = error'[i] /\ r.at = lastEvent'[i]
  PROVE  Told(i)'
<1>1. wire[i] \in Seq(HealthRecords \cup Snapshots) /\ r.key = "health"
  BY DEF NowPlayingIInv, NowPlayingTypeOK, HealthRecords
<1>2. /\ DOMAIN wire[i] = 1..Len(wire[i]) /\ DOMAIN wire'[i] = 1..Len(wire[i]) + 1
      /\ \A k \in 1..Len(wire[i]) : wire'[i][k] = wire[i][k]
      /\ wire'[i][Len(wire[i]) + 1] = r /\ Len(wire[i]) \in Nat
  BY <1>1
<1>3. \A k \in DOMAIN wire[i] : wire[i][k].key = "health" => wire[i][k].from = i
  BY DEF NowPlayingIInv, Told
<1>4. ~(\A k \in DOMAIN wire'[i] : wire'[i][k].key # "health")
  BY <1>1, <1>2
<1>5. ASSUME NEW k \in DOMAIN wire'[i], wire'[i][k].key = "health"
      PROVE  /\ wire'[i][k].from = i
             /\ (\A m \in DOMAIN wire'[i] : m > k => wire'[i][m].key # "health") => Word(i, wire[i][k])'
  <2>1. CASE k = Len(wire[i]) + 1
    BY <1>2, <2>1 DEF Word
  <2>2. CASE k \in 1..Len(wire[i])
    <3>1. Len(wire[i]) + 1 \in DOMAIN wire'[i] /\ Len(wire[i]) + 1 > k
      BY <1>2, <2>2
    <3> QED
      BY <1>1, <1>2, <1>3, <1>5, <2>2, <3>1
  <2> QED
    BY <1>2, <2>1, <2>2
<1> QED
  BY <1>4, <1>5 DEF Told

\* The commands of i that wait are the same, but for a record; and so are the
\* chains that wait for a snapshot.
LEMMA StillAwaited ==
  ASSUME NowPlayingIInv, NEW i \in Supervisors,
         wire'[i] = wire[i] \/ (\E r \in HealthRecords : wire'[i] = Append(wire[i], r)),
         \A c \in Chains : chain[i][c] # NoWork /\ chain[i][c].at = "redis" => chain'[i][c] = chain[i][c]
  PROVE  SnapshotsAwaited(i)'
<1>1. wire[i] \in Seq(HealthRecords \cup Snapshots) /\ SnapshotsAwaited(i)
  BY DEF NowPlayingIInv, NowPlayingTypeOK
<1>2. \A k \in DOMAIN wire[i] : wire[i][k].key = "snapshot" => wire[i][k].slot \in Chains
  BY <1>1 DEF HealthRecords, Snapshots
<1>3. ASSUME NEW k \in DOMAIN wire'[i], wire'[i][k].key = "snapshot"
      PROVE  k \in DOMAIN wire[i] /\ wire'[i][k] = wire[i][k]
  <2>1. CASE \E r \in HealthRecords : wire'[i] = Append(wire[i], r)
    <3>1. PICK r \in HealthRecords : wire'[i] = Append(wire[i], r)
      BY <2>1
    <3>2. r.key # "snapshot"
      BY DEF HealthRecords
    <3>3. /\ DOMAIN wire[i] = 1..Len(wire[i]) /\ DOMAIN wire'[i] = 1..Len(wire[i]) + 1
          /\ \A m \in 1..Len(wire[i]) : wire'[i][m] = wire[i][m]
          /\ wire'[i][Len(wire[i]) + 1] = r /\ Len(wire[i]) \in Nat
      BY <1>1, <3>1
    <3> QED
      BY <1>3, <3>2, <3>3
  <2> QED
    BY <1>3, <2>1
<1> QED
  BY <1>1, <1>2, <1>3 DEF SnapshotsAwaited

\* An instance to which nothing happens.
LEMMA OthersStill ==
  ASSUME NowPlayingIInv, NEW i \in Supervisors,
         state'[i] = state[i], error'[i] = error[i], lastEvent'[i] = lastEvent[i],
         wire'[i] = wire[i], chain'[i] = chain[i],
         health' = health \/ health'.from # i
  PROVE  SnapshotsAwaited(i)' /\ Told(i)'
<1>1. Busy(i)' <=> Busy(i)
  BY DEF Busy
<1> QED
  BY <1>1, StillTold, StillAwaited

LEMMA NowPlayingInitInv == NowPlayingInit => NowPlayingIInv
<1> SUFFICES ASSUME NowPlayingInit PROVE NowPlayingIInv
  OBVIOUS
<1>1. NowPlayingTypeOK
  BY DEF NowPlayingInit, NowPlayingTypeOK, States, ErrorKinds
<1>2. \A i \in Supervisors : wire[i] = <<>> /\ DOMAIN wire[i] = {}
  BY DEF NowPlayingInit
<1>3. health = NoWork
  BY DEF NowPlayingInit
<1> QED
  BY <1>1, <1>2, <1>3 DEF NowPlayingIInv, SnapshotsAwaited, Told

-----------------------------------------------------------------------------
(* Each step.                                                              *)

LEMMA SendsEffect ==
  ASSUME NowPlayingIInv, NEW i \in Supervisors, NEW r \in HealthRecords,
         wire' = [wire EXCEPT ![i] = Append(@, r)]
  PROVE  /\ wire' \in [Supervisors -> Seq(HealthRecords \cup Snapshots)]
         /\ wire'[i] = Append(wire[i], r)
         /\ \A j \in Supervisors : j # i => wire'[j] = wire[j]
<1>1. wire \in [Supervisors -> Seq(HealthRecords \cup Snapshots)]
  BY DEF NowPlayingIInv, NowPlayingTypeOK
<1>2. Append(wire[i], r) \in Seq(HealthRecords \cup Snapshots)
  BY <1>1
<1> QED
  BY <1>1, <1>2

LEMMA HealthIsRecord ==
  ASSUME NEW i \in Supervisors, NEW s \in States, NEW e \in ErrorKinds, NEW at \in Nat
  PROVE  HealthOf(i, s, e, at) \in HealthRecords
BY DEF HealthOf, HealthRecords

LEMMA StateChangeInv ==
  ASSUME NowPlayingIInv, NEW i \in Supervisors, StateChange(i)
  PROVE  NowPlayingIInv'
<1>1. PICK next \in States :
        /\ state' = [state EXCEPT ![i] = next]
        /\ error' = [error EXCEPT ![i] = Blamed(next, error[i])]
        /\ pushed' = [pushed EXCEPT ![i] =
                         IF next = "connected" /\ player # <<>> THEN Len(player) - 1 ELSE pushed[i]]
        /\ IF next = "credential_dead"
             THEN lastPlaying' = [lastPlaying EXCEPT ![i] = 0] /\ armed' = [armed EXCEPT ![i] = FALSE]
             ELSE UNCHANGED <<lastPlaying, armed>>
        /\ SendHealth(i, next, error'[i], lastEvent[i])
        /\ UNCHANGED <<player, held, starting, lastEvent, chain, npShared>>
  BY Zenon DEF StateChange, Set
<1>2. Blamed(next, error[i]) \in ErrorKinds
  BY DEF Blamed, ErrorKinds, NowPlayingIInv, NowPlayingTypeOK
<1>3. Len(player) - 1 \in Nat \/ player = <<>>
  BY DEF NowPlayingIInv, NowPlayingTypeOK
<1>4. error' \in [Supervisors -> ErrorKinds] /\ pushed' \in [Supervisors -> Nat]
      /\ state' \in [Supervisors -> States] /\ state'[i] = next
      /\ \A j \in Supervisors : j # i => state'[j] = state[j] /\ error'[j] = error[j]
  BY <1>1, <1>2, <1>3 DEF NowPlayingIInv, NowPlayingTypeOK
<1>5. PICK r \in HealthRecords : r = HealthOf(i, next, error'[i], lastEvent[i])
  BY <1>4, HealthIsRecord DEF NowPlayingIInv, NowPlayingTypeOK
<1>6. /\ wire' \in [Supervisors -> Seq(HealthRecords \cup Snapshots)]
      /\ wire'[i] = Append(wire[i], r)
      /\ \A j \in Supervisors : j # i => wire'[j] = wire[j]
  <2>1. wire' = [wire EXCEPT ![i] = Append(@, r)]
    BY <1>1, <1>5 DEF SendHealth
  <2> QED
    BY <2>1, SendsEffect
<1>7. NowPlayingTypeOK'
  <2>1. lastPlaying' \in [Supervisors -> Nat] /\ armed' \in [Supervisors -> BOOLEAN]
    <3>1. lastPlaying' = [lastPlaying EXCEPT ![i] = 0] \/ lastPlaying' = lastPlaying
      BY <1>1, Zenon
    <3>2. armed' = [armed EXCEPT ![i] = FALSE] \/ armed' = armed
      BY <1>1, Zenon
    <3>3. lastPlaying \in [Supervisors -> Nat] /\ armed \in [Supervisors -> BOOLEAN]
      BY DEF NowPlayingIInv, NowPlayingTypeOK
    <3>4. lastPlaying' \in [Supervisors -> Nat]
      BY <3>1, <3>3
    <3>5. armed' \in [Supervisors -> BOOLEAN]
      BY <3>2, <3>3
    <3> QED
      BY <3>4, <3>5
  <2> QED
    BY <1>1, <1>4, <1>6, <2>1 DEF NowPlayingIInv, NowPlayingTypeOK, npShared
<1>8. r.from = i /\ r.state = state'[i] /\ r.error = error'[i] /\ r.at = lastEvent'[i]
  BY <1>1, <1>4, <1>5 DEF HealthOf
<1>9. Told(i)' /\ SnapshotsAwaited(i)'
  BY <1>1, <1>6, <1>8, NowTold, StillAwaited
<1>10. \A j \in Supervisors : j # i => Told(j)' /\ SnapshotsAwaited(j)'
  BY <1>1, <1>4, <1>6, OthersStill DEF npShared
<1> QED
  BY <1>7, <1>9, <1>10 DEF NowPlayingIInv

LEMMA StartListenerInv ==
  ASSUME NowPlayingIInv, NEW i \in Supervisors, StartListener(i)
  PROVE  NowPlayingIInv'
<1>1. PICK first \in {"connecting", "idle"} :
        /\ state' = [state EXCEPT ![i] = first]
        /\ SendHealth(i, first, error[i], lastEvent[i])
  BY Zenon DEF StartListener, Set
<1>2. /\ starting' = [starting EXCEPT ![i] = FALSE]
      /\ lastPlaying' = [lastPlaying EXCEPT ![i] = 0] /\ armed' = [armed EXCEPT ![i] = FALSE]
      /\ UNCHANGED <<player, held, error, lastEvent, pushed, chain, npShared>>
  BY DEF StartListener, Set
<1>3. first \in States
  BY DEF States
<1>4. state' \in [Supervisors -> States] /\ state'[i] = first
      /\ \A j \in Supervisors : j # i => state'[j] = state[j]
  BY <1>1, <1>3 DEF NowPlayingIInv, NowPlayingTypeOK
<1>5. PICK r \in HealthRecords : r = HealthOf(i, first, error[i], lastEvent[i])
  BY <1>3, HealthIsRecord DEF NowPlayingIInv, NowPlayingTypeOK
<1>6. /\ wire' \in [Supervisors -> Seq(HealthRecords \cup Snapshots)]
      /\ wire'[i] = Append(wire[i], r)
      /\ \A j \in Supervisors : j # i => wire'[j] = wire[j]
  <2>1. wire' = [wire EXCEPT ![i] = Append(@, r)]
    BY <1>1, <1>5 DEF SendHealth
  <2> QED
    BY <2>1, SendsEffect
<1>7. NowPlayingTypeOK'
  BY <1>2, <1>4, <1>6 DEF NowPlayingIInv, NowPlayingTypeOK, npShared
<1>8. r.from = i /\ r.state = state'[i] /\ r.error = error'[i] /\ r.at = lastEvent'[i]
  BY <1>2, <1>4, <1>5 DEF HealthOf
<1>9. Told(i)' /\ SnapshotsAwaited(i)'
  BY <1>2, <1>6, <1>8, NowTold, StillAwaited
<1>10. \A j \in Supervisors : j # i => Told(j)' /\ SnapshotsAwaited(j)'
  BY <1>2, <1>4, <1>6, OthersStill DEF npShared
<1> QED
  BY <1>7, <1>9, <1>10 DEF NowPlayingIInv

LEMMA LoseLeaseInv ==
  ASSUME NowPlayingIInv, NEW i \in Supervisors, LoseLease(i)
  PROVE  NowPlayingIInv'
<1>1. /\ held' = [held EXCEPT ![i] = FALSE]
      /\ state' = [state EXCEPT ![i] = "idle"] /\ error' = [error EXCEPT ![i] = "none"]
      /\ lastEvent' = [lastEvent EXCEPT ![i] = 0]
      /\ lastPlaying' = [lastPlaying EXCEPT ![i] = 0] /\ armed' = [armed EXCEPT ![i] = FALSE]
      /\ wire' = [wire EXCEPT ![i] = Append(@, LossRecord(i))]
      /\ UNCHANGED <<player, starting, pushed, chain, npShared>>
  BY DEF LoseLease, Set
<1>2. "idle" \in States /\ "none" \in ErrorKinds
  BY DEF States, ErrorKinds
<1>3. /\ state' \in [Supervisors -> States] /\ error' \in [Supervisors -> ErrorKinds]
      /\ lastEvent' \in [Supervisors -> Nat]
      /\ state'[i] = "idle" /\ error'[i] = "none" /\ lastEvent'[i] = 0
      /\ \A j \in Supervisors : j # i =>
           state'[j] = state[j] /\ error'[j] = error[j] /\ lastEvent'[j] = lastEvent[j]
  BY <1>1, <1>2 DEF NowPlayingIInv, NowPlayingTypeOK
<1>4. PICK r \in HealthRecords : r = LossRecord(i)
  BY <1>2, HealthIsRecord DEF LossRecord
<1>5. /\ wire' \in [Supervisors -> Seq(HealthRecords \cup Snapshots)]
      /\ wire'[i] = Append(wire[i], r)
      /\ \A j \in Supervisors : j # i => wire'[j] = wire[j]
  BY <1>1, <1>4, SendsEffect
<1>6. NowPlayingTypeOK'
  BY <1>1, <1>3, <1>5 DEF NowPlayingIInv, NowPlayingTypeOK, npShared
<1>7. r.from = i /\ r.state = state'[i] /\ r.error = error'[i] /\ r.at = lastEvent'[i]
  BY <1>3, <1>4 DEF LossRecord, HealthOf
<1>8. Told(i)' /\ SnapshotsAwaited(i)'
  BY <1>1, <1>5, <1>7, NowTold, StillAwaited
<1>9. \A j \in Supervisors : j # i => Told(j)' /\ SnapshotsAwaited(j)'
  BY <1>1, <1>3, <1>5, OthersStill DEF npShared
<1> QED
  BY <1>6, <1>8, <1>9 DEF NowPlayingIInv


\* A chain is begun in a free slot.
LEMMA PersistEffect ==
  ASSUME NowPlayingIInv, NEW i \in Supervisors, NEW kind \in {"event", "tick"}, NEW p \in Nat,
         Persist(i, kind, p)
  PROVE  /\ chain' \in [Supervisors -> [Chains -> Work \cup {NoWork}]]
         /\ \A j \in Supervisors : j # i => chain'[j] = chain[j]
         /\ \E c \in Chains :
              /\ chain[i][c] = NoWork
              /\ chain'[i][c] # NoWork /\ chain'[i][c].kind = kind
              /\ \A d \in Chains : d # c => chain'[i][d] = chain[i][d]
<1>1. PICK c \in Chains :
        /\ chain[i][c] = NoWork
        /\ chain' = [chain EXCEPT ![i][c] = [kind |-> kind, at |-> "row", payload |-> p]]
  BY DEF Persist
<1>2. [kind |-> kind, at |-> "row", payload |-> p] \in Work
  BY DEF Work
<1>3. chain \in [Supervisors -> [Chains -> Work \cup {NoWork}]]
  BY DEF NowPlayingIInv, NowPlayingTypeOK
<1>4. chain'[i][c] \in Work /\ chain'[i][c].kind = kind
  BY <1>1, <1>2, <1>3
<1>5. chain'[i][c] # NoWork
  BY <1>1, <1>4, NowPlayingAssumption
<1> QED
  BY <1>1, <1>2, <1>3, <1>4, <1>5

LEMMA EventInv ==
  ASSUME NowPlayingIInv, NEW i \in Supervisors, Event(i)
  PROVE  NowPlayingIInv'
<1> DEFINE p == pushed[i] + 1
<1>1. /\ pushed' = [pushed EXCEPT ![i] = p] /\ lastEvent' = [lastEvent EXCEPT ![i] = p]
      /\ error' = [error EXCEPT ![i] = "none"]
      /\ lastPlaying' = [lastPlaying EXCEPT ![i] = IF player[p] = "paused" THEN 0 ELSE p]
      /\ armed' = [armed EXCEPT ![i] = TickerAfter(i, p)]
      /\ Persist(i, "event", p)
      /\ UNCHANGED <<player, held, starting, state, wire, npShared>>
  BY DEF Event, Set
<1>2. p \in Nat /\ TickerAfter(i, p) \in BOOLEAN /\ "none" \in ErrorKinds
  BY DEF NowPlayingIInv, NowPlayingTypeOK, TickerAfter, ErrorKinds
<1> HIDE DEF p
<1>3. PICK c \in Chains :
        /\ chain[i][c] = NoWork
        /\ chain'[i][c] # NoWork /\ chain'[i][c].kind = "event"
        /\ \A d \in Chains : d # c => chain'[i][d] = chain[i][d]
  BY <1>1, <1>2, PersistEffect
<1>4. /\ chain' \in [Supervisors -> [Chains -> Work \cup {NoWork}]]
      /\ \A j \in Supervisors : j # i => chain'[j] = chain[j]
  BY <1>1, <1>2, PersistEffect
<1>5. NowPlayingTypeOK'
  BY <1>1, <1>2, <1>4 DEF NowPlayingIInv, NowPlayingTypeOK, npShared
<1>6. Busy(i)'
  BY <1>3 DEF Busy
<1>7. Told(i)'
  BY <1>1, <1>6, StillTold DEF npShared
<1>8. SnapshotsAwaited(i)'
  BY <1>1, <1>3, StillAwaited
<1>9. \A j \in Supervisors : j # i => error'[j] = error[j] /\ lastEvent'[j] = lastEvent[j]
  BY <1>1 DEF NowPlayingIInv, NowPlayingTypeOK
<1>10. \A j \in Supervisors : j # i => Told(j)' /\ SnapshotsAwaited(j)'
  BY <1>1, <1>4, <1>9, OthersStill DEF npShared
<1> QED
  BY <1>5, <1>7, <1>8, <1>10 DEF NowPlayingIInv

LEMMA TickInv ==
  ASSUME NowPlayingIInv, NEW i \in Supervisors, Tick(i)
  PROVE  NowPlayingIInv'
<1>1. Persist(i, "tick", lastPlaying[i]) /\ UNCHANGED <<player, npSupervisor, wire, npShared>>
      /\ lastPlaying[i] \in Nat
  BY DEF Tick, NowPlayingIInv, NowPlayingTypeOK
<1>2. PICK c \in Chains :
        /\ chain[i][c] = NoWork
        /\ chain'[i][c] # NoWork /\ chain'[i][c].kind = "tick"
        /\ \A d \in Chains : d # c => chain'[i][d] = chain[i][d]
  BY <1>1, PersistEffect
<1>3. /\ chain' \in [Supervisors -> [Chains -> Work \cup {NoWork}]]
      /\ \A j \in Supervisors : j # i => chain'[j] = chain[j]
  BY <1>1, PersistEffect
<1>4. NowPlayingTypeOK'
  BY <1>1, <1>3 DEF NowPlayingIInv, NowPlayingTypeOK, npShared, npSupervisor
<1>5. Busy(i)' <=> Busy(i)
  BY <1>2 DEF Busy
<1>6. Told(i)'
  BY <1>1, <1>5, StillTold DEF npShared, npSupervisor
<1>7. SnapshotsAwaited(i)'
  BY <1>1, <1>2, StillAwaited
<1>8. \A j \in Supervisors : j # i => Told(j)' /\ SnapshotsAwaited(j)'
  BY <1>1, <1>3, OthersStill DEF npShared, npSupervisor
<1> QED
  BY <1>4, <1>6, <1>7, <1>8 DEF NowPlayingIInv

LEMMA RowWrittenInv ==
  ASSUME NowPlayingIInv, NEW i \in Supervisors, NEW c \in Chains, RowWritten(i, c)
  PROVE  NowPlayingIInv'
<1>1. /\ chain[i][c] # NoWork /\ chain[i][c].at = "row"
      /\ lastKnown' = chain[i][c].payload \/ UNCHANGED lastKnown
      /\ chain' = [chain EXCEPT ![i][c].at = "redis"]
      /\ wire' = [wire EXCEPT ![i] =
                    Append(@, [key |-> "snapshot", slot |-> c, payload |-> chain[i][c].payload])]
      /\ UNCHANGED <<player, npSupervisor, snapshot, health>>
  BY DEF RowWritten
<1>2. chain \in [Supervisors -> [Chains -> Work \cup {NoWork}]] /\ chain[i][c] \in Work
      /\ wire \in [Supervisors -> Seq(HealthRecords \cup Snapshots)]
  BY <1>1 DEF NowPlayingIInv, NowPlayingTypeOK
<1>3. PICK w \in Work : w = [chain[i][c] EXCEPT !.at = "redis"]
  BY <1>2 DEF Work
<1>4. w.kind = chain[i][c].kind /\ w.at = "redis" /\ w # NoWork
  BY <1>2, <1>3, NowPlayingAssumption DEF Work
<1>5. /\ chain' \in [Supervisors -> [Chains -> Work \cup {NoWork}]]
      /\ chain'[i][c] = w /\ \A d \in Chains : d # c => chain'[i][d] = chain[i][d]
      /\ \A j \in Supervisors : j # i => chain'[j] = chain[j]
  BY <1>1, <1>2, <1>3
<1>6. PICK s \in Snapshots : s = [key |-> "snapshot", slot |-> c, payload |-> chain[i][c].payload]
  BY <1>2 DEF Snapshots, Work
<1>7. /\ wire' \in [Supervisors -> Seq(HealthRecords \cup Snapshots)]
      /\ wire'[i] = Append(wire[i], s)
      /\ \A j \in Supervisors : j # i => wire'[j] = wire[j]
  <2>1. Append(wire[i], s) \in Seq(HealthRecords \cup Snapshots)
    BY <1>2
  <2> QED
    BY <1>1, <1>2, <1>6, <2>1
<1>8. NowPlayingTypeOK'
  <2>1. lastKnown' \in Nat
    BY <1>1, <1>2 DEF NowPlayingIInv, NowPlayingTypeOK, Work
  <2> QED
    BY <1>1, <1>5, <1>7, <2>1 DEF NowPlayingIInv, NowPlayingTypeOK, npSupervisor
<1>9. Busy(i)' <=> Busy(i)
  BY <1>1, <1>4, <1>5 DEF Busy
<1>10. Told(i)'
  BY <1>1, <1>7, <1>9, StillTold DEF npSupervisor
<1>11. SnapshotsAwaited(i)'
  <2>1. /\ DOMAIN wire[i] = 1..Len(wire[i]) /\ DOMAIN wire'[i] = 1..Len(wire[i]) + 1
        /\ \A k \in 1..Len(wire[i]) : wire'[i][k] = wire[i][k]
        /\ wire'[i][Len(wire[i]) + 1] = s /\ Len(wire[i]) \in Nat
    BY <1>2, <1>7
  <2>2. \A k \in DOMAIN wire[i] : wire[i][k].key = "snapshot" =>
          /\ wire[i][k].slot \in Chains /\ wire[i][k].slot # c
          /\ chain[i][wire[i][k].slot] # NoWork /\ chain[i][wire[i][k].slot].at = "redis"
          /\ \A m \in DOMAIN wire[i] :
               wire[i][m].key = "snapshot" /\ wire[i][m].slot = wire[i][k].slot => m = k
    <3>1. \A k \in DOMAIN wire[i] : wire[i][k].key = "snapshot" => wire[i][k].slot \in Chains
      BY <1>2 DEF HealthRecords, Snapshots
    <3>2. SnapshotsAwaited(i)
      BY DEF NowPlayingIInv
    <3> QED
      BY <1>1, <3>1, <3>2 DEF SnapshotsAwaited
  <2>3. s.slot = c
    BY <1>6
  <2>4. ASSUME NEW k \in DOMAIN wire'[i], wire'[i][k].key = "snapshot"
        PROVE  /\ chain'[i][wire'[i][k].slot] # NoWork /\ chain'[i][wire'[i][k].slot].at = "redis"
               /\ \A m \in DOMAIN wire'[i] :
                    wire'[i][m].key = "snapshot" /\ wire'[i][m].slot = wire'[i][k].slot => m = k
    <3>1. CASE k = Len(wire[i]) + 1
      <4>1. wire'[i][k] = s /\ chain'[i][c] # NoWork /\ chain'[i][c].at = "redis"
        BY <1>4, <1>5, <2>1, <3>1
      <4>2. \A m \in DOMAIN wire'[i] : m # k => m \in DOMAIN wire[i] /\ wire'[i][m] = wire[i][m]
        BY <2>1, <3>1
      <4> QED
        BY <2>2, <2>3, <4>1, <4>2
    <3>2. CASE k \in 1..Len(wire[i])
      <4>1. wire'[i][k] = wire[i][k] /\ k \in DOMAIN wire[i]
        BY <2>1, <3>2
      <4>2. wire[i][k].slot \in Chains /\ wire[i][k].slot # c
        BY <2>2, <2>4, <4>1
      <4>3. chain'[i][wire'[i][k].slot] = chain[i][wire[i][k].slot]
        BY <1>5, <4>1, <4>2
      <4>4. ASSUME NEW m \in DOMAIN wire'[i],
                   wire'[i][m].key = "snapshot", wire'[i][m].slot = wire'[i][k].slot
            PROVE  m = k
        <5>1. m # Len(wire[i]) + 1
          BY <2>1, <2>3, <4>1, <4>2, <4>4
        <5>2. m \in DOMAIN wire[i] /\ wire'[i][m] = wire[i][m]
          BY <2>1, <5>1
        <5> QED
          BY <2>2, <2>4, <4>1, <4>4, <5>2
      <4> QED
        BY <2>2, <2>4, <4>1, <4>3, <4>4
    <3> QED
      BY <2>1, <3>1, <3>2
  <2> QED
    BY <2>4 DEF SnapshotsAwaited
<1>12. \A j \in Supervisors : j # i => Told(j)' /\ SnapshotsAwaited(j)'
  BY <1>1, <1>5, <1>7, OthersStill DEF npSupervisor
<1> QED
  BY <1>8, <1>10, <1>11, <1>12 DEF NowPlayingIInv

LEMMA PublishedInv ==
  ASSUME NowPlayingIInv, NEW i \in Supervisors, NEW c \in Chains, Published(i, c)
  PROVE  NowPlayingIInv'
<1>1. /\ chain[i][c] # NoWork /\ chain[i][c].at = "gateway"
      /\ chain' = [chain EXCEPT ![i][c] = NoWork]
      /\ IF chain[i][c].kind = "event" THEN SendHealth(i, state[i], error[i], lastEvent[i])
                                       ELSE UNCHANGED wire
      /\ UNCHANGED <<player, npSupervisor, npShared>>
  BY DEF Published
<1>2. /\ chain' \in [Supervisors -> [Chains -> Work \cup {NoWork}]]
      /\ chain'[i][c] = NoWork /\ \A d \in Chains : d # c => chain'[i][d] = chain[i][d]
      /\ \A j \in Supervisors : j # i => chain'[j] = chain[j]
  BY <1>1 DEF NowPlayingIInv, NowPlayingTypeOK
<1>3. PICK r \in HealthRecords : r = HealthOf(i, state[i], error[i], lastEvent[i])
  BY HealthIsRecord DEF NowPlayingIInv, NowPlayingTypeOK
<1>4. /\ wire' \in [Supervisors -> Seq(HealthRecords \cup Snapshots)]
      /\ wire'[i] = IF chain[i][c].kind = "event" THEN Append(wire[i], r) ELSE wire[i]
      /\ \A j \in Supervisors : j # i => wire'[j] = wire[j]
  <2>1. CASE chain[i][c].kind = "event"
    <3>1. wire' = [wire EXCEPT ![i] = Append(@, r)]
      BY <1>1, <1>3, <2>1 DEF SendHealth
    <3> QED
      BY <2>1, <3>1, SendsEffect
  <2>2. CASE chain[i][c].kind # "event"
    BY <1>1, <2>2 DEF NowPlayingIInv, NowPlayingTypeOK
  <2> QED
    BY <2>1, <2>2
<1>5. NowPlayingTypeOK'
  BY <1>1, <1>2, <1>4 DEF NowPlayingIInv, NowPlayingTypeOK, npSupervisor, npShared
<1>6. Told(i)'
  <2>1. CASE chain[i][c].kind = "event"
    <3>1. r.from = i /\ r.state = state'[i] /\ r.error = error'[i] /\ r.at = lastEvent'[i]
      BY <1>1, <1>3 DEF HealthOf, npSupervisor
    <3> QED
      BY <1>4, <2>1, <3>1, NowTold
  <2>2. CASE chain[i][c].kind # "event"
    <3>1. Busy(i)' <=> Busy(i)
      BY <1>2, <2>2 DEF Busy
    <3> QED
      BY <1>1, <1>4, <2>2, <3>1, StillTold DEF npSupervisor, npShared
  <2> QED
    BY <2>1, <2>2
<1>7. SnapshotsAwaited(i)'
  BY <1>1, <1>2, <1>4, StillAwaited
<1>8. \A j \in Supervisors : j # i => Told(j)' /\ SnapshotsAwaited(j)'
  BY <1>1, <1>2, <1>4, OthersStill DEF npSupervisor, npShared
<1> QED
  BY <1>5, <1>6, <1>7, <1>8 DEF NowPlayingIInv


LEMMA RedisRunsInv ==
  ASSUME NowPlayingIInv, NEW i \in Supervisors, RedisRuns(i)
  PROVE  NowPlayingIInv'
<1>1. wire[i] # <<>> /\ wire' = [wire EXCEPT ![i] = Tail(@)]
      /\ UNCHANGED <<player, npSupervisor, lastKnown>>
  BY DEF RedisRuns
<1>2. wire[i] \in Seq(HealthRecords \cup Snapshots)
  BY DEF NowPlayingIInv, NowPlayingTypeOK
<1>3. PICK w \in HealthRecords \cup Snapshots : w = Head(wire[i]) /\ w = wire[i][1]
  BY <1>1, <1>2
<1>4. /\ Len(wire[i]) \in Nat \ {0} /\ DOMAIN wire[i] = 1..Len(wire[i])
      /\ DOMAIN wire'[i] = 1..Len(wire[i]) - 1
      /\ \A k \in 1..Len(wire[i]) - 1 : wire'[i][k] = wire[i][k + 1]
      /\ wire' \in [Supervisors -> Seq(HealthRecords \cup Snapshots)]
      /\ \A j \in Supervisors : j # i => wire'[j] = wire[j]
  <2>1. /\ Len(wire[i]) \in Nat \ {0} /\ DOMAIN wire[i] = 1..Len(wire[i])
        /\ Tail(wire[i]) \in Seq(HealthRecords \cup Snapshots)
        /\ DOMAIN Tail(wire[i]) = 1..Len(wire[i]) - 1
        /\ \A k \in 1..Len(wire[i]) - 1 : Tail(wire[i])[k] = wire[i][k + 1]
    BY <1>1, <1>2
  <2>2. wire \in [Supervisors -> Seq(HealthRecords \cup Snapshots)]
    BY DEF NowPlayingIInv, NowPlayingTypeOK
  <2> QED
    BY <1>1, <2>1, <2>2
<1>5. \A k \in DOMAIN wire'[i] : k + 1 \in DOMAIN wire[i] /\ k + 1 > 1 /\ wire'[i][k] = wire[i][k + 1]
  BY <1>4
<1>6. \A k \in DOMAIN wire[i] : k # 1 => k - 1 \in DOMAIN wire'[i] /\ wire'[i][k - 1] = wire[i][k]
  BY <1>4
<1>7. \A k \in DOMAIN wire'[i] : wire'[i][k].key = "health" =>
        /\ wire'[i][k].from = i
        /\ (\A m \in DOMAIN wire'[i] : m > k => wire'[i][m].key # "health") => Word(i, wire[i][k + 1])
  <2> SUFFICES ASSUME NEW k \in DOMAIN wire'[i], wire'[i][k].key = "health"
               PROVE  /\ wire'[i][k].from = i
                      /\ (\A m \in DOMAIN wire'[i] : m > k => wire'[i][m].key # "health")
                           => Word(i, wire[i][k + 1])
    OBVIOUS
  <2>1. k + 1 \in DOMAIN wire[i] /\ wire'[i][k] = wire[i][k + 1]
    BY <1>5
  <2>2. wire[i][k + 1].from = i
    BY <2>1 DEF NowPlayingIInv, Told
  <2>3. ASSUME \A m \in DOMAIN wire'[i] : m > k => wire'[i][m].key # "health"
        PROVE  \A m \in DOMAIN wire[i] : m > k + 1 => wire[i][m].key # "health"
    <3> SUFFICES ASSUME NEW m \in DOMAIN wire[i], m > k + 1 PROVE wire[i][m].key # "health"
      OBVIOUS
    <3>1. m # 1 /\ m - 1 > k
      BY <1>4
    <3> QED
      BY <1>6, <2>3, <3>1
  <2>4. ASSUME \A m \in DOMAIN wire'[i] : m > k => wire'[i][m].key # "health"
        PROVE  Word(i, wire[i][k + 1])
    BY <2>1, <2>3, <2>4 DEF NowPlayingIInv, Told
  <2> QED
    BY <2>1, <2>2, <2>4
<1>8. \A k \in DOMAIN wire'[i] : wire'[i][k].key = "snapshot" =>
        /\ wire'[i][k].slot \in Chains
        /\ w.key = "snapshot" => wire'[i][k].slot # w.slot
        /\ chain[i][wire'[i][k].slot] # NoWork /\ chain[i][wire'[i][k].slot].at = "redis"
        /\ \A m \in DOMAIN wire'[i] :
             wire'[i][m].key = "snapshot" /\ wire'[i][m].slot = wire'[i][k].slot => m = k
  <2>1. \A k \in DOMAIN wire[i] : wire[i][k].key = "snapshot" =>
          /\ wire[i][k].slot \in Chains
          /\ chain[i][wire[i][k].slot] # NoWork /\ chain[i][wire[i][k].slot].at = "redis"
          /\ \A m \in DOMAIN wire[i] :
               wire[i][m].key = "snapshot" /\ wire[i][m].slot = wire[i][k].slot => m = k
    <3>1. \A k \in DOMAIN wire[i] : wire[i][k].key = "snapshot" => wire[i][k].slot \in Chains
      BY <1>2 DEF HealthRecords, Snapshots
    <3> QED
      BY <3>1 DEF NowPlayingIInv, SnapshotsAwaited
  <2> SUFFICES ASSUME NEW k \in DOMAIN wire'[i], wire'[i][k].key = "snapshot"
               PROVE  /\ wire'[i][k].slot \in Chains
                      /\ w.key = "snapshot" => wire'[i][k].slot # w.slot
                      /\ chain[i][wire'[i][k].slot] # NoWork /\ chain[i][wire'[i][k].slot].at = "redis"
                      /\ \A m \in DOMAIN wire'[i] :
                           wire'[i][m].key = "snapshot" /\ wire'[i][m].slot = wire'[i][k].slot => m = k
    OBVIOUS
  <2>2. k + 1 \in DOMAIN wire[i] /\ k + 1 # 1 /\ wire'[i][k] = wire[i][k + 1] /\ k \in Nat
    BY <1>4, <1>5
  <2>3. w.key = "snapshot" => wire[i][k + 1].slot # w.slot
    <3>1. 1 \in DOMAIN wire[i]
      BY <1>4
    <3> QED
      BY <1>3, <2>1, <2>2, <3>1
  <2>4. ASSUME NEW m \in DOMAIN wire'[i],
               wire'[i][m].key = "snapshot", wire'[i][m].slot = wire'[i][k].slot
        PROVE  m = k
    <3>1. m + 1 \in DOMAIN wire[i] /\ wire'[i][m] = wire[i][m + 1] /\ m \in Nat
      BY <1>4, <1>5
    <3>2. m + 1 = k + 1
      BY <2>1, <2>2, <2>4, <3>1
    <3> QED
      BY <2>2, <3>1, <3>2
  <2> QED
    BY <2>1, <2>2, <2>3, <2>4
<1>9. CASE w.key = "health"
  <2>1. health' = w /\ UNCHANGED <<snapshot, chain>>
    BY <1>1, <1>3, <1>9 DEF RedisRuns
  <2>2. w \in HealthRecords /\ w.from = i
    <3>1. 1 \in DOMAIN wire[i]
      BY <1>4
    <3> QED
      BY <1>3, <1>9, <3>1 DEF HealthRecords, Snapshots, NowPlayingIInv, Told
  <2>3. NowPlayingTypeOK'
    BY <1>1, <1>4, <2>1, <2>2 DEF NowPlayingIInv, NowPlayingTypeOK, npSupervisor
  <2>4. \A r : Word(i, r) => Word(i, r)'
    BY <1>1, <2>1 DEF Word, Busy, npSupervisor
  <2>5. ASSUME \A k \in DOMAIN wire'[i] : wire'[i][k].key # "health"
        PROVE  Word(i, w)
    <3>1. \A m \in DOMAIN wire[i] : m > 1 => wire[i][m].key # "health"
      BY <1>4, <1>6, <2>5
    <3>2. 1 \in DOMAIN wire[i]
      BY <1>4
    <3> QED
      BY <1>3, <1>9, <3>1, <3>2 DEF NowPlayingIInv, Told
  <2>6. Told(i)'
    BY <1>5, <1>7, <2>1, <2>4, <2>5 DEF Told, Word
  <2>7. SnapshotsAwaited(i)'
    BY <1>8, <2>1 DEF SnapshotsAwaited
  <2>8. \A j \in Supervisors : j # i => Told(j)' /\ SnapshotsAwaited(j)'
    BY <1>1, <1>4, <2>1, <2>2, OthersStill DEF npSupervisor
  <2> QED
    BY <2>3, <2>6, <2>7, <2>8 DEF NowPlayingIInv
<1>10. CASE w.key = "snapshot"
  <2>1. /\ snapshot' = w.payload /\ UNCHANGED health
        /\ chain' = [chain EXCEPT ![i][w.slot].at = "gateway"]
    BY <1>1, <1>3, <1>10 DEF RedisRuns
  <2>2. w.slot \in Chains /\ w.payload \in Nat /\ chain[i][w.slot] # NoWork
    <3>1. 1 \in DOMAIN wire[i] /\ SnapshotsAwaited(i)
      BY <1>4 DEF NowPlayingIInv
    <3> QED
      BY <1>3, <1>10, <3>1 DEF SnapshotsAwaited, HealthRecords, Snapshots
  <2>3. chain \in [Supervisors -> [Chains -> Work \cup {NoWork}]] /\ chain[i][w.slot] \in Work
    BY <2>2 DEF NowPlayingIInv, NowPlayingTypeOK
  <2>4. PICK q \in Work : q = [chain[i][w.slot] EXCEPT !.at = "gateway"]
    BY <2>3 DEF Work
  <2>5. q.kind = chain[i][w.slot].kind /\ q # NoWork
    BY <2>3, <2>4, NowPlayingAssumption DEF Work
  <2>6. /\ chain' \in [Supervisors -> [Chains -> Work \cup {NoWork}]]
        /\ chain'[i][w.slot] = q /\ \A d \in Chains : d # w.slot => chain'[i][d] = chain[i][d]
        /\ \A j \in Supervisors : j # i => chain'[j] = chain[j]
    BY <2>1, <2>2, <2>3, <2>4
  <2>7. NowPlayingTypeOK'
    BY <1>1, <1>4, <2>1, <2>2, <2>6 DEF NowPlayingIInv, NowPlayingTypeOK, npSupervisor
  <2>8. Busy(i)' <=> Busy(i)
    BY <2>2, <2>5, <2>6 DEF Busy
  <2>9. \A r : Word(i, r) => Word(i, r)'
    BY <1>1, <2>8 DEF Word, npSupervisor
  <2>10. ASSUME \A k \in DOMAIN wire'[i] : wire'[i][k].key # "health", health # NoWork, health.from = i
         PROVE  Word(i, health)
    <3>1. \A m \in DOMAIN wire[i] : wire[i][m].key # "health"
      BY <1>3, <1>6, <1>10, <2>10
    <3> QED
      BY <2>10, <3>1 DEF NowPlayingIInv, Told
  <2>11. Told(i)'
    BY <1>5, <1>7, <2>1, <2>9, <2>10 DEF Told, Word
  <2>12. SnapshotsAwaited(i)'
    BY <1>8, <1>10, <2>6 DEF SnapshotsAwaited
  <2>13. \A j \in Supervisors : j # i => Told(j)' /\ SnapshotsAwaited(j)'
    BY <1>1, <1>4, <2>1, <2>6, OthersStill DEF npSupervisor
  <2> QED
    BY <2>7, <2>11, <2>12, <2>13 DEF NowPlayingIInv
<1> QED
  BY <1>1, <1>3, <1>9, <1>10 DEF RedisRuns

LEMMA NowPlayingStep == NowPlayingIInv /\ [NowPlayingNext]_npVars => NowPlayingIInv'
<1> SUFFICES ASSUME NowPlayingIInv, [NowPlayingNext]_npVars PROVE NowPlayingIInv'
  OBVIOUS
<1>1. CASE PlayerChanges
  <2>1. player' \in Seq({"paused", "playing", "unknown"})
        /\ UNCHANGED <<npSupervisor, chain, wire, npShared>>
    BY <1>1 DEF PlayerChanges, NowPlayingIInv, NowPlayingTypeOK
  <2>2. NowPlayingTypeOK'
    BY <2>1 DEF NowPlayingIInv, NowPlayingTypeOK, npSupervisor, npShared
  <2>3. \A i \in Supervisors : SnapshotsAwaited(i)' /\ Told(i)'
    BY <2>1, OthersStill DEF npSupervisor, npShared
  <2> QED
    BY <2>2, <2>3 DEF NowPlayingIInv
<1>2. CASE NowPlayingExpires
  <2>1. snapshot' = 0 /\ UNCHANGED <<player, npSupervisor, chain, wire, lastKnown, health>>
    BY <1>2 DEF NowPlayingExpires
  <2>2. NowPlayingTypeOK'
    BY <2>1 DEF NowPlayingIInv, NowPlayingTypeOK, npSupervisor
  <2>3. \A i \in Supervisors : SnapshotsAwaited(i)' /\ Told(i)'
    BY <2>1, OthersStill DEF npSupervisor
  <2> QED
    BY <2>2, <2>3 DEF NowPlayingIInv
<1>3. ASSUME NEW i \in Supervisors, GainLease(i) PROVE NowPlayingIInv'
  <2>1. /\ held' = [held EXCEPT ![i] = TRUE] /\ starting' = [starting EXCEPT ![i] = TRUE]
        /\ UNCHANGED <<player, state, error, lastEvent, lastPlaying, armed, pushed, chain, wire, npShared>>
    BY <1>3 DEF GainLease, Set
  <2>2. NowPlayingTypeOK'
    BY <2>1 DEF NowPlayingIInv, NowPlayingTypeOK, npShared
  <2>3. \A j \in Supervisors : SnapshotsAwaited(j)' /\ Told(j)'
    BY <2>1, OthersStill DEF npShared
  <2> QED
    BY <2>2, <2>3 DEF NowPlayingIInv
<1>4. CASE UNCHANGED npVars
  <2>1. UNCHANGED <<player, npSupervisor, chain, wire, npShared>>
    BY <1>4 DEF npVars
  <2>2. NowPlayingTypeOK'
    BY <2>1 DEF NowPlayingIInv, NowPlayingTypeOK, npSupervisor, npShared
  <2>3. \A i \in Supervisors : SnapshotsAwaited(i)' /\ Told(i)'
    BY <2>1, OthersStill DEF npSupervisor, npShared
  <2> QED
    BY <2>2, <2>3 DEF NowPlayingIInv
<1> QED
  BY <1>1, <1>2, <1>3, <1>4, StateChangeInv, StartListenerInv, LoseLeaseInv, EventInv, TickInv,
     RedisRunsInv, RowWrittenInv, PublishedInv DEF NowPlayingNext

\* The inductive invariant of now-playing.
THEOREM NowPlayingInvariant == NowPlayingSpec => []NowPlayingIInv
<1> QED
  BY NowPlayingInitInv, NowPlayingStep, PTL DEF NowPlayingSpec

\* The record of the status page is the writer's own last word.
THEOREM HealthIsTold == NowPlayingSpec => []HealthIsOwnWord
<1>1. NowPlayingIInv => HealthIsOwnWord
  <2> SUFFICES ASSUME NowPlayingIInv, NEW i \in Supervisors,
                      health # NoWork, health.from = i, ~Sending(i)
               PROVE  Word(i, health)
    BY DEF HealthIsOwnWord, Word, Reported
  <2>1. wire[i] \in Seq(HealthRecords \cup Snapshots)
    BY DEF NowPlayingIInv, NowPlayingTypeOK
  <2>2. \A k \in DOMAIN wire[i] : wire[i][k].key # "health"
    BY <2>1 DEF Sending
  <2> QED
    BY <2>2 DEF NowPlayingIInv, Told
<1> QED
  BY <1>1, NowPlayingInvariant, PTL

(***************************************************************************)
(* The poll loop.  What an instance holds is never older than what it      *)
(* wrote last: the status service has one fetch under way, starts it with  *)
(* an empty cache, and the gateway answers with a state at least as new as *)
(* everything there is.                                                    *)
(***************************************************************************)
USE PollAssumption DEF PollAssumption

\* One fetch at a time, and none while something is cached.
OneFlight(i) ==
  /\ \A x, y \in flight[i] : x = y
  /\ cache[i] # None => flight[i] = {}

\* What i holds, or will hold without another fetch.
Holds(i, v) == v \in Versions /\ (v = cache[i] \/ v \in flight[i])

\* Nothing comes from the future.
Known(i) ==
  /\ \A v : Holds(i, v) => v <= world
  /\ pc[i] = "set" => got[i] <= world
  /\ (snap.by = i /\ snap.val \in Versions) => snap.val <= world

\* What i holds is as new as what it is about to write, and both are as new as
\* what it wrote last.
Forward(i) ==
  /\ pc[i] = "set" => \A v : Holds(i, v) => v >= got[i]
  /\ snap.by = i =>
       /\ snap.val \in Payloads
       /\ \A v : Holds(i, v) => v >= snap.val
       /\ (pc[i] = "set" /\ got[i] # Degraded) => got[i] >= snap.val

\* What change detection remembers is what was written last, unless that is still
\* to be compared, and what the clients heard, unless a push is about to follow.
Spoken(i) ==
  /\ pc[i] \in {"set", "push"} => local[i] = got[i]
  /\ pc[i] = "push" => prev[i] = got[i]
  /\ (heard.by = i /\ pc[i] # "push") => prev[i] = heard.val
  /\ pc[i] \in {"idle", "fetch", "slow"} => prev[i] = local[i]

Fresh == \A i \in Instances : OneFlight(i) /\ Known(i) /\ Forward(i)
IInv == TypeOK /\ Fresh /\ (\A i \in Instances : Spoken(i))

LEMMA InitInv == Init => IInv
<1> SUFFICES ASSUME Init PROVE IInv
  OBVIOUS
<1>1. world \in Versions /\ snap = Written(None, None) /\ heard = Written(None, None)
  BY DEF Init, Versions
<1>4. Written(None, None) \in [val : {None} \cup Payloads, by : {None} \cup Instances]
  BY DEF Written
<1>5. 0 \in 0..MaxFlips /\ 0 \in 0..MaxFaults
  OBVIOUS
<1>3. TypeOK
  BY <1>1, <1>4, <1>5 DEF Init, TypeOK, Payloads, Degraded
<1>2. ASSUME NEW i \in Instances PROVE OneFlight(i) /\ Known(i) /\ Forward(i) /\ Spoken(i)
  BY <1>2 DEF Init, OneFlight, Known, Forward, Holds, Spoken, Written, Versions
<1> QED
  BY <1>3, <1>2 DEF IInv, Fresh

LEMMA TypeStep == TypeOK /\ [Next]_vars => TypeOK'
<1> SUFFICES ASSUME TypeOK, [Next]_vars PROVE TypeOK'
  OBVIOUS
<1> USE DEF TypeOK, Payloads, Versions, Degraded, Written
<1>1. CASE GatewayChanges
  BY <1>1 DEF GatewayChanges, process, ticks, service
<1>2. CASE SnapshotExpires
  BY <1>2 DEF SnapshotExpires, process, ticks, service
<1>3. ASSUME NEW i \in Instances, LeaseFlips(i) PROVE TypeOK'
  BY <1>3 DEF LeaseFlips, process, ticks, service
<1>4. ASSUME NEW i \in Instances, CacheExpires(i) PROVE TypeOK'
  BY <1>4 DEF CacheExpires, ticks
<1>5. ASSUME NEW i \in Instances, DirectRead(i) PROVE TypeOK'
  BY <1>5 DEF DirectRead, Joined, Fault, ticks
<1>6. ASSUME NEW i \in Instances, GatewayAnswers(i) PROVE TypeOK'
  BY <1>6 DEF GatewayAnswers, Fault, ticks
<1>7. ASSUME NEW i \in Instances, FlightLands(i) PROVE TypeOK'
  BY <1>7 DEF FlightLands, ticks
<1>8. ASSUME NEW i \in Instances, RunTick(i) PROVE TypeOK'
  BY <1>8 DEF RunTick, Joined
<1>9. ASSUME NEW i \in Instances, SetLands(i) PROVE TypeOK'
  BY <1>9 DEF SetLands, Fault, IsNews, service
<1>10. ASSUME NEW i \in Instances, SetIsRepeated(i) PROVE TypeOK'
  BY <1>10 DEF SetIsRepeated, Fault, process, ticks, service
<1>11. ASSUME NEW i \in Instances, EventLands(i) PROVE TypeOK'
  BY <1>11 DEF EventLands, Fault, service
<1>12. ASSUME NEW i \in Instances, SlowLaneDone(i) PROVE TypeOK'
  BY <1>12 DEF SlowLaneDone, service
<1>13. ASSUME NEW i \in Instances, Crash(i) PROVE TypeOK'
  BY <1>13 DEF Crash, Fault
<1>14. CASE UNCHANGED vars
  BY <1>14 DEF vars, process, ticks, service
<1> QED
  BY <1>1, <1>2, <1>3, <1>4, <1>5, <1>6, <1>7, <1>8, <1>9, <1>10, <1>11, <1>12, <1>13, <1>14 DEF Next

\* The steps that touch neither the fetches, nor the ticks, nor the snapshot.
LEMMA FreshFrame ==
  ASSUME TypeOK, Fresh, UNCHANGED <<pc, got, flight, cache, snap>>, world' \in Nat, world <= world'
  PROVE  Fresh'
BY DEF Fresh, OneFlight, Known, Forward, Holds, TypeOK, Versions, Payloads, Degraded

LEMMA FreshStep == TypeOK /\ TypeOK' /\ Fresh /\ [Next]_vars => Fresh'
<1> SUFFICES ASSUME TypeOK, TypeOK', Fresh, [Next]_vars PROVE Fresh'
  OBVIOUS
<1> USE DEF TypeOK, Fresh, OneFlight, Known, Forward, Holds, Payloads, Versions, Degraded
<1>1. CASE GatewayChanges
  BY <1>1, FreshFrame DEF GatewayChanges, process, ticks, service
<1>2. CASE SnapshotExpires
  BY <1>2 DEF SnapshotExpires, Written, process, ticks, service
<1>3. ASSUME NEW i \in Instances, LeaseFlips(i) PROVE Fresh'
  BY <1>3, FreshFrame DEF LeaseFlips, process, ticks, service
<1>4. ASSUME NEW i \in Instances, CacheExpires(i) PROVE Fresh'
  BY <1>4 DEF CacheExpires, ticks
<1>5. ASSUME NEW i \in Instances, DirectRead(i) PROVE Fresh'
  BY <1>5 DEF DirectRead, Joined, ticks
<1>6. ASSUME NEW i \in Instances, GatewayAnswers(i) PROVE Fresh'
  <2>1. PICK v \in {world, Degraded} : flight' = [flight EXCEPT ![i] = (@ \ {Sent}) \cup {v}]
    BY <1>6 DEF GatewayAnswers
  <2>2. flight[i] = {Sent} /\ cache[i] = None
    BY <1>6 DEF GatewayAnswers
  <2>3. flight'[i] = {v}
    BY <2>1, <2>2
  <2>4. UNCHANGED <<world, pc, got, cache, snap>>
    BY <1>6 DEF GatewayAnswers, ticks
  <2>8. ASSUME NEW w, Holds(i, w)' PROVE w = world /\ w \in Nat
    BY <2>2, <2>3, <2>4, <2>8
  <2>9. snap.val \in Versions => snap.by # i \/ snap.val <= world
    BY <1>6
  <2>5. OneFlight(i)' /\ Known(i)' /\ Forward(i)'
    BY <2>2, <2>3, <2>4, <2>8, <2>9
  <2>6. ASSUME NEW j \in Instances, j # i PROVE flight'[j] = flight[j]
    BY <2>1, <2>6
  <2>7. ASSUME NEW j \in Instances, j # i PROVE OneFlight(j)' /\ Known(j)' /\ Forward(j)'
    BY <2>4, <2>6, <2>7
  <2> QED
    BY <2>5, <2>7
<1>7. ASSUME NEW i \in Instances, FlightLands(i) PROVE Fresh'
  <2>1. PICK v \in flight[i] \cap Payloads :
          /\ flight' = [flight EXCEPT ![i] = @ \ {v}]
          /\ cache' = [cache EXCEPT ![i] = v]
          /\ IF pc[i] = "fetch"
               THEN pc' = [pc EXCEPT ![i] = "set"] /\ got' = [got EXCEPT ![i] = v]
               ELSE UNCHANGED ticks
    BY <1>7 DEF FlightLands
  <2>2. flight'[i] = {} /\ cache'[i] = v
    BY <2>1
  <2>3. world' = world /\ snap' = snap
    BY <1>7 DEF FlightLands
  <2>4. CASE pc[i] = "fetch"
    BY <2>1, <2>2, <2>3, <2>4
  <2>5. CASE pc[i] # "fetch"
    BY <2>1, <2>2, <2>3, <2>5 DEF ticks
  <2> QED
    BY <2>4, <2>5
<1>8. ASSUME NEW i \in Instances, RunTick(i) PROVE Fresh'
  BY <1>8 DEF RunTick, Joined
<1>9. ASSUME NEW i \in Instances, SetLands(i) PROVE Fresh'
  <2>1. UNCHANGED <<world, got, flight, cache>> /\ pc[i] = "set"
    BY <1>9 DEF SetLands, service
  <2>2. pc' \in {[pc EXCEPT ![i] = "push"], [pc EXCEPT ![i] = "slow"]}
    BY <1>9 DEF SetLands
  <2>3. snap' = snap \/ snap' = Written(got[i], i)
    BY <1>9 DEF SetLands
  <2> QED
    BY <2>1, <2>2, <2>3 DEF Written
<1>10. ASSUME NEW i \in Instances, SetIsRepeated(i) PROVE Fresh'
  BY <1>10 DEF SetIsRepeated, Written, process, ticks, service
<1>11. ASSUME NEW i \in Instances, EventLands(i) PROVE Fresh'
  BY <1>11 DEF EventLands, service
<1>12. ASSUME NEW i \in Instances, SlowLaneDone(i) PROVE Fresh'
  BY <1>12 DEF SlowLaneDone, service
<1>13. ASSUME NEW i \in Instances, Crash(i) PROVE Fresh'
  BY <1>13 DEF Crash
<1>14. CASE UNCHANGED vars
  BY <1>14, FreshFrame DEF vars, process, ticks, service
<1> QED
  BY <1>1, <1>2, <1>3, <1>4, <1>5, <1>6, <1>7, <1>8, <1>9, <1>10, <1>11, <1>12, <1>13, <1>14 DEF Next

LEMMA SpokenStep ==
  TypeOK /\ (\A i \in Instances : Spoken(i)) /\ [Next]_vars => (\A i \in Instances : Spoken(i))'
<1> SUFFICES ASSUME TypeOK, \A i \in Instances : Spoken(i), [Next]_vars, NEW j \in Instances PROVE Spoken(j)'
  OBVIOUS
<1> USE DEF TypeOK, Spoken
<1>1. CASE GatewayChanges
  BY <1>1 DEF GatewayChanges, process, ticks
<1>2. CASE SnapshotExpires
  BY <1>2 DEF SnapshotExpires, process, ticks
<1>3. ASSUME NEW i \in Instances, LeaseFlips(i) PROVE Spoken(j)'
  BY <1>3 DEF LeaseFlips, process, ticks
<1>4. ASSUME NEW i \in Instances, CacheExpires(i) PROVE Spoken(j)'
  BY <1>4 DEF CacheExpires, ticks
<1>5. ASSUME NEW i \in Instances, DirectRead(i) \/ GatewayAnswers(i) PROVE Spoken(j)'
  BY <1>5 DEF DirectRead, GatewayAnswers, ticks
<1>6. ASSUME NEW i \in Instances, FlightLands(i) PROVE Spoken(j)'
  BY <1>6 DEF FlightLands, ticks, Payloads
<1>7. ASSUME NEW i \in Instances, RunTick(i) PROVE Spoken(j)'
  BY <1>7 DEF RunTick
<1>8. ASSUME NEW i \in Instances, SetLands(i) PROVE Spoken(j)'
  BY <1>8 DEF SetLands, IsNews
<1>9. ASSUME NEW i \in Instances, SetIsRepeated(i) PROVE Spoken(j)'
  BY <1>9 DEF SetIsRepeated, process, ticks
<1>10. ASSUME NEW i \in Instances, EventLands(i) PROVE Spoken(j)'
  BY <1>10 DEF EventLands, Written
<1>11. ASSUME NEW i \in Instances, SlowLaneDone(i) PROVE Spoken(j)'
  BY <1>11 DEF SlowLaneDone
<1>12. ASSUME NEW i \in Instances, Crash(i) PROVE Spoken(j)'
  BY <1>12 DEF Crash
<1>13. CASE UNCHANGED vars
  BY <1>13 DEF vars, process, ticks
<1> QED
  BY <1>1, <1>2, <1>3, <1>4, <1>5, <1>6, <1>7, <1>8, <1>9, <1>10, <1>11, <1>12, <1>13 DEF Next

LEMMA IInvHolds == Spec => []IInv
<1>1. IInv /\ [Next]_vars => IInv'
  BY TypeStep, FreshStep, SpokenStep DEF IInv
<1> QED
  BY InitInv, <1>1, PTL DEF Spec

\* The status one instance writes never goes back: only another instance's
\* write comes between a newer status and an older one.
THEOREM StatusGoesForward == Spec => SnapshotGoesForward
<1>1. ASSUME IInv, [Next]_vars
      PROVE  [(snap.by # None /\ snap'.by = snap.by /\ snap.val # Degraded /\ snap'.val # Degraded)
                => snap'.val >= snap.val]_vars
  <2>1. CASE snap' = snap
    BY <2>1, <1>1 DEF IInv, TypeOK, Fresh, Forward, Payloads, Versions, Degraded
  <2>2. ASSUME NEW i \in Instances, SetLands(i) \/ SetIsRepeated(i), snap' # snap
        PROVE  snap.by = snap'.by /\ snap.val # Degraded /\ snap'.val # Degraded => snap'.val >= snap.val
    <3>1. pc[i] = "set" /\ snap' = Written(got[i], i)
      BY <2>2 DEF SetLands, SetIsRepeated
    <3> QED
      BY <3>1, <1>1 DEF IInv, Fresh, Forward, Written
  <2>3. ASSUME SnapshotExpires, snap' # snap PROVE snap'.by = None
    BY <2>3 DEF SnapshotExpires, Written
  <2>4. snap' = snap \/ SnapshotExpires \/ \E i \in Instances : SetLands(i) \/ SetIsRepeated(i)
    BY <1>1 DEF Next, vars, GatewayChanges, LeaseFlips, CacheExpires, DirectRead, GatewayAnswers,
      FlightLands, RunTick, EventLands, SlowLaneDone, Crash
  <2> QED
    BY <2>1, <2>2, <2>3, <2>4
<1> QED
  BY IInvHolds, <1>1, PTL DEF Spec, SnapshotGoesForward

\* Change detection drops no change: between two pushes an instance remembers as
\* pushed what it wrote last, and clients that heard it last heard just that.
THEOREM NoChangeIsDropped == Spec => []LastWordIsCurrent
<1>1. IInv => LastWordIsCurrent
  BY DEF IInv, Spoken, LastWordIsCurrent
<1> QED
  BY IInvHolds, <1>1, PTL

=============================================================================
