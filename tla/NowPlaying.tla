------------------------------ MODULE NowPlaying ------------------------------
(***************************************************************************)
(* What is heard on Spotify, from the player to the visitor: the handlers  *)
(* of services/upstream/listenerSupervisor.ts that write now-playing and   *)
(* the listener's health, the row of services/nowPlayingStateStore.ts, the *)
(* two Redis keys of services/upstream/snapshotStore.ts and what           *)
(* routers/nowPlayingRouter.ts and the status page read from them.         *)
(*                                                                         *)
(* A payload is the number of the player's change it reports; a tick's is  *)
(* that change again, further on.  The player's k-th change is player[k]:  *)
(* "paused", "playing" a track whose progress is known, or "unknown", a    *)
(* playing track without one, which never ticks.  A handler is a chain of  *)
(* awaits in a slot of its own: the row first, then the snapshot, then the *)
(* gateway, and an event's also writes the health record, built then.      *)
(* Queries go over a pool and end in any order; the commands of one        *)
(* process to Redis go over one connection and keep theirs.  How listeners *)
(* and credentials change hands is ListenerSupervisor's subject: here a    *)
(* start is awaited once and may come after the lease is gone.             *)
(***************************************************************************)
EXTENDS Naturals, Sequences, FiniteSets, DealerStates

CONSTANTS
  Supervisors,    \* the processes of one environment
  NoWork,         \* no handler in a slot, no snapshot, no record
  Chains,         \* bound: handlers under way in one process
  MaxPlays,       \* bound: changes of the player
  MaxTerms,       \* bound: leaderships gained
  MaxTurns,       \* bound: moves of the listeners
  MaxMisses       \* bound: failed writes of the row, lost snapshots

\* A handler under way: what it was called for, what it waits for, what it writes.
Work == [kind : {"event", "tick"}, at : {"row", "redis", "gateway"}, payload : Nat]

ASSUME NowPlayingAssumption ==
  /\ NoWork \notin Nat \cup Supervisors \cup Work
  /\ MaxPlays \in Nat /\ MaxTerms \in Nat /\ MaxTurns \in Nat /\ MaxMisses \in Nat

VARIABLES
  player,         \* the player's changes so far
  held,           \* held[i]: active, the instance that holds the lease
  starting,       \* starting[i]: is loadCredential() awaited?
  state,          \* state[i]: listenerState
  error,          \* error[i]: the kind of lastError, "none" for null
  lastEvent,      \* lastEvent[i]: lastEventAtMs, as the change it came with
  lastPlaying,    \* lastPlaying[i]: lastPlayingEvent
  armed,          \* armed[i]: progressTimer # null
  pushed,         \* pushed[i]: the last change the listener's socket told of
  chain,          \* chain[i][c]: the handler in slot c
  wire,           \* wire[i]: commands on their way to Redis
  lastKnown,      \* the row of now_playing_state, 0 for none
  snapshot,       \* the shared snapshot, 0 once it has expired
  health,         \* the shared listener health record
  terms, turns, misses                       \* what the bounds count

npSupervisor == <<held, starting, state, error, lastEvent, lastPlaying, armed, pushed>>
npShared     == <<lastKnown, snapshot, health>>
npBounds     == <<terms, turns, misses>>
npVars       == <<player, npSupervisor, chain, wire, npShared, npBounds>>

NowPlayingInit ==
  /\ player = <<>>
  /\ held = [i \in Supervisors |-> FALSE] /\ starting = held /\ armed = held
  /\ state = [i \in Supervisors |-> "idle"] /\ error = [i \in Supervisors |-> "none"]
  /\ lastEvent = [i \in Supervisors |-> 0] /\ lastPlaying = lastEvent /\ pushed = lastEvent
  /\ chain = [i \in Supervisors |-> [c \in Chains |-> NoWork]]
  /\ wire = [i \in Supervisors |-> <<>>]
  /\ lastKnown = 0 /\ snapshot = 0 /\ health = NoWork
  /\ terms = 0 /\ turns = 0 /\ misses = 0

Set(f, i, v) == [f EXCEPT ![i] = v]

-----------------------------------------------------------------------------
(* The health record.                                                      *)

\* writeHealth(): the record is built from what the supervisor says now.
HealthOf(i, s, e, at) == [key |-> "health", from |-> i, state |-> s, error |-> e, at |-> at]

SendHealth(i, s, e, at) == wire' = [wire EXCEPT ![i] = Append(@, HealthOf(i, s, e, at))]

\* handleStateChange(): which error the record tells of.
Blamed(next, e) ==
  CASE next = "credential_dead" -> "invalid_cookie"
    [] next = "backoff"         -> IF e = "invalid_cookie" THEN e ELSE "transient"
    [] next = "connected"       -> IF e = "transient" THEN "none" ELSE e
    [] OTHER                    -> e

\* The listener moves by itself; a socket that connects is told the player's
\* state once more.  Teardown has unsubscribed the handler of an idle one.
StateChange(i) ==
  \E next \in States :
    /\ <<state[i], next>> \in Moves
    /\ turns < MaxTurns /\ turns' = turns + 1
    /\ state' = Set(state, i, next)
    /\ error' = Set(error, i, Blamed(next, error[i]))
    /\ pushed' = Set(pushed, i, IF next = "connected" /\ player # <<>> THEN Len(player) - 1 ELSE pushed[i])
    /\ IF next = "credential_dead"
         THEN lastPlaying' = Set(lastPlaying, i, 0) /\ armed' = Set(armed, i, FALSE)
         ELSE UNCHANGED <<lastPlaying, armed>>
    /\ SendHealth(i, next, error'[i], lastEvent[i])
    /\ UNCHANGED <<player, held, starting, lastEvent, chain, npShared, terms, misses>>

-----------------------------------------------------------------------------
(* Leadership.                                                             *)

\* onLeadershipGain(), up to the credential it awaits.
GainLease(i) ==
  /\ \A j \in Supervisors : ~held[j]
  /\ ~starting[i] /\ terms < MaxTerms /\ terms' = terms + 1
  /\ held' = Set(held, i, TRUE) /\ starting' = Set(starting, i, TRUE)
  /\ UNCHANGED <<player, state, error, lastEvent, lastPlaying, armed, pushed, chain, wire, npShared, turns, misses>>

\* startListenerFromCredential() once it has the cookie, or finds none.
StartListener(i) ==
  /\ starting[i] /\ starting' = Set(starting, i, FALSE)
  /\ \E first \in {"connecting", "idle"} :
       state' = Set(state, i, first) /\ SendHealth(i, first, error[i], lastEvent[i])
  /\ lastPlaying' = Set(lastPlaying, i, 0) /\ armed' = Set(armed, i, FALSE)
  /\ UNCHANGED <<player, held, error, lastEvent, pushed, chain, npShared, npBounds>>

\* onLeadershipLoss(): the record that nothing is owned here any more.
LossBeforeReset(i) == HealthOf(i, state[i], error[i], lastEvent[i])        \* (mutant)
LossRecord(i) == HealthOf(i, "idle", "none", 0)

LoseLease(i) ==
  /\ held[i] /\ held' = Set(held, i, FALSE)
  /\ state' = Set(state, i, "idle") /\ error' = Set(error, i, "none")
  /\ lastEvent' = Set(lastEvent, i, 0)
  /\ lastPlaying' = Set(lastPlaying, i, 0) /\ armed' = Set(armed, i, FALSE)
  /\ wire' = [wire EXCEPT ![i] = Append(@, LossRecord(i))]
  /\ UNCHANGED <<player, starting, pushed, chain, npShared, npBounds>>

-----------------------------------------------------------------------------
(* Events and ticks.                                                       *)

PlayerChanges ==
  /\ Len(player) < MaxPlays
  /\ \E k \in {"paused", "playing", "unknown"} : player' = Append(player, k)
  /\ UNCHANGED <<npSupervisor, chain, wire, npShared, npBounds>>

\* writeAndPublishNowPlaying() in a free slot, waiting for the row.
Persist(i, kind, p) ==
  \E c \in Chains :
    /\ chain[i][c] = NoWork
    /\ chain' = [chain EXCEPT ![i][c] = [kind |-> kind, at |-> "row", payload |-> p]]

\* ensureProgressTicker() or stopProgressTicker(), by what is playing.
NotArmedAgain(i, p) == armed[i] /\ player[p] # "paused"                     \* (mutant)
TickerAfter(i, p) == player[p] # "paused"

\* handleEvent() up to its first await.
Event(i) ==
  /\ state[i] = "connected" /\ held[i] /\ pushed[i] < Len(player)
  /\ LET p == pushed[i] + 1 IN
       /\ pushed' = Set(pushed, i, p) /\ lastEvent' = Set(lastEvent, i, p)
       /\ error' = Set(error, i, "none")
       /\ lastPlaying' = Set(lastPlaying, i, IF player[p] = "paused" THEN 0 ELSE p)
       /\ armed' = Set(armed, i, TickerAfter(i, p))
       /\ Persist(i, "event", p)
  /\ UNCHANGED <<player, held, starting, state, wire, npShared, npBounds>>

\* tickProgress() up to its first await.
Tick(i) ==
  /\ armed[i] /\ held[i] /\ lastPlaying[i] # 0 /\ player[lastPlaying[i]] = "playing"
  /\ Persist(i, "tick", lastPlaying[i])
  /\ UNCHANGED <<player, npSupervisor, wire, npShared, npBounds>>

\* saveLastNowPlaying() has an answer; a failure is swallowed.  The snapshot
\* is sent either way.
RowWritten(i, c) ==
  /\ chain[i][c] # NoWork /\ chain[i][c].at = "row"
  /\ \/ lastKnown' = chain[i][c].payload /\ UNCHANGED misses
     \/ misses < MaxMisses /\ misses' = misses + 1 /\ UNCHANGED lastKnown
  /\ chain' = [chain EXCEPT ![i][c].at = "redis"]
  /\ wire' = [wire EXCEPT ![i] =
                Append(@, [key |-> "snapshot", slot |-> c, payload |-> chain[i][c].payload])]
  /\ UNCHANGED <<player, npSupervisor, snapshot, health, terms, turns>>

\* Redis runs the next command of i; the answer to a snapshot lets its chain go on.
RedisRuns(i) ==
  /\ wire[i] # <<>> /\ wire' = [wire EXCEPT ![i] = Tail(@)]
  /\ LET command == Head(wire[i]) IN
       \/ /\ command.key = "health" /\ health' = command
          /\ UNCHANGED <<snapshot, chain>>
       \/ /\ command.key = "snapshot" /\ snapshot' = command.payload
          /\ chain' = [chain EXCEPT ![i][command.slot].at = "gateway"]
          /\ UNCHANGED health
  /\ UNCHANGED <<player, npSupervisor, lastKnown, npBounds>>

\* publish() has ended, well or badly: a tick is over, an event writes health.
Published(i, c) ==
  /\ chain[i][c] # NoWork /\ chain[i][c].at = "gateway"
  /\ chain' = [chain EXCEPT ![i][c] = NoWork]
  /\ IF chain[i][c].kind = "event" THEN SendHealth(i, state[i], error[i], lastEvent[i])
                                   ELSE UNCHANGED wire
  /\ UNCHANGED <<player, npSupervisor, npShared, npBounds>>

\* The snapshot's ten minutes are over, or Redis was flushed.
NowPlayingExpires ==
  /\ snapshot # 0 /\ snapshot' = 0
  /\ misses < MaxMisses /\ misses' = misses + 1
  /\ UNCHANGED <<player, npSupervisor, chain, wire, lastKnown, health, terms, turns>>

NowPlayingNext ==
  \/ PlayerChanges
  \/ NowPlayingExpires
  \/ \E i \in Supervisors :
       \/ StateChange(i) \/ GainLease(i) \/ StartListener(i) \/ LoseLease(i)
       \/ Event(i) \/ Tick(i) \/ RedisRuns(i)
       \/ \E c \in Chains : RowWritten(i, c) \/ Published(i, c)

\* Pushes, queries, commands and timers all happen in the end.  (The strong
\* fairness undoes a bound: no push waits until ticks leave it a slot.)
NowPlayingFairness ==
  \A i \in Supervisors :
    /\ SF_npVars(Event(i)) /\ WF_npVars(Tick(i)) /\ WF_npVars(RedisRuns(i))
    /\ \A c \in Chains : WF_npVars(RowWritten(i, c)) /\ WF_npVars(Published(i, c))

NowPlayingSpec == NowPlayingInit /\ [][NowPlayingNext]_npVars /\ NowPlayingFairness

-----------------------------------------------------------------------------
(* What is read.                                                           *)

\* GET /api/now-playing: the snapshot, else the row, else nothing plays (0).
\* (The local copy it asks for in between is never written for this feed.)
Served == IF snapshot # 0 THEN snapshot ELSE lastKnown

\* computeSpotifyStatus() while Redis answers and a credential is stored.
Reported == IF health = NoWork THEN "idle" ELSE health.state

-----------------------------------------------------------------------------
(* Properties.                                                             *)

Busy(i) == \E c \in Chains : chain[i][c] # NoWork /\ chain[i][c].kind = "event"
Sending(i) == \E k \in 1..Len(wire[i]) : wire[i][k].key = "health"
TickLands(i, c) ==
  /\ chain[i][c] # NoWork /\ chain[i][c].kind = "tick" /\ chain[i][c].at = "redis"
  /\ chain'[i][c].at = "gateway"
Following(i, kind) ==
  /\ held[i] /\ state[i] = "connected"
  /\ player # <<>> /\ player[Len(player)] = kind

\* When the record an instance wrote is the last one, and none of its own is
\* under way, the status page shows the listener's state of that instance; and
\* once its events are through, also its last error and its last event.  An
\* event builds its record several awaits after the state changed, a loss of
\* the lease in the middle of them.
HealthIsOwnWord ==
  \A i \in Supervisors :
    health # NoWork /\ health.from = i /\ ~Sending(i)
      => /\ Reported = state[i]
         /\ ~Busy(i) => health.error = error[i] /\ health.at = lastEvent[i]

\* While one instance stays connected and a track with a known progress plays
\* on, visitors end up with that track, whatever late writes an earlier event,
\* an earlier leader or a lost snapshot left behind: the ticker writes again.
PlayingIsServed ==
  \A i \in Supervisors :
    <>[]Following(i, "playing") => <>[](Served = Len(player))

\* A tick that waited for its row never replaces the pause that came in the
\* meantime: "the next real cluster event overrides the tick", says the comment
\* on LISTENER_PROGRESS_TICK_MS.
PauseOutlivesTick ==
  [][\A i \in Supervisors, c \in Chains :
       TickLands(i, c) /\ chain[i][c].payload < snapshot /\ player[snapshot] = "paused"
         => snapshot' = snapshot]_npVars
=============================================================================
