---------------------------- MODULE DealerClient ----------------------------
(***************************************************************************)
(* The dealer websocket client of services/listener/dealerClient.ts: one   *)
(* reconnect loop that mints a web token, opens a socket, registers the    *)
(* connection with a PUT and then yields cluster events until it is        *)
(* stopped or the cookie is rejected.                                      *)
(*                                                                         *)
(* The program is one JavaScript thread, so each callback (a timer, a      *)
(* socket event, the continuation of an await) is one action.  A promise   *)
(* that is still pending is a record in mints or puts; nothing in the code *)
(* cancels one, so its continuation runs however late it settles, and only *)
(* the epoch it captured tells whether it still matters.                   *)
(***************************************************************************)
EXTENDS Naturals, Sequences, DealerStates

CONSTANTS
  AttemptCap,   \* BACKOFF_ATTEMPT_CAP: where the backoff exponent saturates
  MaxFaults,    \* bound: failures of the network, the minter and the dealer
  MaxCalls,     \* bound: calls of start() and stop()
  MaxPlays      \* bound: changes of the account's playback state

ASSUME DealerAssumption ==
  /\ AttemptCap \in Nat
  /\ MaxFaults \in Nat
  /\ MaxCalls \in Nat
  /\ MaxPlays \in Nat

NoSocket == 0

VARIABLES
  \* the closure variables of createDealerListener
  state, stopped, epoch, socket, token, connectionId,
  pingTimer, pongTimer, backoffTimer, backoffAttempt,
  \* what those variables do not show
  attempts,     \* how many times connect() ran; names the sockets
  mints,        \* mintToken() calls in flight: [id, epoch]
  live,         \* websockets that are open: [id, epoch, opened]
  puts,         \* connect-state PUTs in flight: [id, epoch, served, ver]
  wire,         \* cluster pushes under way on the owned socket: versions
  play,         \* the version of the account's playback state at Spotify
  emitted,      \* the last event given to the subscribers: [by, ver]
  faults, calls \* what is left of the two budgets

loop   == <<state, stopped, epoch, backoffTimer, backoffAttempt>>
conn   == <<socket, token, connectionId, pingTimer, pongTimer>>
async  == <<attempts, mints, live, puts, wire>>
world  == <<play, emitted>>
budget == <<faults, calls>>
vars   == <<loop, conn, async, world, budget>>

Init ==
  /\ state = "idle" /\ stopped = TRUE /\ epoch = 0
  /\ socket = NoSocket /\ token = FALSE /\ connectionId = FALSE
  /\ pingTimer = FALSE /\ pongTimer = FALSE
  /\ backoffTimer = FALSE /\ backoffAttempt = 0
  /\ attempts = 0 /\ mints = {} /\ live = {} /\ puts = {} /\ wire = <<>>
  /\ play = 0 /\ emitted = [by |-> NoSocket, ver |-> 0]
  /\ faults = MaxFaults /\ calls = MaxCalls

-----------------------------------------------------------------------------
(* The helpers the handlers share.                                         *)

Fault == faults > 0 /\ faults' = faults - 1 /\ UNCHANGED calls
Call  == calls > 0 /\ calls' = calls - 1 /\ UNCHANGED faults

\* The test `myEpoch !== epoch` that every continuation and handler makes.
AnyEpoch(r) == TRUE                                       \* (mutant)
Current(r) == r.epoch = epoch

ClearPing == pingTimer' = FALSE /\ pongTimer' = FALSE

\* socket.close() of teardownSocket(), and what else it does.
CloseForgotten == UNCHANGED live                          \* (mutant)
CloseSocket == live' = {s \in live : s.id # socket}

EpochKept == UNCHANGED epoch                              \* (mutant)
BumpEpoch == epoch' = epoch + 1

TeardownSocket ==
  /\ CloseSocket
  /\ socket' = NoSocket
  /\ connectionId' = FALSE
  /\ token' = FALSE
  /\ BumpEpoch
  /\ wire' = <<>>                  \* its handlers are gone

NextAttempt == IF backoffAttempt < AttemptCap THEN backoffAttempt + 1 ELSE AttemptCap

GiveUpWhenSaturated == backoffTimer' = (backoffAttempt < AttemptCap)  \* (mutant)
ArmBackoff == backoffTimer' = TRUE

\* scheduleReconnect(): the single way back into the backoff loop.
ScheduleReconnect ==
  IF stopped \/ state = "credential_dead"
    THEN UNCHANGED <<loop, conn, live, wire>>
    ELSE /\ ClearPing
         /\ TeardownSocket
         /\ state' = "backoff"
         /\ backoffAttempt' = NextAttempt
         /\ ArmBackoff
         /\ UNCHANGED stopped

\* connect() up to its await of mintToken().
Connect ==
  /\ state' = "connecting"
  /\ attempts' = attempts + 1
  /\ mints' = mints \cup {[id |-> attempts + 1, epoch |-> epoch]}

Emit(by, ver) == emitted' = [by |-> by, ver |-> ver]

-----------------------------------------------------------------------------
(* The two calls of the owner.                                             *)

Start ==
  /\ Call
  /\ state \notin {"connecting", "connected"}
  /\ stopped' = FALSE
  /\ backoffAttempt' = IF state = "credential_dead" THEN 0 ELSE backoffAttempt
  /\ backoffTimer' = FALSE
  /\ Connect
  /\ UNCHANGED <<epoch, conn, live, puts, wire, world>>

Stop ==
  /\ Call
  /\ stopped' = TRUE
  /\ ClearPing
  /\ TeardownSocket
  /\ state' = "idle"
  /\ backoffTimer' = FALSE
  /\ backoffAttempt' = 0
  /\ UNCHANGED <<attempts, mints, puts, world>>

BackoffFires ==
  /\ backoffTimer
  /\ backoffTimer' = FALSE
  /\ IF stopped \/ state = "credential_dead"
       THEN UNCHANGED <<state, attempts, mints>>
       ELSE Connect
  /\ UNCHANGED <<stopped, epoch, backoffAttempt, conn, live, puts, wire, world, budget>>

-----------------------------------------------------------------------------
(* The continuations of connect()'s await.                                 *)

KeepToken == token' = TRUE

MintSucceeds(m) ==
  /\ mints' = mints \ {m}
  /\ IF ~Current(m)
       THEN UNCHANGED <<conn, live, wire>>
       ELSE /\ KeepToken
            /\ socket' = m.id
            /\ connectionId' = FALSE
            /\ live' = live \cup {[id |-> m.id, epoch |-> m.epoch, opened |-> FALSE]}
            /\ wire' = <<>>
            /\ UNCHANGED <<pingTimer, pongTimer>>
  /\ UNCHANGED <<loop, attempts, puts, world, budget>>

\* A transient mint failure, or createSocket() throwing.
MintFails(m) ==
  /\ Fault
  /\ mints' = mints \ {m}
  /\ IF ~Current(m)
       THEN UNCHANGED <<loop, conn, live, wire>>
       ELSE ScheduleReconnect
  /\ UNCHANGED <<attempts, puts, world>>

MintRejected(m) ==
  /\ Fault
  /\ mints' = mints \ {m}
  /\ IF ~Current(m)
       THEN UNCHANGED <<loop, conn, live, wire>>
       ELSE /\ ClearPing
            /\ backoffTimer' = FALSE
            /\ TeardownSocket
            /\ state' = "credential_dead"
            /\ UNCHANGED <<stopped, backoffAttempt>>
  /\ UNCHANGED <<attempts, puts, world>>

-----------------------------------------------------------------------------
(* The socket's events and the keepalive.                                  *)

SocketOpens(s) ==
  /\ ~s.opened
  /\ live' = (live \ {s}) \cup {[s EXCEPT !.opened = TRUE]}
  /\ pingTimer' = (Current(s) \/ pingTimer)
  /\ UNCHANGED <<loop, socket, token, connectionId, pongTimer, attempts, mints,
                 puts, wire, world, budget>>

\* onclose or onerror of a socket whose handlers are still attached.
SocketFails(s) ==
  /\ Fault
  /\ IF Current(s)
       THEN ScheduleReconnect
       ELSE live' = live \ {s} /\ UNCHANGED <<loop, conn, wire>>
  /\ UNCHANGED <<attempts, mints, puts, world>>

PingTimerFires ==
  /\ pingTimer
  /\ pingTimer' = FALSE
  /\ pongTimer' = (socket # NoSocket)
  /\ UNCHANGED <<loop, socket, token, connectionId, async, world, budget>>

\* The ping cannot be sent, or no pong arrives before the pong timer fires.
KeepaliveFails ==
  /\ Fault
  /\ pongTimer \/ (pingTimer /\ socket # NoSocket)
  /\ ScheduleReconnect
  /\ UNCHANGED <<attempts, mints, puts, world>>

PongArrives(s) ==
  /\ s.opened /\ Current(s)
  /\ pongTimer' = FALSE
  /\ pingTimer' = TRUE
  /\ UNCHANGED <<loop, socket, token, connectionId, async, world, budget>>

-----------------------------------------------------------------------------
(* Registration: the dealer's first message carries the connection id, and *)
(* registerConnectState() PUTs it.                                         *)

HelloArrives(s) ==
  /\ s.opened /\ Current(s)
  /\ ~connectionId
  /\ IF token
       THEN /\ connectionId' = TRUE
            /\ puts' = puts \cup {[id |-> s.id, epoch |-> s.epoch, served |-> FALSE, ver |-> 0]}
            /\ UNCHANGED <<loop, socket, token, pingTimer, pongTimer, live, wire>>
       ELSE /\ ScheduleReconnect       \* "Should not happen"
            /\ UNCHANGED puts
  /\ UNCHANGED <<attempts, mints, world, budget>>

\* Spotify answers the PUT with the cluster as it is then.
PutServed(p) ==
  /\ ~p.served
  /\ puts' = (puts \ {p}) \cup {[p EXCEPT !.served = TRUE, !.ver = play]}
  /\ UNCHANGED <<loop, conn, attempts, mints, live, wire, world, budget>>

PutSucceeds(p) ==
  /\ p.served
  /\ puts' = puts \ {p}
  /\ IF ~Current(p)
       THEN UNCHANGED <<state, backoffAttempt, emitted>>
       ELSE /\ state' = "connected"
            /\ backoffAttempt' = 0
            /\ Emit(p.id, p.ver) \/ UNCHANGED emitted   \* no cluster in the answer
  /\ UNCHANGED <<stopped, epoch, backoffTimer, conn, attempts, mints, live, wire,
                 play, budget>>

PutFails(p) ==
  /\ Fault
  /\ puts' = puts \ {p}
  /\ IF ~Current(p)
       THEN UNCHANGED <<loop, conn, live, wire>>
       ELSE ScheduleReconnect
  /\ UNCHANGED <<attempts, mints, world>>

-----------------------------------------------------------------------------
(* Cluster events.  Spotify pushes to a connection once it has served its  *)
(* PUT; frames of one socket arrive in order.                              *)

Registered ==
  \E s \in live : /\ s.id = socket
                  /\ connectionId
                  /\ \A p \in puts : p.id = s.id => p.served

PlaybackChanges ==
  /\ play < MaxPlays
  /\ play' = play + 1
  /\ wire' = IF Registered THEN Append(wire, play + 1) ELSE wire
  /\ UNCHANGED <<loop, conn, attempts, mints, live, puts, emitted, budget>>

ClusterArrives ==
  /\ wire # <<>>
  /\ wire' = Tail(wire)
  /\ Emit(socket, Head(wire))
  /\ UNCHANGED <<loop, conn, attempts, mints, live, puts, play, budget>>

-----------------------------------------------------------------------------
Next ==
  \/ Start \/ Stop \/ BackoffFires
  \/ \E m \in mints : MintSucceeds(m) \/ MintFails(m) \/ MintRejected(m)
  \/ \E s \in live : SocketOpens(s) \/ SocketFails(s) \/ PongArrives(s) \/ HelloArrives(s)
  \/ PingTimerFires \/ KeepaliveFails
  \/ \E p \in puts : PutServed(p) \/ PutSucceeds(p) \/ PutFails(p)
  \/ PlaybackChanges \/ ClusterArrives

Spec == Init /\ [][Next]_vars

(* Timers fire, a mint and a PUT settle (both carry a timeout), a socket   *)
(* that does not fail opens, and the dealer greets every connection.  The  *)
(* last two are Spotify's: no timer of the client watches for them.        *)
Fairness ==
  /\ WF_vars(BackoffFires)
  /\ WF_vars(\E m \in mints : MintSucceeds(m))
  /\ WF_vars(\E s \in live : SocketOpens(s))
  /\ WF_vars(\E s \in live : HelloArrives(s))
  /\ WF_vars(\E p \in puts : PutServed(p))
  /\ WF_vars(\E p \in puts : PutSucceeds(p))

FairSpec == Spec /\ Fairness

-----------------------------------------------------------------------------
(* Properties.                                                             *)

\* The type invariant of the client's variables and of what is in flight.
TypeOK ==
  /\ state \in States
  /\ stopped \in BOOLEAN /\ token \in BOOLEAN /\ connectionId \in BOOLEAN
  /\ pingTimer \in BOOLEAN /\ pongTimer \in BOOLEAN /\ backoffTimer \in BOOLEAN
  /\ epoch \in Nat /\ attempts \in Nat /\ play \in Nat
  /\ socket \in Nat
  /\ backoffAttempt \in 0..AttemptCap
  /\ mints \subseteq [id : Nat \ {NoSocket}, epoch : Nat]
  /\ live \subseteq [id : Nat \ {NoSocket}, epoch : Nat, opened : BOOLEAN]
  /\ puts \subseteq [id : Nat \ {NoSocket}, epoch : Nat, served : BOOLEAN, ver : Nat]
  /\ wire \in Seq(Nat)
  /\ emitted \in [by : Nat, ver : Nat]
  /\ faults \in 0..MaxFaults /\ calls \in 0..MaxCalls

\* A client never holds a websocket it no longer knows of, whatever late
\* token or callback arrives after a stop, a restart or a reconnect.
NoLeakedSocket == \A s \in live : s.id = socket

Minting == \E m \in mints : m.epoch = epoch

\* While it should run, exactly one thing drives the loop forward: a token
\* being minted, a socket, or an armed backoff timer.  Two would be two
\* loops, none a client that sleeps for ever.
OneDriver ==
  ~stopped /\ state # "credential_dead" =>
    /\ Minting \/ socket # NoSocket \/ backoffTimer
    /\ ~(Minting /\ socket # NoSocket)
    /\ ~(Minting /\ backoffTimer)
    /\ ~(socket # NoSocket /\ backoffTimer)
    /\ \A m, n \in mints : m.epoch = epoch /\ n.epoch = epoch => m = n

\* Stopped, or dead for want of a valid cookie, it is silent: no timer is
\* armed, no socket is held and no token under way can open one.
Quiescent ==
  stopped \/ state = "credential_dead" =>
    /\ ~pingTimer /\ ~pongTimer /\ ~backoffTimer
    /\ socket = NoSocket /\ ~Minting

\* registerConnectState() always finds the token of its connection: the
\* branch commented "Should not happen" is unreachable.
TokenForRegistration == \A s \in live : s.epoch = epoch => token

\* "connected" means that the owned socket was greeted and its PUT is done.
ConnectedIsRegistered ==
  state = "connected" =>
    /\ connectionId
    /\ \E s \in live : s.id = socket /\ s.epoch = epoch /\ s.opened
    /\ \A p \in puts : p.epoch # epoch

\* A subscriber only hears of the connection the client holds at that
\* moment: no event of an earlier connection, nor any after stop().
EventsFromOwnedSocket ==
  [][emitted' # emitted => socket # NoSocket /\ emitted'.by = socket]_vars

\* The terminal state is left by a call of start() or stop() alone.
DeadUntilCalled == [][state = "credential_dead" /\ state' # state => calls' < calls]_vars

\* Once the faults are used up, a client that should run gets connected,
\* unless its cookie was rejected or it is stopped.
Recovers == ~stopped ~> (state \in {"connected", "credential_dead"} \/ stopped)

\* Why all of this holds: which state goes with which variables, what is true
\* of a socket that is held, and of a promise that is not yet out of date.
Shape ==
  /\ stopped <=> state = "idle"
  /\ backoffTimer <=> state = "backoff"
  /\ state \in {"connecting", "connected"} <=> Minting \/ socket # NoSocket
  /\ state = "connected" => connectionId
  /\ connectionId \/ pingTimer \/ pongTimer \/ wire # <<>> => socket # NoSocket

Sockets ==
  /\ \A s \in live : s.id = socket /\ s.epoch = epoch
  /\ \A s, t \in live : s = t
  /\ socket # NoSocket => live # {} /\ token
  /\ connectionId => \A s \in live : s.opened

Flights ==
  /\ \A m \in mints : m.epoch <= epoch
  /\ \A m, n \in mints : m.epoch = epoch /\ n.epoch = epoch => m = n
  /\ Minting => socket = NoSocket /\ state = "connecting"
  /\ \A p \in puts : p.epoch <= epoch
  /\ \A p \in puts : p.epoch = epoch => p.id = socket /\ connectionId /\ state = "connecting"
  /\ \A p, q \in puts : p.epoch = epoch /\ q.epoch = epoch => p = q

IInv == TypeOK /\ Shape /\ Sockets /\ Flights

\* The client does what the interface promises and nothing else.
Promise == INSTANCE DealerListener WITH
  status <- state, wanted <- ~stopped, heard <- emitted, Events <- [by : Nat, ver : Nat]
ImplementsListener == Promise!Spec

=============================================================================
