---------------------------- MODULE DealerListener ----------------------------
(***************************************************************************)
(* What interface DealerListener of services/listener/dealerClient.ts      *)
(* promises its owner, without tokens, sockets, epochs or timers: the      *)
(* state it shows, whether it was asked to run, and the last event it gave *)
(* its subscribers.                                                        *)
(***************************************************************************)
EXTENDS DealerStates

CONSTANT Events            \* the values an event can have

VARIABLES status, wanted, heard

vars == <<status, wanted, heard>>

Init == status = "idle" /\ ~wanted /\ heard \in Events

\* start(): idempotent while it is already connecting or connected.
Start ==
  /\ status \in {"idle", "backoff", "credential_dead"}
  /\ status' = "connecting" /\ wanted'
  /\ UNCHANGED heard

\* stop(): idempotent, from every state.
Stop == status' = "idle" /\ ~wanted' /\ UNCHANGED heard

\* A move of its own; reaching "connected" may come with the initial event.
Move ==
  /\ wanted
  /\ <<status, status'>> \in Moves
  /\ heard' \in Events
  /\ heard' # heard => status' = "connected"
  /\ UNCHANGED wanted

\* A cluster push.
Deliver ==
  /\ wanted
  /\ status \in {"connecting", "connected"}
  /\ heard' \in Events
  /\ UNCHANGED <<status, wanted>>

Next == Start \/ Stop \/ Move \/ Deliver

Spec == Init /\ [][Next]_vars

===============================================================================
