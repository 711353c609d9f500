----------------------------- MODULE DealerStates -----------------------------
(* The five public states of a dealer listener (type DealerState of          *)
(* services/listener/dealerClient.ts) and the moves it makes by itself, that *)
(* is without start() or stop().  Shared by the client, by its abstract      *)
(* specification and by the supervisor that owns listeners.                  *)

States == {"idle", "connecting", "connected", "backoff", "credential_dead"}

Moves == { <<"connecting", "connected">>,       <<"connecting", "backoff">>,
           <<"connecting", "credential_dead">>, <<"connected", "backoff">>,
           <<"backoff", "connecting">> }

===============================================================================
