------------------------------ MODULE MCListener ------------------------------
(***************************************************************************)
(* The dealer client and the supervisor that owns one.  The supervisor is  *)
(* written against the interface the client implements (DealerListener),   *)
(* so a behaviour is one of one of them, with the fairness it needs.       *)
(***************************************************************************)
EXTENDS DealerClient, ListenerSupervisor

VARIABLE studied

\* One initial state of the supervisor will do beside the client.
ListenerInit ==
  /\ Init /\ SupervisorInit /\ studied \in {"client", "supervisor"}
  /\ studied = "client" => stored = Absent

ListenerNext ==
  /\ UNCHANGED studied
  /\ \/ studied = "client" /\ Next /\ UNCHANGED supervisorVars
     \/ studied = "supervisor" /\ SupervisorNext /\ UNCHANGED vars

ListenerSpec ==
  /\ ListenerInit /\ [][ListenerNext]_<<studied, vars, supervisorVars>>
  /\ (studied = "client" /\ Fairness) \/ (studied = "supervisor" /\ SupervisorFairness)
===============================================================================
