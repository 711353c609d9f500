------------------------------- MODULE MCFeeds -------------------------------
(***************************************************************************)
(* The two feeds of a visitor's page, each from its upstream to what the   *)
(* routers serve: the gateway's status, which the poll loop of the leader  *)
(* fetches, and now-playing, which its dealer listener is told.  They      *)
(* share nothing but the lease, so a behaviour is one of one of them.      *)
(***************************************************************************)
EXTENDS PollLoop, NowPlaying

VARIABLE studied

FeedsInit == Init /\ NowPlayingInit /\ studied \in {"status", "now playing"}

FeedsNext ==
  /\ UNCHANGED studied
  /\ \/ studied = "status" /\ Next /\ UNCHANGED npVars
     \/ studied = "now playing" /\ NowPlayingNext /\ UNCHANGED vars

FeedsSpec ==
  /\ FeedsInit /\ [][FeedsNext]_<<studied, vars, npVars>>
  /\ (studied = "status" /\ Fairness) \/ (studied = "now playing" /\ NowPlayingFairness)
=============================================================================
