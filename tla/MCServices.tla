----------------------------- MODULE MCServices -----------------------------
(***************************************************************************)
(* Components that never call one another, each with a state of its own.   *)
(* A behaviour is one of one of them, so that the states add up and do not *)
(* multiply; the others stay as they start.                                *)
(***************************************************************************)
EXTENDS GithubCache, WebToken, OpsReports, OpsPlan, BeaconIngest, NowPlaying, SectionOrder, Resumes

VARIABLE studied

\* Two components have several initial states: one will do beside the others.
ServicesInit ==
  /\ Init /\ MintInit /\ OpsInit /\ PlanInit /\ BeaconInit /\ NowPlayingInit /\ OrderInit /\ ResumesInit
  /\ studied \in {"calendars", "web token", "ops reports", "ops plan", "beacons", "now playing", "sections", "resumes"}
  /\ studied # "calendars" => row = None
  /\ studied # "sections" => \A s \in Sections : table[s] = Nothing

ServicesNext ==
  /\ UNCHANGED studied
  /\ \/ /\ studied = "calendars" /\ Next
        /\ UNCHANGED <<mintVars, opsVars, planVars, beaconVars, npVars, orderVars, resumeVars>>
     \/ /\ studied = "web token" /\ MintNext
        /\ UNCHANGED <<vars, opsVars, planVars, beaconVars, npVars, orderVars, resumeVars>>
     \/ /\ studied = "ops reports" /\ OpsNext
        /\ UNCHANGED <<vars, mintVars, planVars, beaconVars, npVars, orderVars, resumeVars>>
     \/ /\ studied = "ops plan" /\ PlanNext
        /\ UNCHANGED <<vars, mintVars, opsVars, beaconVars, npVars, orderVars, resumeVars>>
     \/ /\ studied = "beacons" /\ BeaconNext
        /\ UNCHANGED <<vars, mintVars, opsVars, planVars, npVars, orderVars, resumeVars>>
     \/ /\ studied = "now playing" /\ NowPlayingNext
        /\ UNCHANGED <<vars, mintVars, opsVars, planVars, beaconVars, orderVars, resumeVars>>
     \/ /\ studied = "sections" /\ OrderNext
        /\ UNCHANGED <<vars, mintVars, opsVars, planVars, beaconVars, npVars, resumeVars>>
     \/ /\ studied = "resumes" /\ ResumesNext
        /\ UNCHANGED <<vars, mintVars, opsVars, planVars, beaconVars, npVars, orderVars>>

ServicesSpec ==
  ServicesInit
    /\ [][ServicesNext]_<<studied, vars, mintVars, opsVars, planVars, beaconVars, npVars, orderVars, resumeVars>>
=============================================================================
