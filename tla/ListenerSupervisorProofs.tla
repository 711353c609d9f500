----------------------- MODULE ListenerSupervisorProofs -----------------------
(***************************************************************************)
(* The safety of ListenerSupervisor for every number of listeners, slots,  *)
(* saves, leadership changes and failures.  SupervisorTypeOK, NoOrphan,    *)
(* ShownIsCurrent and TickerOnlyWhileLive are inductive together: a        *)
(* listener's callback is heeded only for the current listener, and        *)
(* whatever replaces that one stops it and the ticker in the same step.    *)
(* TermOver adds that only a handler can start a listener, and only the    *)
(* watch and a gain start a handler.                                       *)
(***************************************************************************)
EXTENDS ListenerSupervisor, TLAPS

USE SupervisorAssumption

\* What tearDownCurrentListener() leaves: no listener runs, no ticker.
LEMMA TearDownSafe ==
  ASSUME SupervisorIInv, TearDown
  PROVE  /\ listener' = None /\ shown' = "idle" /\ playing' = FALSE /\ ticker' = FALSE
         /\ dealer' = [h \in Handles |-> "idle"]
         /\ cookie' \in [Handles -> Versions]
<1>1. dealer' = [h \in Handles |-> "idle"]
  BY DEF SupervisorIInv, SupervisorTypeOK, NoOrphan, TearDown, Stopped
<1>2. Forgotten \in [Handles -> Versions]
  BY DEF SupervisorIInv, SupervisorTypeOK, Forgotten, Versions, Absent
<1> QED
  BY <1>1, <1>2 DEF TearDown, IdleState, TickerStopped

\* What startListenerFromCredential() leaves: at most the listener it made.
LEMMA StartSafe ==
  ASSUME SupervisorIInv, NEW v \in Versions, StartWith(v)
  PROVE  /\ ticker' = FALSE /\ playing' = FALSE /\ stale' \in BOOLEAN
         /\ listener' \in Handles \cup {None} /\ shown' \in States
         /\ dealer' \in [Handles -> States] /\ cookie' \in [Handles -> Versions]
         /\ NoOrphan' /\ ShownIsCurrent'
<1>0. stale' \in BOOLEAN
  BY DEF StartWith
<1>1. CASE v = Absent
  <2>1. TearDown
    BY <1>1 DEF StartWith
  <2> QED
    BY <1>0, <2>1, TearDownSafe
       DEF SupervisorIInv, SupervisorTypeOK, NoOrphan, ShownIsCurrent, States
<1>2. CASE v # Absent
  <2> DEFINE h == CHOOSE g \in Unused : TRUE
  <2>1. /\ Unused # {}
        /\ listener' = h /\ shown' = "connecting"
        /\ playing' = FALSE /\ ticker' = TickerStopped
        /\ dealer' = [Stopped EXCEPT ![h] = "connecting"]
        /\ cookie' = [Forgotten EXCEPT ![h] = v]
    BY <1>2 DEF StartWith
  <2>2. h \in Handles
    BY <2>1 DEF Unused
  <2>3. Stopped = [g \in Handles |-> "idle"]
    BY DEF SupervisorIInv, SupervisorTypeOK, NoOrphan, Stopped
  <2>4. Forgotten \in [Handles -> Versions]
    BY DEF SupervisorIInv, SupervisorTypeOK, Forgotten, Versions, Absent
  <2> HIDE DEF h
  <2>5. dealer' = [g \in Handles |-> IF g = h THEN "connecting" ELSE "idle"]
    BY <2>1, <2>2, <2>3
  <2>6. cookie' \in [Handles -> Versions]
    BY <2>1, <2>2, <2>4
  <2> QED
    BY <1>0, <2>1, <2>2, <2>5, <2>6
       DEF SupervisorIInv, SupervisorTypeOK, NoOrphan, ShownIsCurrent, States, TickerStopped
<1> QED
  BY <1>1, <1>2

LEMMA LoadSafe ==
  ASSUME SupervisorIInv, NEW s \in Slots, Load(s)
  PROVE  /\ queries' \in [Slots -> QueryTypes \cup {None}]
         /\ listener' \in Handles \cup {None} /\ shown' \in States
         /\ {ticker', playing', stale'} \subseteq BOOLEAN
         /\ ticker' = playing'
         /\ dealer' \in [Handles -> States] /\ cookie' \in [Handles -> Versions]
         /\ NoOrphan' /\ ShownIsCurrent'
         /\ ticker' => /\ UNCHANGED dealing
<1>1. CASE cache = None
  <2>1. Query("load", Absent) \in QueryTypes
    BY DEF Query, QueryTypes, Versions, Absent
  <2>2. queries' = [queries EXCEPT ![s] = Query("load", Absent)] /\ UNCHANGED dealing
    BY <1>1 DEF Load
  <2> QED
    BY <2>1, <2>2 DEF SupervisorIInv, SupervisorTypeOK, dealing, NoOrphan, ShownIsCurrent,
       TickerOnlyWhileLive
<1>2. CASE cache # None
  <2>1. StartWith(cache) /\ cache \in Versions /\ Finish(s)
    BY <1>2 DEF Load, SupervisorIInv, SupervisorTypeOK
  <2>2. queries' \in [Slots -> QueryTypes \cup {None}]
    BY <2>1 DEF Finish, SupervisorIInv, SupervisorTypeOK
  <2> QED
    BY <2>1, <2>2, StartSafe
<1> QED
  BY <1>1, <1>2

LEMMA IssueTyped ==
  ASSUME SupervisorIInv, NEW op \in {"gain", "check", "load", "save", "look"},
         NEW v \in Versions, Issue(op, v)
  PROVE  queries' \in [Slots -> QueryTypes \cup {None}]
<1>1. Query(op, v) \in QueryTypes
  BY DEF Query, QueryTypes
<1> QED
  BY <1>1 DEF Issue, SupervisorIInv, SupervisorTypeOK

\* A version that is saved is one of Versions.
LEMMA NextVersionTyped ==
  ASSUME SupervisorTypeOK, saves > 0
  PROVE  NextVersion \in Versions /\ saves - 1 \in 0..MaxSaves
BY DEF SupervisorTypeOK, NextVersion, Versions

LEMMA AbsentTyped == Absent \in Versions /\ 1 \in Versions
BY DEF Absent, Versions

-----------------------------------------------------------------------------
\* One step keeps the invariant.
LEMMA SupervisorStep == SupervisorIInv /\ [SupervisorNext]_supervisorVars => SupervisorIInv'
<1> SUFFICES ASSUME SupervisorIInv, [SupervisorNext]_supervisorVars PROVE SupervisorIInv'
  OBVIOUS
<1> USE AbsentTyped
<1>1. CASE LeaseFlips
  BY <1>1 DEF LeaseFlips, SupervisorIInv, SupervisorTypeOK, NoOrphan, ShownIsCurrent, TickerOnlyWhileLive,
     own, dealing
<1>2. CASE Reconcile
  <2> USE <1>2 DEF Reconcile, bounds
  <2>1. CASE leading /\ active
    BY <2>1 DEF Gain, own, dealing, SupervisorIInv, SupervisorTypeOK, NoOrphan, ShownIsCurrent,
       TickerOnlyWhileLive
  <2>2. CASE leading /\ ~active
    <3>1. /\ active' = TRUE /\ Issue("gain", Absent)
          /\ UNCHANGED <<watch, lastSeen, outlived, dealing>>
      BY <2>2 DEF Gain
    <3>2. queries' \in [Slots -> QueryTypes \cup {None}]
      BY <3>1, IssueTyped
    <3> QED
      BY <2>2, <3>1, <3>2 DEF dealing, SupervisorIInv, SupervisorTypeOK, NoOrphan, ShownIsCurrent,
         TickerOnlyWhileLive
  <2>3. CASE ~leading /\ active
    <3>1. /\ active' = FALSE /\ watch' = FALSE /\ lastSeen' = Absent /\ outlived' = UnderWay
          /\ TearDown /\ UNCHANGED <<stale, queries>>
      BY <2>3 DEF Loss
    <3>2. outlived' \in BOOLEAN
      BY <3>1 DEF UnderWay
    <3> QED
      BY <2>3, <3>1, <3>2, TearDownSafe DEF SupervisorIInv, SupervisorTypeOK, NoOrphan, ShownIsCurrent,
         TickerOnlyWhileLive, States
  <2>4. CASE ~leading /\ ~active
    BY <2>4 DEF Loss, own, dealing, SupervisorIInv, SupervisorTypeOK, NoOrphan, ShownIsCurrent,
       TickerOnlyWhileLive
  <2> QED
    BY <2>1, <2>2, <2>3, <2>4
<1>3. CASE WatchFires
  <2>1. queries' \in [Slots -> QueryTypes \cup {None}]
    BY <1>3, IssueTyped DEF WatchFires
  <2> QED
    BY <1>3, <2>1 DEF WatchFires, lease, own, dealing, bounds, SupervisorIInv, SupervisorTypeOK, NoOrphan,
       ShownIsCurrent, TickerOnlyWhileLive
<1>4. CASE SaveHere
  <2>1. NextVersion \in Versions /\ saves' \in 0..MaxSaves
    BY <1>4, NextVersionTyped DEF SaveHere, SupervisorIInv
  <2>2. queries' \in [Slots -> QueryTypes \cup {None}]
    BY <1>4, <2>1, IssueTyped DEF SaveHere
  <2> QED
    BY <1>4, <2>1, <2>2 DEF SaveHere, lease, own, dealing, SupervisorIInv, SupervisorTypeOK, NoOrphan,
       ShownIsCurrent, TickerOnlyWhileLive
<1>5. CASE SaveElsewhere
  <2>1. NextVersion \in Versions /\ saves' \in 0..MaxSaves
    BY <1>5, NextVersionTyped DEF SaveElsewhere, SupervisorIInv
  <2> QED
    BY <1>5, <2>1 DEF SaveElsewhere, lease, own, dealing, SupervisorIInv, SupervisorTypeOK, NoOrphan,
       ShownIsCurrent, TickerOnlyWhileLive
<1>6. CASE AdminLooks
  <2>1. queries' \in [Slots -> QueryTypes \cup {None}]
    BY <1>6, IssueTyped DEF AdminLooks
  <2> QED
    BY <1>6, <2>1 DEF AdminLooks, lease, own, dealing, SupervisorIInv, SupervisorTypeOK, NoOrphan,
       ShownIsCurrent, TickerOnlyWhileLive
<1>7. CASE CacheExpires
  BY <1>7 DEF CacheExpires, lease, own, dealing, bounds, SupervisorIInv, SupervisorTypeOK, NoOrphan,
     ShownIsCurrent, TickerOnlyWhileLive
<1>8. ASSUME NEW s \in Slots, DbAnswers(s) PROVE SupervisorIInv'
  <2>1. queries[s] \in QueryTypes
    BY <1>8 DEF DbAnswers, SupervisorIInv, SupervisorTypeOK
  <2>2. queries[s].op \in {"gain", "check", "load", "save", "look"} /\ queries[s].val \in Versions
    BY <2>1 DEF QueryTypes
  <2>3. \A st \in {"ok", "failed"}, v \in Versions :
          Settle(s, st, v) => queries' \in [Slots -> QueryTypes \cup {None}]
    <3> SUFFICES ASSUME NEW st \in {"ok", "failed"}, NEW v \in Versions, Settle(s, st, v)
                 PROVE  queries' \in [Slots -> QueryTypes \cup {None}]
      OBVIOUS
    <3>1. [op |-> queries[s].op, st |-> st, val |-> v] \in QueryTypes
      BY <2>2 DEF QueryTypes
    <3> QED
      BY <3>1 DEF Settle, SupervisorIInv, SupervisorTypeOK
  <2>4. queries' \in [Slots -> QueryTypes \cup {None}]
    BY <1>8, <2>2, <2>3 DEF DbAnswers, SupervisorIInv, SupervisorTypeOK
  <2>5. stored' \in Versions /\ blips' \in 0..MaxBlips
    BY <1>8, <2>2 DEF DbAnswers, SupervisorIInv, SupervisorTypeOK
  <2> QED
    BY <1>8, <2>4, <2>5 DEF DbAnswers, lease, own, dealing, SupervisorIInv, SupervisorTypeOK, NoOrphan,
       ShownIsCurrent, TickerOnlyWhileLive
<1>9. ASSUME NEW s \in Slots, Resume(s) PROVE SupervisorIInv'
  <2>1. queries[s] \in QueryTypes
    BY <1>9 DEF Resume, SupervisorIInv, SupervisorTypeOK
  <2>2. queries[s].val \in Versions /\ Cached(s) \in Versions \cup {None}
    BY <2>1 DEF QueryTypes, Cached, SupervisorIInv, SupervisorTypeOK
  <2>3. UNCHANGED <<lease, stored, bounds>>
    BY <1>9 DEF Resume
  <2>4. CASE FillCache(s)
    BY <2>2, <2>3, <2>4 DEF FillCache, Finish, own, dealing, lease, bounds, SupervisorIInv, SupervisorTypeOK,
       NoOrphan, ShownIsCurrent, TickerOnlyWhileLive
  <2>5. CASE GainGoesOn(s)
    <3>1. Load(s)
      BY <2>5 DEF GainGoesOn
    <3> QED
      BY <2>2, <2>3, <2>5, <3>1, LoadSafe DEF GainGoesOn, WatchArmed, lease, bounds, dealing,
         SupervisorIInv, SupervisorTypeOK, TickerOnlyWhileLive
  <2>6. CASE CheckGoesOn(s) /\ Changed(queries[s].val)
    <3>1. Load(s)
      BY <2>6 DEF CheckGoesOn
    <3> QED
      BY <2>2, <2>3, <2>6, <3>1, LoadSafe DEF CheckGoesOn, lease, bounds, dealing,
         SupervisorIInv, SupervisorTypeOK, TickerOnlyWhileLive
  <2>7. CASE CheckGoesOn(s) /\ ~Changed(queries[s].val)
    BY <2>3, <2>7 DEF CheckGoesOn, Finish, dealing, lease, bounds, SupervisorIInv, SupervisorTypeOK,
       NoOrphan, ShownIsCurrent, TickerOnlyWhileLive
  <2>8. CASE LoadGoesOn(s)
    <3>1. StartWith(queries[s].val)
      BY <2>8 DEF LoadGoesOn
    <3> QED
      BY <2>2, <2>3, <2>8, <3>1, StartSafe DEF LoadGoesOn, Finish, own, lease, bounds,
         SupervisorIInv, SupervisorTypeOK, TickerOnlyWhileLive
  <2> QED
    BY <1>9, <2>4, <2>5, <2>6, <2>7, <2>8 DEF Resume
<1>10. ASSUME NEW h \in Handles, DealerMoves(h) PROVE SupervisorIInv'
  <2>1. PICK s \in States :
          /\ <<dealer[h], s>> \in Moves
          /\ dealer' = [dealer EXCEPT ![h] = s]
          /\ shown' = IF h = listener THEN s ELSE shown
          /\ IF h = listener /\ s = "credential_dead"
               THEN playing' = FALSE /\ ticker' = TickerStopped
               ELSE UNCHANGED <<playing, ticker>>
    BY <1>10 DEF DealerMoves
  <2>2. dealer[h] # "idle" /\ s # "idle"
    BY <2>1 DEF Moves
  <2>3. h = listener
    BY <2>2 DEF SupervisorIInv, NoOrphan
  <2>4. UNCHANGED <<lease, own, listener, cookie, stale, stored, cache, queries, bounds>>
    BY <1>10 DEF DealerMoves
  <2> QED
    BY <2>1, <2>2, <2>3, <2>4 DEF lease, own, bounds, SupervisorIInv, SupervisorTypeOK, NoOrphan,
       ShownIsCurrent, TickerOnlyWhileLive, TickerStopped
<1>11. ASSUME NEW h \in Handles, EventArrives(h) PROVE SupervisorIInv'
  <2>1. UNCHANGED <<lease, own, listener, shown, dealer, cookie, stale, stored, cache, queries, bounds>>
    BY <1>11 DEF EventArrives
  <2>2. CASE Heeds(h)
    <3>1. playing' \in BOOLEAN /\ ticker' = playing'
      BY <1>11, <2>2 DEF EventArrives
    <3>2. dealer[listener] \in {"connecting", "connected"} /\ active /\ listener = h
      BY <1>11, <2>2 DEF EventArrives, Heeds
    <3> QED
      BY <2>1, <3>1, <3>2 DEF lease, own, bounds, SupervisorIInv, SupervisorTypeOK, NoOrphan,
         ShownIsCurrent, TickerOnlyWhileLive
  <2>3. CASE ~Heeds(h)
    BY <1>11, <2>1, <2>3 DEF EventArrives, lease, own, bounds, SupervisorIInv, SupervisorTypeOK, NoOrphan,
       ShownIsCurrent, TickerOnlyWhileLive
  <2> QED
    BY <2>2, <2>3
<1>12. CASE UNCHANGED supervisorVars
  BY <1>12 DEF supervisorVars, lease, own, dealing, bounds, SupervisorIInv, SupervisorTypeOK, NoOrphan,
     ShownIsCurrent, TickerOnlyWhileLive
<1> QED
  BY <1>1, <1>2, <1>3, <1>4, <1>5, <1>6, <1>7, <1>8, <1>9, <1>10, <1>11, <1>12 DEF SupervisorNext

LEMMA SupervisorInitially == SupervisorInit => SupervisorIInv
<1> SUFFICES ASSUME SupervisorInit PROVE SupervisorIInv
  OBVIOUS
<1>1. /\ {lastSeen, stored} \subseteq Versions /\ cookie \in [Handles -> Versions]
      /\ shown \in States /\ dealer \in [Handles -> States]
  BY AbsentTyped DEF SupervisorInit, States
<1>2. /\ queries \in [Slots -> QueryTypes \cup {None}]
      /\ saves \in 0..MaxSaves /\ flips \in 0..MaxFlips
      /\ blips \in 0..MaxBlips /\ looks \in 0..MaxLooks
  BY DEF SupervisorInit
<1>3. /\ active = observed
      /\ {leading, observed, active, watch, ticker, playing, outlived, stale} \subseteq BOOLEAN
      /\ listener \in Handles \cup {None} /\ cache \in Versions \cup {None}
  BY DEF SupervisorInit
<1>4. NoOrphan /\ ShownIsCurrent /\ TickerOnlyWhileLive
  BY DEF SupervisorInit, NoOrphan, ShownIsCurrent, TickerOnlyWhileLive
<1> QED
  BY <1>1, <1>2, <1>3, <1>4 DEF SupervisorIInv, SupervisorTypeOK

LEMMA IInvHolds == SupervisorSpec => []SupervisorIInv
  BY SupervisorInitially, SupervisorStep, PTL DEF SupervisorSpec

-----------------------------------------------------------------------------
\* A query for something else puts no handler under way that could start a listener.
LEMMA OthersIssue ==
  ASSUME SupervisorTypeOK, NEW v, NEW op \in {"save", "look"}, Issue(op, v), ~UnderWay
  PROVE  ~UnderWay'
<1> DEFINE c == CHOOSE s \in Free : TRUE
<1>1. queries' = [queries EXCEPT ![c] = Query(op, v)]
  BY DEF Issue
<1>2. Query(op, v).op = op
  BY DEF Query
<1> HIDE DEF c
<1>3. \A s \in Slots : queries'[s] = queries[s] \/ queries'[s] = Query(op, v)
  BY <1>1 DEF SupervisorTypeOK
<1> QED
  BY <1>2, <1>3 DEF UnderWay

\* One step keeps a term that is over as it is.
LEMMA TermStep == SupervisorIInv /\ TermOver /\ [SupervisorNext]_supervisorVars => TermOver'
<1> SUFFICES ASSUME SupervisorIInv, TermOver, [SupervisorNext]_supervisorVars,
                    ~active', ~outlived'
             PROVE  listener' = None /\ ~UnderWay'
  BY DEF TermOver
<1> DEFINE Kept == UNCHANGED <<active, outlived, listener>>
<1>0. ASSUME Kept PROVE listener' = None /\ ~UnderWay
  BY <1>0 DEF TermOver
<1>1. CASE LeaseFlips \/ SaveElsewhere \/ CacheExpires \/ UNCHANGED supervisorVars
  <2>1. Kept /\ UNCHANGED queries
    BY <1>1 DEF LeaseFlips, SaveElsewhere, CacheExpires, supervisorVars, own, dealing
  <2> QED
    BY <1>0, <2>1 DEF UnderWay
<1>2. CASE Reconcile
  <2>1. CASE leading
    <3>1. active /\ UNCHANGED own
      BY <1>2, <2>1 DEF Reconcile, Gain
    <3> QED
      BY <3>1 DEF own
  <2>2. CASE ~leading /\ active
    <3>1. TearDown /\ outlived' = UnderWay /\ UNCHANGED queries
      BY <1>2, <2>2 DEF Reconcile, Loss
    <3> QED
      BY <3>1 DEF TearDown, UnderWay
  <2>3. CASE ~leading /\ ~active
    <3>1. Kept /\ UNCHANGED queries
      BY <1>2, <2>3 DEF Reconcile, Loss, own, dealing
    <3> QED
      BY <1>0, <3>1 DEF UnderWay
  <2> QED
    BY <2>1, <2>2, <2>3
<1>3. CASE WatchFires
  BY <1>3 DEF WatchFires, own
<1>4. CASE SaveHere \/ AdminLooks
  <2>1. Kept
    BY <1>4 DEF SaveHere, AdminLooks, own, dealing
  <2>2. PICK op \in {"save", "look"}, v \in {Absent, NextVersion} : Issue(op, v)
    BY <1>4 DEF SaveHere, AdminLooks
  <2> QED
    BY <1>0, <2>1, <2>2, OthersIssue DEF SupervisorIInv
<1>5. ASSUME NEW s \in Slots, DbAnswers(s) PROVE listener' = None /\ ~UnderWay'
  <2>1. Kept
    BY <1>5 DEF DbAnswers, own, dealing
  <2>2. queries[s] # None /\ \E st, v : Settle(s, st, v)
    BY <1>5 DEF DbAnswers
  <2>3. queries[s].op \notin {"gain", "check", "load"}
    BY <1>0, <2>1, <2>2 DEF UnderWay
  <2>4. queries'[s].op = queries[s].op
    BY <2>2 DEF Settle, SupervisorIInv, SupervisorTypeOK
  <2>5. \A t \in Slots \ {s} : queries'[t] = queries[t]
    BY <2>2 DEF Settle, SupervisorIInv, SupervisorTypeOK
  <2> QED
    BY <1>0, <2>1, <2>3, <2>4, <2>5 DEF UnderWay
<1>6. ASSUME NEW s \in Slots, Resume(s) PROVE listener' = None /\ ~UnderWay'
  <2>1. active' = active /\ outlived' = outlived
    BY <1>6 DEF Resume, FillCache, GainGoesOn, CheckGoesOn, LoadGoesOn, own
  <2>2. ~UnderWay
    BY <2>1 DEF TermOver
  <2>3. FillCache(s)
    BY <1>6, <2>2 DEF Resume, UnderWay, GainGoesOn, CheckGoesOn, LoadGoesOn
  <2>4. Kept /\ queries' = [queries EXCEPT ![s] = None]
    BY <2>3 DEF FillCache, Finish, own, dealing
  <2>5. \A t \in Slots : queries'[t] = queries[t] \/ queries'[t] = None
    BY <2>4 DEF SupervisorIInv, SupervisorTypeOK
  <2> QED
    BY <1>0, <2>2, <2>4, <2>5 DEF UnderWay
<1>7. ASSUME NEW h \in Handles, DealerMoves(h) \/ EventArrives(h)
      PROVE  listener' = None /\ ~UnderWay'
  <2>1. Kept /\ UNCHANGED queries
    BY <1>7 DEF DealerMoves, EventArrives, own
  <2> QED
    BY <1>0, <2>1 DEF UnderWay
<1> QED
  BY <1>1, <1>2, <1>3, <1>4, <1>5, <1>6, <1>7 DEF SupervisorNext

-----------------------------------------------------------------------------
\* For every number of listeners, database queries, saves, leadership changes
\* and failures: a process runs at most the listener it holds, and shows that
\* one's state.
THEOREM SupervisorSafety == SupervisorSpec => [](SupervisorTypeOK /\ NoOrphan /\ ShownIsCurrent)
<1>1. SupervisorIInv => SupervisorTypeOK /\ NoOrphan /\ ShownIsCurrent
  BY DEF SupervisorIInv
<1> QED
  BY <1>1, IInvHolds, PTL

\* The progress ticker is armed exactly while the last that was heard of the running
\* listener is a playing track, and then the supervisor is active and the listener
\* neither idle nor dead; it may be connecting or backing off.
THEOREM TickerStops == SupervisorSpec => []TickerOnlyWhileLive
<1>1. SupervisorIInv => TickerOnlyWhileLive
  BY DEF SupervisorIInv
<1> QED
  BY <1>1, IInvHolds, PTL

\* Where no handler was waiting for the database when the lease was lost, the loss
\* leaves no dealer running and nothing starts one before the next gain.
THEOREM NoOtherStrays == SupervisorSpec => []StraysOutliveTheirTerm
<1>1. SupervisorInit => TermOver
  BY DEF SupervisorInit, TermOver, UnderWay
<1>2. SupervisorIInv /\ TermOver => StraysOutliveTheirTerm
  BY SupervisorAssumption DEF SupervisorIInv, NoOrphan, TermOver, StraysOutliveTheirTerm
<1> QED
  BY <1>1, <1>2, TermStep, IInvHolds, PTL DEF SupervisorSpec
===============================================================================
