------------------------------ MODULE OpsReports ------------------------------
(***************************************************************************)
(* services/opsService.ts and routers/opsRouter.ts on several instances:   *)
(* the report of a UTC day is built by the first request that finds it     *)
(* missing, once the day has been over for the margin, is stored once for  *)
(* all instances, and is served with a max-age that ends at the time the   *)
(* next one is due.                                                        *)
(*                                                                         *)
(* What CloudWatch answers comes down to whether it has every point of the *)
(* day yet (OpsPlan models what is asked of it).  Time moves in steps,     *)
(* "minutes" of a day of DayLength; a request is over within Patience of   *)
(* them, since every call it makes has a timeout.                          *)
(***************************************************************************)
EXTENDS Integers, FiniteSets

CONSTANTS
  OpsInstances, OpsRequests,   \* bound: requests under way at the same time
  NoReport,                    \* a day without a report, a client without a copy
  DayLength, BuildMargin,      \* BUILD_MARGIN_MINUTES
  Late,                        \* how late CloudWatch has the last points of a day
  BoundaryBuffer,              \* CACHE_BOUNDARY_BUFFER_SECONDS
  ShortAge,                    \* CACHE_SHORT_MAX_AGE_SECONDS
  Patience,                    \* bound: how long a request takes
  LastDay                      \* bound: the last day of the clock

ASSUME OpsAssumption ==
  /\ DayLength \in Nat \ {0} /\ BuildMargin \in 0..(DayLength - 1) /\ Late \in 0..BuildMargin
  /\ BoundaryBuffer \in Nat /\ ShortAge \in Nat /\ Patience \in Nat /\ LastDay \in Nat \ {0}
  /\ OpsInstances # {}

VARIABLES
  now,            \* the clock
  report,         \* report[d]: the row of ops_reports
  building,       \* building[i][d]: buildInFlight of instance i
  visit,          \* visit[r]: a request for a report
  copy            \* the copy of "the latest report" that a client shows

opsVars == <<now, report, building, visit, copy>>

Days == 0..LastDay
Day(t) == t \div DayLength
Start(d) == d * DayLength

NoBuild == [at |-> "none", whole |-> FALSE]
Gone == [at |-> "idle", inst |-> CHOOSE i \in OpsInstances : TRUE, since |-> 0]

OpsTypeOK ==
  /\ now \in 0..(Start(LastDay + 1) - 1)
  /\ report \in [Days -> [whole : BOOLEAN, stored : Nat] \cup {NoReport}]
  /\ building \in [OpsInstances -> [Days -> [at : {"none", "fetch", "insert", "stored"}, whole : BOOLEAN]]]
  /\ visit \in [OpsRequests -> [at : {"idle", "lookup", "missing", "await", "read"},
                                inst : OpsInstances, since : Nat]]
  /\ copy \in [day : Days, expires : Nat] \cup {NoReport}

OpsInit ==
  /\ now = Start(1) /\ report = [d \in Days |-> NoReport]
  /\ building = [i \in OpsInstances |-> [d \in Days |-> NoBuild]]
  /\ visit = [r \in OpsRequests |-> Gone] /\ copy = NoReport

\* expectedLatestDate(): the newest day whose report is due at t.
DueAt(d) == Start(d + 1) + BuildMargin
Expected(t) == Day(t - BuildMargin) - 1

\* msUntilNextBuildBoundary() and buildCacheControl().
UntilBoundary(t) ==
  LET today == Start(Day(t)) + BuildMargin IN
  (IF t < today THEN today ELSE today + DayLength) - t

Uncapped(t, d) == IF d = Expected(t) THEN UntilBoundary(t) + BoundaryBuffer ELSE DayLength  \* (mutant)
MaxAge(t, d) ==
  IF d = Expected(t) THEN UntilBoundary(t) + BoundaryBuffer
  ELSE IF ShortAge < UntilBoundary(t) THEN ShortAge ELSE UntilBoundary(t)

-----------------------------------------------------------------------------
(* GET /api/ops                                                            *)

AtMidnight(t) == TRUE                                      \* (mutant)
PastMargin(t) == t % DayLength >= BuildMargin

\* A day asked for by name is read like the latest, and makes no copy of that.
Visit(r, i) ==
  /\ visit[r].at = "idle"
  /\ visit' = [visit EXCEPT ![r] =
       [at |-> IF PastMargin(now) THEN "lookup" ELSE "read", inst |-> i, since |-> now]]
  /\ UNCHANGED <<now, report, building, copy>>

\* ensureReport(): yesterday's row is looked for, and the answer takes a while.
Yesterday(r) == Day(visit[r].since) - 1
LooksUp(r) ==
  /\ visit[r].at = "lookup"
  /\ visit' = [visit EXCEPT ![r].at = IF report[Yesterday(r)] = NoReport THEN "missing" ELSE "read"]
  /\ UNCHANGED <<now, report, building, copy>>

JoinsOrBuilds(r) ==
  /\ visit[r].at = "missing"
  /\ visit' = [visit EXCEPT ![r].at = "await"]
  /\ building' = [building EXCEPT ![visit[r].inst][Yesterday(r)] =
       IF @.at = "none" THEN [NoBuild EXCEPT !.at = "fetch"] ELSE @]
  /\ UNCHANGED <<now, report, copy>>

\* Everybody who waits for i's build of d goes on, at "at".
Released(i, d, at) ==
  [r \in OpsRequests |->
     IF visit[r].at = "await" /\ visit[r].inst = i /\ Yesterday(r) = d
       THEN IF at = "idle" THEN Gone ELSE [visit[r] EXCEPT !.at = at]
       ELSE visit[r]]

\* buildDayWidgets(): a degraded fetch leaves the day unbuilt.
Fetches(i, d) ==
  /\ building[i][d].at = "fetch"
  /\ \/ /\ building' = [building EXCEPT ![i][d] =
             [@ EXCEPT !.at = "insert", !.whole = now >= Start(d + 1) + Late]]
        /\ UNCHANGED visit
     \/ building' = [building EXCEPT ![i][d] = NoBuild] /\ visit' = Released(i, d, "read")
  /\ UNCHANGED <<now, report, copy>>

\* buildReportRow(): ON CONFLICT DO NOTHING; a database error fails the requests.
Inserted(d, row) == IF report[d] = NoReport THEN row ELSE report[d]

Inserts(i, d) ==
  LET b == building[i][d] IN
  /\ b.at = "insert"
  /\ \/ /\ report' = [report EXCEPT ![d] = Inserted(d, [whole |-> b.whole, stored |-> now])]
        /\ building' = [building EXCEPT ![i][d].at = "stored"]
        /\ UNCHANGED visit
     \/ /\ building' = [building EXCEPT ![i][d] = NoBuild] /\ visit' = Released(i, d, "idle")
        /\ UNCHANGED report
  /\ UNCHANGED <<now, copy>>

BuildReturns(i, d) ==
  /\ building[i][d].at = "stored"
  /\ building' = [building EXCEPT ![i][d] = NoBuild] /\ visit' = Released(i, d, "read")
  /\ UNCHANGED <<now, report, copy>>

\* readReport() and the answer: the newest there is, with the max-age of the time
\* the request came.
Stored == {d \in Days : report[d] # NoReport}
Newest == CHOOSE d \in Stored : \A e \in Stored : e <= d

Serves(r) ==
  /\ visit[r].at = "read" /\ visit' = [visit EXCEPT ![r] = Gone]
  /\ \/ UNCHANGED copy
     \/ /\ Stored # {}
        /\ copy' = [day |-> Newest, expires |-> now + MaxAge(visit[r].since, Newest)]
  /\ UNCHANGED <<now, report, building>>

Minute ==
  /\ now + 1 < Start(LastDay + 1) /\ now' = now + 1
  /\ \A r \in OpsRequests : visit[r].at # "idle" => now' - visit[r].since <= Patience
  /\ UNCHANGED <<report, building, visit, copy>>

OpsNext ==
  \/ Minute
  \/ \E r \in OpsRequests :
       \/ \E i \in OpsInstances : Visit(r, i)
       \/ LooksUp(r) \/ JoinsOrBuilds(r) \/ Serves(r)
  \/ \E i \in OpsInstances, d \in Days : Fetches(i, d) \/ Inserts(i, d) \/ BuildReturns(i, d)

OpsSpec == OpsInit /\ [][OpsNext]_opsVars

-----------------------------------------------------------------------------
(* Properties.                                                             *)

\* "never clip the day": every stored report has all points of its day, however
\* late the request came and whoever's fetch it was stored from.
WholeDays == \A d \in Days : report[d] # NoReport => report[d].whole

\* A client that shows a copy of the latest report misses a newer one no longer
\* than the short max-age after it was stored, or the buffer after it was due,
\* plus what its own request took.
NewsArrives ==
  copy # NoReport /\ now < copy.expires =>
    \A d \in Stored : d > copy.day =>
      \/ now < report[d].stored + ShortAge + Patience
      \/ now < DueAt(d) + BoundaryBuffer + Patience
=============================================================================
