------------------------------- MODULE OpsPlan -------------------------------
(***************************************************************************)
(* buildPlan() of services/opsService.ts: what one batched GetMetricData   *)
(* call is asked for the widgets of a CloudWatch dashboard, and which of   *)
(* the answers are drawn.  The loop over the widgets and the one over the  *)
(* rows of a widget are run step by step; a widget of the dashboard is     *)
(* chosen when the loop comes to it.                                       *)
(*                                                                         *)
(* A row is its declared id, its "visible" flag and, for an expression,    *)
(* the tokens in it; namespaces, dimensions, labels and units are left     *)
(* out.  A declared id that is a number k stands for "x" and that number:  *)
(* rows without one get such ids.  Rows CloudWatch refuses to save (an id  *)
(* declared twice in a widget) do not occur.                               *)
(***************************************************************************)
EXTENDS Naturals, Sequences, FiniteSets

CONSTANTS
  LocalIds,       \* the ids rows of a widget declare, as m1 and e1
  NoId,           \* no declared id
  MaxWidgets,     \* bound: metric widgets
  MaxRows         \* bound: rows in all

ASSUME PlanAssumption == NoId \notin LocalIds \cup Nat /\ MaxWidgets \in Nat /\ MaxRows \in Nat

VARIABLES
  dashboard,      \* the widgets so far, each a sequence of rows
  nextRow,        \* the row of the last widget that is next, 0 between widgets
  autoCounter,
  widgetQueries,  \* the queries of the widget under way
  series,         \* and what it draws
  queries,        \* the queries of the call
  plan            \* all that is drawn: the id of a query, and the widget it is in

planVars == <<dashboard, nextRow, autoCounter, widgetQueries, series, queries, plan>>

Visibility == {"unset", "true", "false"}
Metric(id, v) == [kind |-> "metric", id |-> id, visible |-> v, tokens |-> {}]
Expression(id, v, t) == [kind |-> "expression", id |-> id, visible |-> v, tokens |-> t]

\* (Of an expression only "false" is told from the rest.)
Rows ==
  {Metric(id, v) : id \in LocalIds \cup {NoId}, v \in Visibility}
  \cup {Expression(id, v, t) : id \in LocalIds \cup {NoId}, v \in {"unset", "false"}, t \in SUBSET LocalIds}

PlanInit ==
  /\ dashboard = << >> /\ nextRow = 0 /\ autoCounter = 0
  /\ widgetQueries = << >> /\ series = << >> /\ queries = << >> /\ plan = << >>

\* Rows by place: of which widget, and which of its rows.
RowPlaces(d) == UNION {{n} \X DOMAIN d[n] : n \in DOMAIN d}

-----------------------------------------------------------------------------
(* Pass 1: the declared ids of a widget, and those an expression refers to. *)

Declared(w) == {w[k].id : k \in DOMAIN w} \ {NoId}
References(w, row) == row.tokens \cap Declared(w)
Referenced(w) == UNION {References(w, w[k]) : k \in DOMAIN w}

ReadWidget ==
  /\ nextRow = 0 /\ Len(dashboard) < MaxWidgets
  /\ \E m \in 0..MaxRows :
       /\ Cardinality(RowPlaces(dashboard)) + m <= MaxRows
       /\ \E w \in [1..m -> Rows] :
            /\ \A j, k \in 1..m : w[j].id = w[k].id /\ w[j].id # NoId => j = k
            /\ dashboard' = Append(dashboard, w)
  /\ nextRow' = 1
  /\ UNCHANGED <<autoCounter, widgetQueries, series, queries, plan>>

-----------------------------------------------------------------------------
(* Pass 2: a row adds a query, and a series when its data are returned.     *)

\* A global id: the declared one prefixed by its widget, w0_m1 say, or one that
\* is counted: m0 for a metric, w0_x0 for an expression.  (Widget 0 is none.)
DeclaredId(n, id) == [widget |-> n, local |-> id]
RowNumberId(n, row) ==                                                     \* (mutant)
  [widget |-> IF row.kind = "metric" THEN 0 ELSE n, local |-> nextRow]
GivenId(n, row) ==
  [widget |-> IF row.kind = "metric" THEN 0 ELSE n, local |-> autoCounter]

\* Unset visibility: a metric that only feeds an expression is not drawn.
ReturnData(w, row) ==
  \/ row.visible = "true"
  \/ row.visible = "unset" /\ (row.kind = "metric" => row.id \notin Referenced(w))

\* An expression that refers to none of the widget's ids cannot resolve.
Dropped(w, row) == row.kind = "expression" /\ References(w, row) = {}

Query(n, w, row) ==
  [id       |-> IF row.id = NoId THEN GivenId(n, row) ELSE DeclaredId(n, row.id),
   returned |-> ReturnData(w, row),
   uses     |-> {DeclaredId(n, t) : t \in References(w, row)}]

UnderWay == Len(dashboard)
RowIsNext(n) == nextRow \in DOMAIN dashboard[n]

DropRow ==
  /\ nextRow # 0 /\ RowIsNext(UnderWay)
  /\ Dropped(dashboard[UnderWay], dashboard[UnderWay][nextRow])
  /\ nextRow' = nextRow + 1
  /\ UNCHANGED <<dashboard, autoCounter, widgetQueries, series, queries, plan>>

PlanRow ==
  /\ nextRow # 0 /\ RowIsNext(UnderWay)
  /\ ~Dropped(dashboard[UnderWay], dashboard[UnderWay][nextRow])
  /\ LET row == dashboard[UnderWay][nextRow]
         query == Query(UnderWay, dashboard[UnderWay], row)
     IN /\ widgetQueries' = Append(widgetQueries, query)
        /\ series' = IF query.returned THEN Append(series, [widget |-> UnderWay, id |-> query.id]) ELSE series
        /\ autoCounter' = IF row.id = NoId THEN autoCounter + 1 ELSE autoCounter
  /\ nextRow' = nextRow + 1
  /\ UNCHANGED <<dashboard, queries, plan>>

\* A widget with nothing to draw leaves the plan, its queries with it; the
\* counter goes on.
EndWidget ==
  /\ nextRow # 0 /\ ~RowIsNext(UnderWay)
  /\ IF series = << >> THEN UNCHANGED <<queries, plan>>
     ELSE queries' = queries \o widgetQueries /\ plan' = plan \o series
  /\ nextRow' = 0 /\ widgetQueries' = << >> /\ series' = << >>
  /\ UNCHANGED <<dashboard, autoCounter>>

PlanNext == ReadWidget \/ DropRow \/ PlanRow \/ EndWidget
PlanSpec == PlanInit /\ [][PlanNext]_planVars

-----------------------------------------------------------------------------
(* Properties.                                                             *)

QueryIds == {queries[k].id : k \in DOMAIN queries}

\* The expressions of the dashboard the code leaves out.
DroppedIds ==
  {DeclaredId(p[1], dashboard[p[1]][p[2]].id) :
     p \in {q \in RowPlaces(dashboard) : Dropped(dashboard[q[1]], dashboard[q[1]][q[2]])}}

\* "ids stay collision-free across a single batched call."
IdsAreDistinct == \A j, k \in DOMAIN queries : queries[j].id = queries[k].id => j = k

NoneLooksGiven == \A n \in DOMAIN dashboard : \A k \in DOMAIN dashboard[n] : dashboard[n][k].id \notin Nat

\* "The rendered series are exactly the ReturnData:true queries, in dashboard order."
Draws(s, asked) ==
  /\ {s[i].id : i \in DOMAIN s} = {asked[k].id : k \in {j \in DOMAIN asked : asked[j].returned}}
  /\ \A i, j \in DOMAIN s : i < j =>
       /\ s[i].widget <= s[j].widget
       /\ \E a, b \in DOMAIN asked : a < b /\ asked[a].id = s[i].id /\ asked[b].id = s[j].id

\* CloudWatch answers the call, and what is drawn is in the answer: every query has
\* an id of its own (provided that no declared id looks like a given one), the
\* series are the returned queries in dashboard order, and what an expression is
\* computed from is asked for too, unless it is an expression that was left out
\* itself (a SEARCH, say).
PlanIsDrawable ==
  /\ NoneLooksGiven => IdsAreDistinct
  /\ Draws(plan, queries)
  /\ \A k \in DOMAIN queries : queries[k].uses \subseteq QueryIds \cup DroppedIds

\* The types.
Ids == [widget : Nat, local : LocalIds \cup Nat]
Queries == [id : Ids, returned : BOOLEAN, uses : SUBSET Ids]
Drawings == [widget : Nat, id : Ids]

PlanTypes ==
  /\ dashboard \in Seq(Seq(Rows))
  /\ \A n \in DOMAIN dashboard : \A j, k \in DOMAIN dashboard[n] :
       dashboard[n][j].id = dashboard[n][k].id /\ dashboard[n][j].id # NoId => j = k
  /\ autoCounter \in Nat /\ nextRow \in Nat
  /\ queries \in Seq(Queries) /\ plan \in Seq(Drawings)
  /\ widgetQueries \in Seq(Queries) /\ series \in Seq(Drawings)
  /\ nextRow = 0 => widgetQueries = << >> /\ series = << >>
  /\ nextRow # 0 => UnderWay # 0 /\ nextRow <= Len(dashboard[UnderWay]) + 1

\* q was made of row k of widget n: its id says so, or was given.
MadeOf(q, n, k) ==
  /\ n \in DOMAIN dashboard /\ k \in DOMAIN dashboard[n] /\ q.id.widget \in {0, n}
  /\ IF dashboard[n][k].id = NoId THEN q.id.local \in Nat /\ q.id.local < autoCounter
     ELSE q.id = DeclaredId(n, dashboard[n][k].id)

\* The queries there are, and those of the widget under way, are of rows that
\* have been read, and no two have one id.
IdsSound ==
  /\ \A i \in DOMAIN queries : \E n \in DOMAIN dashboard :
       (nextRow # 0 => n < UnderWay) /\ \E k \in DOMAIN dashboard[n] : MadeOf(queries[i], n, k)
  /\ \A i \in DOMAIN widgetQueries :
       \E k \in DOMAIN dashboard[UnderWay] : k < nextRow /\ MadeOf(widgetQueries[i], UnderWay, k)
  /\ NoneLooksGiven =>
       /\ IdsAreDistinct
       /\ \A j, k \in DOMAIN widgetQueries : widgetQueries[j].id = widgetQueries[k].id => j = k
       /\ \A j \in DOMAIN queries : \A k \in DOMAIN widgetQueries : queries[j].id # widgetQueries[k].id

\* What the widget's expressions refer to is asked for by the time it ends.
WidgetIds == {widgetQueries[k].id : k \in DOMAIN widgetQueries}

UsesSound ==
  /\ \A k \in DOMAIN queries : queries[k].uses \subseteq QueryIds \cup DroppedIds
  /\ \A k \in DOMAIN widgetQueries :
       widgetQueries[k].uses \subseteq {DeclaredId(UnderWay, t) : t \in Declared(dashboard[UnderWay])}
  /\ nextRow # 0 => \A j \in DOMAIN dashboard[UnderWay] :
       j < nextRow /\ dashboard[UnderWay][j].id # NoId =>
         DeclaredId(UnderWay, dashboard[UnderWay][j].id) \in WidgetIds \cup DroppedIds

DrawnSound ==
  /\ Draws(plan, queries) /\ Draws(series, widgetQueries)
  /\ \A i \in DOMAIN plan : plan[i].widget <= UnderWay /\ (nextRow # 0 => plan[i].widget < UnderWay)
  /\ \A i \in DOMAIN series : series[i].widget = UnderWay

PlanIInv == PlanTypes /\ IdsSound /\ UsesSound /\ DrawnSound
=============================================================================
