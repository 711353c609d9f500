----------------------------- MODULE SectionOrder -----------------------------
(***************************************************************************)
(* The order of a page's sections: what services/sectionsService.ts does   *)
(* to the page_id and position columns of "sections".                      *)
(*                                                                         *)
(* PostgreSQL runs the transactions at READ COMMITTED.  A statement sees   *)
(* what was committed when it began, and its own transaction's changes.    *)
(* SELECT ... ORDER BY ... FOR UPDATE sorts first, then locks row by row;  *)
(* a row it had to wait for is read again, and is left out if it no longer *)
(* matches, but keeps its place if it does.  A transaction's writes and    *)
(* locks end together.  It may fail at any time: a database error, a       *)
(* deadlock's victim, a stale expected_updated_at or an array of ids that  *)
(* is not the page's all end it with nothing written.                      *)
(*                                                                         *)
(* A pending's "disturbed" is for the properties: the pages on which a     *)
(* position was written since it looked.                                   *)
(***************************************************************************)
EXTENDS Naturals, FiniteSets

Positions == INSTANCE FiniteSetsExt

CONSTANTS
  MaxSections,    \* bound: sections at the same time
  Pages,
  MaxRequests,    \* bound: requests under way at the same time
  Nothing,        \* no row, no request
  MaxCommits      \* bound: commits

ASSUME SectionOrderAssumption == Nothing \notin Nat /\ MaxSections \in Nat /\ MaxRequests \in Nat /\ MaxCommits \in Nat

VARIABLES
  table,          \* table[s]: the committed row of s
  pending,        \* pending[c]: what is under way for the c-th client
  commits         \* commits so far

Sections == 1..MaxSections
Clients == 1..MaxRequests
orderVars == <<table, pending, commits>>

\* What creates that came one after the other, long ago, have left.  (Pages are
\* interchangeable: any may be the first section's.)
OrderInit ==
  /\ \E n \in 0..MaxSections : \E home \in [1..n -> Pages] :
       /\ n > 0 => home[1] = CHOOSE p \in Pages : TRUE
       /\ table = [s \in Sections |->
            IF s > n THEN Nothing
            ELSE [page |-> home[s], born |-> s,
                  position |-> Cardinality({t \in 1..s - 1 : home[t] = home[s]})]]
  /\ pending = [c \in Clients |-> Nothing]
  /\ commits = 0

On(p) == {s \in Sections : table[s] # Nothing /\ table[s].page = p}

\* ORDER BY position, created_at.
Before(s, t) ==
  \/ table[s].position < table[t].position
  \/ table[s].position = table[t].position /\ table[s].born < table[t].born

\* The rows of S in that order: how many of them come before each.
ByAge(S) == [s \in S |-> Cardinality({t \in S : table[t].born < table[s].born})]    \* (mutant)
Ordered(S) == [s \in S |-> Cardinality({t \in S : Before(t, s)})]

\* nextPosition() on the sections of p.
CountOnly(p) == Cardinality(On(p))                                         \* (mutant)
NextPosition(p) == Positions!Max({0} \cup {table[s].position + 1 : s \in On(p)})

LockedBut(c, s) == \E k \in Clients \ {c} : pending[k] # Nothing /\ s \in pending[k].locks

Commits == commits < MaxCommits /\ commits' = commits + 1
Replied(c) == pending' = [pending EXCEPT ![c] = Nothing]

\* c has written positions on its pages, and is answered.
Wrote(c) ==
  pending' = [k \in Clients |->
    IF k = c \/ pending[k] = Nothing THEN Nothing
    ELSE [pending[k] EXCEPT !.disturbed = @ \cup (pending[c].pages \cap pending[k].pages)]]

-----------------------------------------------------------------------------
(* createSection(): two statements, each a transaction of its own.         *)

CreateLooks(c, p) ==
  /\ pending[c] = Nothing
  /\ pending' = [pending EXCEPT ![c] =
       [op |-> "create", pages |-> {p}, page |-> p, position |-> NextPosition(p), disturbed |-> {}, locks |-> {}]]
  /\ UNCHANGED <<table, commits>>

CreateInserts(c) ==
  /\ pending[c] # Nothing /\ pending[c].op = "create"
  /\ \E s \in Sections :
       /\ table[s] = Nothing /\ \A t \in 1..s - 1 : table[t] # Nothing
       /\ table' = [table EXCEPT ![s] =
            [page |-> pending[c].page, position |-> pending[c].position, born |-> MaxSections + commits + 1]]
  /\ Commits /\ Wrote(c)

\* deleteSection(); it waits for whoever has locked the row.
Delete(s) ==
  /\ table[s] # Nothing /\ \A c \in Clients : pending[c] # Nothing => s \notin pending[c].locks
  /\ table' = [table EXCEPT ![s] = Nothing]
  /\ Commits /\ UNCHANGED pending

-----------------------------------------------------------------------------
(* FOR UPDATE.                                                             *)

\* The query of r gets the rows up to the first that another has locked, each
\* read again.  (Nothing is lost by taking them together: what another does in
\* between it can as well do before.)
Unlocked(c, r) == {s \in r.todo : \A t \in r.todo : r.rank[t] <= r.rank[s] => ~LockedBut(c, t)}

Acquired(c, r) ==
  [r EXCEPT !.todo  = @ \ Unlocked(c, r),
            !.got   = @ \cup (Unlocked(c, r) \cap On(r.from)),
            !.locks = @ \cup {s \in Unlocked(c, r) : table[s] # Nothing}]

LockMore(c) ==
  /\ pending[c] # Nothing /\ pending[c].op \in {"move", "reorder"}
  /\ Unlocked(c, pending[c]) # {}
  /\ pending' = [pending EXCEPT ![c] = Acquired(c, @)]
  /\ UNCHANGED <<table, commits>>

-----------------------------------------------------------------------------
(* updateSection() that moves s to page p.                                 *)

\* It locks the row and looks for a place at the end of p.
MoveLooks(c, s, p) ==
  /\ pending[c] = Nothing
  /\ table[s] # Nothing /\ table[s].page # p /\ ~LockedBut(c, s)
  /\ pending' = [pending EXCEPT ![c] =
       [op |-> "place", row |-> s, pages |-> {p, table[s].page}, page |-> p, from |-> table[s].page,
        position |-> NextPosition(p), disturbed |-> {}, locks |-> {s}]]
  /\ UNCHANGED <<table, commits>>

\* resequencePage() sorts and locks what is left of the page it came from.
ResequenceSorts(c) ==
  /\ pending[c] # Nothing /\ pending[c].op = "place"
  /\ LET r == pending[c]
         rest == On(r.from) \ {r.row}
     IN pending' = [pending EXCEPT ![c] = Acquired(c,
          [op |-> "move", row |-> r.row, pages |-> r.pages, page |-> r.page, from |-> r.from, position |-> r.position,
           disturbed |-> r.disturbed, locks |-> r.locks, todo |-> rest, rank |-> Ordered(rest), got |-> {}])]
  /\ UNCHANGED <<table, commits>>

-----------------------------------------------------------------------------
(* reorderSections().  The query does not say in which order it locks: that *)
(* decides only who waits for whom.                                        *)

ReorderSelects(c, p) ==
  /\ pending[c] = Nothing
  /\ pending' = [pending EXCEPT ![c] = Acquired(c,
       [op |-> "reorder", pages |-> {p}, from |-> p, disturbed |-> {}, locks |-> {},
        todo |-> On(p), rank |-> Ordered(On(p)), got |-> {}])]
  /\ UNCHANGED <<table, commits>>

-----------------------------------------------------------------------------
(* How the two end.                                                        *)

\* The updates, position = index.
Numbered(index) ==
  [s \in Sections |->
     IF s \in DOMAIN index THEN [table[s] EXCEPT !.position = index[s]] ELSE table[s]]

\* resequencePage()'s index of a row: how many of those it got are sorted before it.
Index(got, rank) == [s \in got |-> Cardinality({t \in got : rank[t] < rank[s]})]

AllLocked(c, op) ==
  pending[c] # Nothing /\ pending[c].op = op /\ pending[c].todo = {}

MoveCommits(c) ==
  /\ AllLocked(c, "move")
  /\ LET r == pending[c]
     IN table' = [Numbered(Index(r.got, r.rank)) EXCEPT ![r.row] = [@ EXCEPT !.page = r.page, !.position = r.position]]
  /\ Commits /\ Wrote(c)

\* The arrays validateReorderArray() lets pass: each of the ids at an index of its own.
Accepted(ids) ==
  {index \in [ids -> 0..Cardinality(ids) - 1] : \A s, t \in ids : index[s] = index[t] => s = t}

ReorderCommits(c) ==
  /\ AllLocked(c, "reorder")
  /\ \E index \in Accepted(pending[c].got) : table' = Numbered(index)
  /\ Commits /\ Wrote(c)

Fails(c) == pending[c] # Nothing /\ Replied(c) /\ UNCHANGED <<table, commits>>

OrderNext ==
  \/ \E s \in Sections : Delete(s)
  \/ \E c \in Clients :
       \/ CreateInserts(c) \/ ResequenceSorts(c) \/ LockMore(c)
       \/ MoveCommits(c) \/ ReorderCommits(c) \/ Fails(c)
       \/ \E p \in Pages :
            \/ CreateLooks(c, p) \/ ReorderSelects(c, p)
            \/ \E s \in Sections : MoveLooks(c, s, p)

OrderSpec == OrderInit /\ [][OrderNext]_orderVars

-----------------------------------------------------------------------------
(* Properties.                                                             *)

Together(s, t) ==
  s # t /\ table[s] # Nothing /\ table[t] # Nothing /\ table[s].page = table[t].page
Tied(s, t) == Together(s, t) /\ table[s].position = table[t].position

\* An operation that commits, and had page p to itself since it looked there.
Alone(c, p) == pending[c] # Nothing /\ pending'[c] = Nothing /\ p \notin pending[c].disturbed

\* Two sections come to share a position only when the operation that brings
\* that about overlapped another on their page: an append locks nothing, so two
\* can find the same place.  (created_at then decides.)
TiesComeFromOverlap ==
  [][table' # table => \A s, t \in Sections :
       ~Tied(s, t) /\ Tied(s, t)'
         => \E c \in Clients : pending[c] # Nothing /\ pending'[c] = Nothing /\ ~Alone(c, table'[s].page)]_orderVars

\* Only a reorder of their page changes which of two sections comes first;
\* moving another section out renumbers them "preserving their current order".
\* That needs the page to itself: when a position on it was written between
\* the moment the move looked and its commit, it may write back an older order.
OrderIsKept ==
  [][table' # table => \A s, t \in Sections :
       Together(s, t) /\ Together(s, t)' /\ table'[s].page = table[s].page /\ Before(s, t) /\ ~Before(s, t)'
         => \E c \in Clients :
              /\ pending[c] # Nothing /\ pending'[c] = Nothing
              /\ pending[c].op = "reorder" \/ ~Alone(c, table[s].page)]_orderVars

\* The types of rows and of requests.
RowTypes == [page : Pages, position : Nat, born : 1..MaxSections + MaxCommits]

Ranks == UNION {[S -> 0..MaxSections] : S \in SUBSET Sections}
Creations == [op : {"create"}, pages : SUBSET Pages, page : Pages, position : Nat,
              disturbed : SUBSET Pages, locks : SUBSET Sections]
Placings == [op : {"place"}, row : Sections, pages : SUBSET Pages, page : Pages, from : Pages, position : Nat,
             disturbed : SUBSET Pages, locks : SUBSET Sections]
Movings == [op : {"move"}, row : Sections, pages : SUBSET Pages, page : Pages, from : Pages, position : Nat,
            disturbed : SUBSET Pages, locks : SUBSET Sections,
            todo : SUBSET Sections, rank : Ranks, got : SUBSET Sections]
Reorderings == [op : {"reorder"}, pages : SUBSET Pages, from : Pages,
                disturbed : SUBSET Pages, locks : SUBSET Sections,
                todo : SUBSET Sections, rank : Ranks, got : SUBSET Sections]
Pendings == Creations \cup Placings \cup Movings \cup Reorderings

\* Why these hold.  Rows are told apart by created_at, and nobody changes a row
\* that another has locked.

TableSound ==
  /\ table \in [Sections -> RowTypes \cup {Nothing}]
  /\ \A s \in Sections : table[s] # Nothing => table[s].born <= MaxSections + commits
  /\ \A s, t \in Sections :
       table[s] # Nothing /\ table[t] # Nothing /\ table[s].born = table[t].born => s = t

LocksExclude ==
  \A c, k \in Clients : c # k /\ pending[c] # Nothing /\ pending[k] # Nothing =>
    pending[c].locks \cap pending[k].locks = {}

\* A page that nobody else has written since r looked: the place that r found
\* there is still the end of it, and what r has sorted and locked, or has yet to
\* lock, is still all of it, in that order.
PlaceSound(r) ==
  r.page \notin r.disturbed => \A s \in On(r.page) : table[s].position < r.position

MoveSound(r) ==
  /\ r.row \in r.locks /\ table[r.row].page = r.from
  /\ r.from # r.page /\ {r.from, r.page} \subseteq r.pages

SortSound(r, others) ==
  /\ r.from \in r.pages /\ r.todo \subseteq DOMAIN r.rank
  /\ r.got \subseteq r.locks \cap On(r.from) \cap DOMAIN r.rank
  /\ r.from \notin r.disturbed =>
       /\ On(r.from) \subseteq r.got \cup r.todo \cup others
       /\ \A s, t \in On(r.from) \cap (r.got \cup r.todo) : Before(s, t) => r.rank[s] < r.rank[t]

RequestSound(r) ==
  /\ r.disturbed \subseteq r.pages /\ \A s \in r.locks : table[s] # Nothing
  /\ r.op = "create"  => r.page \in r.pages /\ PlaceSound(r)
  /\ r.op = "place"   => MoveSound(r) /\ PlaceSound(r)
  /\ r.op = "move"    => /\ MoveSound(r) /\ PlaceSound(r) /\ SortSound(r, {r.row})
                         /\ r.row \notin r.got \cup r.todo
  /\ r.op = "reorder" => SortSound(r, {})

OrderIInv ==
  /\ TableSound /\ LocksExclude /\ commits \in 0..MaxCommits
  /\ pending \in [Clients -> Pendings \cup {Nothing}]
  /\ \A c \in Clients : pending[c] # Nothing => RequestSound(pending[c])
=============================================================================
