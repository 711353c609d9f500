-------------------------- MODULE ListenerSupervisor --------------------------
(***************************************************************************)
(* services/upstream/listenerSupervisor.ts: the owner of the dealer        *)
(* listener of one process.  It follows the lease (reconcileLeadership()   *)
(* of services/upstream/index.ts), watches the stored credential and       *)
(* starts, replaces and stops listeners.                                   *)
(*                                                                         *)
(* Its handlers await the database.  Between a query and the rest of its   *)
(* handler anything else may run, so a query is a record in "queries" and  *)
(* the rest of the handler an action, Resume, of its own.  A listener is   *)
(* seen as its interface promises (DealerListener): a state that moves by  *)
(* itself.  A credential is the number of the save that stored it; its     *)
(* row's updated_at tells the same.  The writes an event or a tick starts  *)
(* change nothing here.                                                    *)
(***************************************************************************)
EXTENDS Naturals, FiniteSets, DealerStates

CONSTANTS
  Handles,        \* listeners: one that is stopped is as good as a new one
  None,           \* no listener, no call, nothing cached
  Slots,          \* bound: database queries under way at the same time
  MaxSaves,       \* bound: credentials saved or deleted by the admin
  MaxFlips,       \* bound: changes of isLeader()
  MaxBlips,       \* bound: database queries that fail
  MaxLooks,       \* bound: visits to the admin's status page
  Caching         \* may a read find a cached credential that has not expired?

ASSUME SupervisorAssumption ==
  /\ None \notin Handles
  /\ MaxSaves \in Nat /\ MaxFlips \in Nat /\ MaxBlips \in Nat /\ MaxLooks \in Nat
  /\ Caching \in BOOLEAN

VARIABLES
  leading,        \* lease.isLeader()
  observed,       \* observedLeader
  active,         \* between onLeadershipGain() and onLeadershipLoss()
  watch, ticker,  \* credentialCheckTimer, progressTimer: armed?
  playing,        \* lastPlayingEvent # null
  listener,       \* listener: a handle or None
  shown,          \* listenerState, what isListenerConnected() looks at
  lastSeen,       \* lastSeenCredentialUpdatedAt
  dealer, cookie, \* per handle: its state, and the credential it was given
  stored,         \* the row of service_tokens, Absent if there is none
  cache,          \* this process's cached copy of it, None if it has expired
  queries,        \* queries[s]: a database call under way
  saves, flips, blips, looks,            \* what is left of the bounds
  outlived,       \* history: was a handler that can start a listener still under
                  \* way when the last term ended?
  stale           \* history: was the credential taken last not the stored one, or not
                  \* the one the watch had seen?

lease   == <<leading, observed>>
own     == <<active, watch, lastSeen, outlived>>
dealing == <<listener, shown, playing, ticker, dealer, cookie, stale>>
bounds  == <<saves, flips, blips, looks>>
supervisorVars == <<lease, own, dealing, stored, cache, queries, bounds>>

Absent == 0                              \* no row, and "no timestamp"
Versions == 0..MaxSaves + 1
Query(op, v) == [op |-> op, st |-> "sent", val |-> v]

SupervisorInit ==
  /\ leading = FALSE /\ observed = FALSE
  /\ active = FALSE /\ watch = FALSE /\ lastSeen = Absent
  /\ listener = None /\ shown = "idle" /\ playing = FALSE /\ ticker = FALSE
  /\ dealer = [h \in Handles |-> "idle"] /\ cookie = [h \in Handles |-> Absent]
  /\ stored \in {Absent, 1} /\ cache = None
  /\ queries = [s \in Slots |-> None] /\ outlived = FALSE /\ stale = FALSE
  /\ saves = MaxSaves /\ flips = MaxFlips /\ blips = MaxBlips /\ looks = MaxLooks

\* A query takes a free slot; they are interchangeable.
Free == {s \in Slots : queries[s] = None}
Issue(op, v) == Free # {} /\ queries' = [queries EXCEPT ![CHOOSE s \in Free : TRUE] = Query(op, v)]
Finish(s) == queries' = [queries EXCEPT ![s] = None]

-----------------------------------------------------------------------------
(* Starting and stopping listeners.                                        *)

\* tearDownCurrentListener() unsubscribes, then stops the listener.
LeftRunning == dealer                                      \* (mutant)
Stopped == [h \in Handles |-> IF h = listener THEN "idle" ELSE dealer[h]]

Forgotten == [h \in Handles |-> IF h = listener THEN Absent ELSE cookie[h]]

TickerStopped == FALSE

IdleState == "idle"

TearDown ==
  /\ listener' = None /\ shown' = IdleState
  /\ playing' = FALSE /\ ticker' = TickerStopped
  /\ dealer' = Stopped /\ cookie' = Forgotten

\* createListener() makes a new one; those not in use are as good.
Unused == {h \in Handles : dealer[h] = "idle"}

\* startListenerFromCredential() once the credential v is known.
StartWith(v) ==
  /\ stale' = (v # stored \/ v # lastSeen')
  /\ IF v = Absent THEN TearDown
     ELSE LET h == CHOOSE g \in Unused : TRUE
          IN  /\ Unused # {}
              /\ listener' = h /\ shown' = "connecting"
              /\ playing' = FALSE /\ ticker' = TickerStopped
              /\ dealer' = [Stopped EXCEPT ![h] = "connecting"]
              /\ cookie' = [Forgotten EXCEPT ![h] = v]

\* startListenerFromCredential(), called by the handler in slot s: the cache
\* answers at once, the database later.
Load(s) ==
  IF cache = None
    THEN queries' = [queries EXCEPT ![s] = Query("load", Absent)] /\ UNCHANGED dealing
    ELSE StartWith(cache) /\ Finish(s)

-----------------------------------------------------------------------------
(* The lease.                                                              *)

LeaseFlips ==
  /\ flips > 0 /\ flips' = flips - 1
  /\ leading' = ~leading
  /\ UNCHANGED <<observed, own, dealing, stored, cache, queries, saves, blips, looks>>

\* onLeadershipGain() up to its first await.
Gain ==
  IF active THEN UNCHANGED <<own, dealing, queries>>
  ELSE active' = TRUE /\ Issue("gain", Absent) /\ UNCHANGED <<watch, lastSeen, outlived, dealing>>

\* Is a handler under way that may yet start a listener?
UnderWay == \E s \in Slots : queries[s] # None /\ queries[s].op \in {"gain", "check", "load"}

\* onLeadershipLoss(), also called by stop().
Loss ==
  /\ IF active THEN /\ active' = FALSE /\ watch' = FALSE /\ lastSeen' = Absent
                    /\ outlived' = UnderWay
                    /\ TearDown /\ UNCHANGED stale
               ELSE UNCHANGED <<own, dealing>>
  /\ UNCHANGED queries

\* reconcileLeadership(): on a timer, and from onLostLease.
Reconcile ==
  /\ leading # observed
  /\ observed' = leading
  /\ IF leading THEN Gain ELSE Loss
  /\ UNCHANGED <<leading, stored, cache, bounds>>

-----------------------------------------------------------------------------
(* The credential.                                                         *)

\* The credential watch fires: checkCredentialForChanges() up to its await.
WatchFires ==
  /\ watch /\ active
  /\ Issue("check", Absent)
  /\ UNCHANGED <<lease, own, dealing, stored, cache, bounds>>

\* The admin saves (or deletes) the credential, here or on another instance.
NextVersion == (MaxSaves + 2) - saves

SaveHere ==
  /\ saves > 0 /\ saves' = saves - 1
  /\ \E v \in {Absent, NextVersion} : Issue("save", v)
  /\ UNCHANGED <<lease, own, dealing, stored, cache, flips, blips, looks>>

SaveElsewhere ==
  /\ saves > 0 /\ saves' = saves - 1
  /\ stored' \in {Absent, NextVersion}
  /\ UNCHANGED <<lease, own, dealing, cache, queries, flips, blips, looks>>

\* The status page reads the credential through the same cache.
AdminLooks ==
  /\ looks > 0 /\ looks' = looks - 1
  /\ cache = None
  /\ Issue("look", Absent)
  /\ UNCHANGED <<lease, own, dealing, stored, cache, saves, flips, blips>>

CacheExpires ==
  /\ cache # None /\ cache' = None
  /\ UNCHANGED <<lease, own, dealing, stored, queries, bounds>>

\* The database runs a call, or fails it.
Settle(s, st, v) == queries' = [queries EXCEPT ![s] = [op |-> queries[s].op, st |-> st, val |-> v]]

DbAnswers(s) ==
  /\ queries[s] # None /\ queries[s].st = "sent"
  /\ \/ /\ queries[s].op = "save"
        /\ stored' = queries[s].val
        /\ Settle(s, "ok", queries[s].val)
        /\ UNCHANGED blips
     \/ /\ queries[s].op # "save"
        /\ Settle(s, "ok", stored)
        /\ UNCHANGED <<stored, blips>>
     \/ /\ blips > 0 /\ blips' = blips - 1
        /\ Settle(s, "failed", Absent)
        /\ UNCHANGED stored
  /\ UNCHANGED <<lease, own, dealing, cache, saves, flips, looks>>

\* A failed read is not cached.
Cached(s) == IF Caching /\ queries[s].st = "ok" THEN queries[s].val ELSE cache

-----------------------------------------------------------------------------
(* A handler goes on after its await.                                      *)

\* A save (or delete) and the status page only fill the cache.
FillCache(s) ==
  /\ queries[s].op \in {"save", "look"}
  /\ cache' = Cached(s)
  /\ Finish(s)
  /\ UNCHANGED <<own, dealing>>

\* onLeadershipGain().
WatchArmed == TRUE

GainGoesOn(s) ==
  /\ queries[s].op = "gain"
  /\ lastSeen' = queries[s].val
  /\ watch' = WatchArmed
  /\ Load(s)
  /\ UNCHANGED <<active, outlived, cache>>

\* checkCredentialForChanges().
OnlyNew(v) == v # lastSeen /\ lastSeen = Absent            \* (mutant)
Changed(v) == v # lastSeen

CheckGoesOn(s) ==
  /\ queries[s].op = "check"
  /\ IF Changed(queries[s].val)
       THEN lastSeen' = queries[s].val /\ Load(s)
       ELSE Finish(s) /\ UNCHANGED <<lastSeen, dealing>>
  /\ UNCHANGED <<active, watch, outlived, cache>>

\* startListenerFromCredential().
LoadGoesOn(s) ==
  /\ queries[s].op = "load"
  /\ UNCHANGED own
  /\ cache' = Cached(s)
  /\ StartWith(queries[s].val)
  /\ Finish(s)

Resume(s) ==
  /\ queries[s] # None /\ queries[s].st # "sent"
  /\ FillCache(s) \/ GainGoesOn(s) \/ CheckGoesOn(s) \/ LoadGoesOn(s)
  /\ UNCHANGED <<lease, stored, bounds>>

-----------------------------------------------------------------------------
(* The listener calls back.  Only the current one has subscribers.         *)

\* handleStateChange().
DealerMoves(h) ==
  /\ \E s \in States :
       /\ <<dealer[h], s>> \in Moves
       /\ dealer' = [dealer EXCEPT ![h] = s]
       /\ shown' = IF h = listener THEN s ELSE shown
       /\ IF h = listener /\ s = "credential_dead"
            THEN playing' = FALSE /\ ticker' = TickerStopped
            ELSE UNCHANGED <<playing, ticker>>
  /\ UNCHANGED <<lease, own, listener, cookie, stale, stored, cache, queries, bounds>>

\* handleEvent(), for a track that plays or one that does not.
Heeded(h) == h = listener                                  \* (mutant)
Heeds(h) == h = listener /\ active

EventArrives(h) ==
  /\ dealer[h] \in {"connecting", "connected"}
  /\ IF Heeds(h) THEN playing' \in BOOLEAN /\ ticker' = playing'
                 ELSE UNCHANGED <<playing, ticker>>
  /\ UNCHANGED <<lease, own, listener, shown, dealer, cookie, stale, stored, cache, queries, bounds>>

-----------------------------------------------------------------------------
SupervisorNext ==
  \/ LeaseFlips \/ Reconcile
  \/ WatchFires \/ SaveHere \/ SaveElsewhere \/ AdminLooks \/ CacheExpires
  \/ \E s \in Slots : DbAnswers(s) \/ Resume(s)
  \/ \E h \in Handles : DealerMoves(h) \/ EventArrives(h)

SupervisorSpec == SupervisorInit /\ [][SupervisorNext]_supervisorVars

\* Both interval timers keep firing, a call is answered, the event loop runs
\* what was answered, and an entry of the cache expires.
SupervisorFairness ==
  /\ WF_supervisorVars(Reconcile) /\ WF_supervisorVars(WatchFires) /\ WF_supervisorVars(CacheExpires)
  /\ \A s \in Slots : WF_supervisorVars(DbAnswers(s) \/ Resume(s))

SupervisorFairSpec == SupervisorSpec /\ SupervisorFairness

-----------------------------------------------------------------------------
(* Properties.                                                             *)

QueryTypes == [op : {"gain", "check", "load", "save", "look"},
              st : {"sent", "ok", "failed"}, val : Versions]

\* The type invariant; the supervisor is active exactly if the lease watch
\* has told it of a gain and of no loss since.
SupervisorTypeOK ==
  /\ active = observed
  /\ {leading, observed, active, watch, ticker, playing, outlived, stale} \subseteq BOOLEAN
  /\ listener \in Handles \cup {None} /\ shown \in States
  /\ dealer \in [Handles -> States] /\ cookie \in [Handles -> Versions]
  /\ {lastSeen, stored} \subseteq Versions /\ cache \in Versions \cup {None}
  /\ queries \in [Slots -> QueryTypes \cup {None}]
  /\ saves \in 0..MaxSaves /\ flips \in 0..MaxFlips
  /\ blips \in 0..MaxBlips /\ looks \in 0..MaxLooks

\* However gains, losses, checks and loads overlap, a process never runs a
\* listener that it no longer holds: nothing else could ever stop it.
NoOrphan == \A h \in Handles : dealer[h] # "idle" => h = listener

\* What isListenerConnected() tells the polling lane is the state of the
\* listener that runs, never of one that was replaced.
ShownIsCurrent == shown = IF listener = None THEN "idle" ELSE dealer[listener]

\* The progress ticker is armed exactly while the last that was heard of the
\* running listener is a playing track, and only on a process whose supervisor is
\* active and whose listener could still correct it: one that is connecting,
\* connected or backing off, never an idle or a dead one.
TickerOnlyWhileLive ==
  /\ ticker = playing
  /\ ticker => active /\ listener # None /\ shown \notin {"idle", "credential_dead"}

\* A dealer runs on a process that was told to stop only because a handler was
\* still waiting for the database when it was told: no watch, save, late answer or
\* status page starts one otherwise, and no loss leaves one running.
StraysOutliveTheirTerm ==
  (\E h \in Handles : dealer[h] # "idle") => active \/ outlived

SupervisorIInv == SupervisorTypeOK /\ NoOrphan /\ ShownIsCurrent /\ TickerOnlyWhileLive

\* With SupervisorIInv inductive: a term that ended with nothing under way has
\* nothing under way until the next one begins, and no listener.
TermOver == (~active /\ ~outlived) => (listener = None /\ ~UnderWay)

\* A process that has lost the lease for good ends up without a dealer ("starts the
\* underlying DealerListener ONLY on the current leader").
OnlyTheLeaderListens ==
  <>[]~leading => <>[](\A h \in Handles : dealer[h] = "idle")

\* The listener runs with the stored credential, or not at all if there is none.
Following ==
  IF stored = Absent THEN listener = None ELSE listener # None /\ cookie[listener] = stored

\* On an instance that stays the leader, when the admin is done (saves are bounded),
\* the credential that is stored ends up in the listener, and a deletion stops it
\* ("(re)starts it when the admin saves one").
CredentialTaken == <>[]leading => <>[]Following

\* The watch misses no save, deletion or failed look for good, whatever gains,
\* losses, checks and loads overlap: what is left running in the end was started with
\* what is stored, unless the very load that started it was given something else (a
\* cached copy, a failed read, an answer that came after a newer one's), or the look
\* before it was.
LastLoadRules == <>[]leading => <>[](Following \/ stale)

===============================================================================
