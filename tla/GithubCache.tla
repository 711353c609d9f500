----------------------------- MODULE GithubCache -----------------------------
(***************************************************************************)
(* services/githubService.ts in one process: the contribution calendars    *)
(* behind GET /api/github and the leader's slow lane, with the copy of the *)
(* personal access token serviceTokenStore.ts keeps and the admin who      *)
(* replaces it.                                                            *)
(*                                                                         *)
(* A token (PAT) is its account: "of" tells whose calendar something is,   *)
(* "pat" under which token the code files it.  What the upstream parsers   *)
(* make of an answer is the account it is about, or a failure.  A request  *)
(* runs from one await to the next; those a shared promise wakes run one   *)
(* after the other before anything else does (Quiet).                      *)
(***************************************************************************)
EXTENDS Naturals, FiniteSets

CONSTANTS
  Requests,       \* bound: requests for a calendar under way at the same time
  Pats,           \* the tokens the admin uses
  Years,          \* the windows asked for with ?year=
  Default,        \* windowKey "default", the trailing twelve months
  None,           \* no token, nothing cached, no call under way
  Unknown,        \* no live copy of the stored token in this process
  MaxChanges      \* bound: changes of the stored token

ASSUME GithubAssumption ==
  /\ Default \notin Years /\ {None, Unknown} \cap Pats = {} /\ None # Unknown
  /\ MaxChanges \in Nat

VARIABLES
  row,            \* the row of service_tokens
  stored,         \* serviceTokenStore's copy of it, Unknown when it has expired
  saving,         \* the admin's write on this process that has not returned
  meta,           \* metaCache and whether it has expired
  metaCall,       \* metaInFlight, by the token it was sent with
  windows,        \* windowCache
  windowCall,     \* windowInFlight, with what it will be filed as
  request,        \* request[r]: where it is, what it asked for and found so far;
                  \* when idle, the token and the account of its last answer
  changes         \* what the bound counts

token   == <<row, stored, saving, changes>>
service == <<meta, metaCall, windows, windowCall>>
vars    == <<token, service, request>>

Windows == Years \cup {Default}
Filed(p, q) == [pat |-> p, of |-> q]
Tokens == Pats \cup {None}
Entries == [pat : Tokens, of : Tokens]
Idle == [at |-> "idle", win |-> Default, pat |-> None, of |-> None]

Places == {"idle", "row", "loaded", "years", "meta", "woken years", "woken meta", "window"}
Asked == [at : Places, win : Windows, pat : Tokens, of : Tokens]

TypeOK ==
  /\ row \in Tokens /\ stored \in Tokens \cup {Unknown}
  /\ saving \in Tokens \cup {Unknown}
  /\ meta \in [pat : Tokens, live : BOOLEAN] \cup {None} /\ metaCall \in Tokens
  /\ windows \in [Windows -> Entries \cup {None}] /\ windowCall \in [Windows -> Entries \cup {None}]
  /\ request \in [Requests -> Asked]
  /\ changes \in 0..MaxChanges

Init ==
  /\ row \in Pats \cup {None} /\ stored = Unknown /\ saving = Unknown
  /\ meta = None /\ metaCall = None
  /\ windows = [w \in Windows |-> None] /\ windowCall = [w \in Windows |-> None]
  /\ request = [r \in Requests |-> Idle] /\ changes = 0

Quiet == \A r \in Requests : request[r].at \notin {"woken years", "woken meta"}

\* Request r goes on at "at" with what it knows in q, or is answered.
GoesTo(r, at, q) == request' = [request EXCEPT ![r] = [q EXCEPT !.at = at]]
Shown(p, q) == [Idle EXCEPT !.pat = p, !.of = q]
Answered(r, p, q) == request' = [request EXCEPT ![r] = Shown(p, q)]

-----------------------------------------------------------------------------
(* The stored token.                                                       *)

\* saveServiceToken() or deleteStoredServiceToken(): the row, then the copy.
AdminWrites ==
  /\ Quiet /\ saving = Unknown /\ changes < MaxChanges /\ changes' = changes + 1
  /\ \E p \in Pats \cup {None} : row' = p /\ saving' = p
  /\ UNCHANGED <<stored, service, request>>

AdminReturns ==
  /\ Quiet /\ saving # Unknown
  /\ stored' = saving /\ saving' = Unknown
  /\ UNCHANGED <<row, changes, service, request>>

\* The same on another process: this one's copy knows nothing of it.
AdminElsewhere ==
  /\ Quiet /\ changes < MaxChanges /\ changes' = changes + 1
  /\ \E p \in Pats \cup {None} : row' = p
  /\ UNCHANGED <<stored, saving, service, request>>

\* SERVICE_TOKEN_CACHE_TTL_MS, GITHUB_CACHE_TTL_MS
StoredExpires ==
  /\ Quiet /\ stored # Unknown /\ stored' = Unknown
  /\ UNCHANGED <<row, saving, changes, service, request>>

MetaExpires ==
  /\ Quiet /\ meta # None /\ meta.live /\ meta' = [meta EXCEPT !.live = FALSE]
  /\ UNCHANGED <<token, metaCall, windows, windowCall, request>>

WindowExpires(w) ==
  /\ Quiet /\ windows[w] # None /\ windows' = [windows EXCEPT ![w] = None]
  /\ UNCHANGED <<token, meta, metaCall, windowCall, request>>

-----------------------------------------------------------------------------
(* getGithub(pat, year)                                                    *)

\* The window q asks for, once the account behind its token is known: answered
\* from the cache, waiting for the fetch under way, or starting one.
AnyEntry(e, p) == e # None                                 \* (mutant)
Usable(e, p) == e # None /\ e.pat = p

OpenWindow(r, q, cached) ==
  /\ windows' = cached
  /\ IF Usable(cached[q.win], q.pat)
       THEN Answered(r, q.pat, cached[q.win].of) /\ UNCHANGED windowCall
     ELSE /\ GoesTo(r, "window", q)
          /\ windowCall' = [windowCall EXCEPT ![q.win] = IF @ = None THEN Filed(q.pat, q.of) ELSE @]

\* resolveMeta(pat), after invalidateIfPatChanged(pat): a live entry answers at
\* once, else the request waits for the call under way, whoever sent it, or sends one.
Foreign(p) == meta # None /\ meta.pat # p
Known(p) == meta # None /\ meta.pat = p /\ meta.live
Resolve(r, q, at) ==
  LET kept == IF Foreign(q.pat) THEN [w \in Windows |-> None] ELSE windows IN
  IF Known(q.pat)
    THEN OpenWindow(r, [q EXCEPT !.of = q.pat], kept) /\ UNCHANGED <<meta, metaCall>>
    ELSE /\ meta' = IF Foreign(q.pat) THEN None ELSE meta
         /\ windows' = kept
         /\ metaCall' = IF metaCall = None THEN q.pat ELSE metaCall
         /\ GoesTo(r, at, [q EXCEPT !.of = None])
         /\ UNCHANGED windowCall

\* The router: a year is looked up in the account's years first, and refused
\* when it is not among them.
Refused(r, q) == q.win \in Years /\ Answered(r, q.pat, None) /\ UNCHANGED service

WithToken(r, q) ==
  IF q.pat = None THEN Answered(r, None, None) /\ UNCHANGED service
  ELSE \/ Resolve(r, q, IF q.win = Default THEN "meta" ELSE "years")
       \/ (Known(q.pat) /\ Refused(r, q))

\* getStoredServiceToken(): the copy, or the row as the database sees it.
Ask(r, w) ==
  /\ Quiet /\ request[r].at = "idle"
  /\ LET q == [Idle EXCEPT !.win = w] IN
       IF stored = Unknown THEN GoesTo(r, "row", q) /\ UNCHANGED service
       ELSE WithToken(r, [q EXCEPT !.pat = stored])
  /\ UNCHANGED token

RowIsRead(r) ==
  /\ Quiet /\ request[r].at = "row"
  /\ GoesTo(r, "loaded", [Idle EXCEPT !.win = request[r].win, !.pat = row]) \/ Answered(r, None, None)
  /\ UNCHANGED <<token, service>>

RowArrives(r) ==
  /\ Quiet /\ request[r].at = "loaded"
  /\ stored' = request[r].pat
  /\ WithToken(r, request[r])
  /\ UNCHANGED <<row, saving, changes>>

\* The viewer call ends: its account is cached, and all who wait for it wake.
Woken(r, q) ==
  CASE request[r].at = "years" -> [request[r] EXCEPT !.at = "woken years", !.of = q]
    [] request[r].at = "meta"  -> [request[r] EXCEPT !.at = "woken meta", !.of = q]
    [] OTHER                   -> request[r]

MetaArrives ==
  /\ Quiet /\ metaCall # None /\ metaCall' = None
  /\ \/ /\ meta' = [pat |-> metaCall, live |-> TRUE]
        /\ request' = [r \in Requests |-> Woken(r, metaCall)]
     \/ /\ UNCHANGED meta
        /\ request' = [r \in Requests |-> Woken(r, None)]
  /\ UNCHANGED <<token, windows, windowCall>>

\* resolveGithubYears() returned: the year is refused, or getGithub() begins.
WakeYears(r) ==
  /\ request[r].at = "woken years"
  /\ \/ Resolve(r, request[r], "meta")
     \/ (request[r].of # None /\ Refused(r, request[r]))
  /\ UNCHANGED token

WakeMeta(r) ==
  /\ request[r].at = "woken meta"
  /\ IF request[r].of = None THEN Answered(r, request[r].pat, None) /\ UNCHANGED service
     ELSE OpenWindow(r, request[r], windows) /\ UNCHANGED <<meta, metaCall>>
  /\ UNCHANGED token

\* The calendar arrives: only a good one is cached, all who wait are answered.
WindowArrives(w) ==
  /\ Quiet /\ windowCall[w] # None /\ windowCall' = [windowCall EXCEPT ![w] = None]
  /\ \E of \in {windowCall[w].of, None} :
       /\ windows' = IF of = None THEN windows ELSE [windows EXCEPT ![w] = windowCall[w]]
       /\ request' = [r \in Requests |->
            IF request[r].at = "window" /\ request[r].win = w
              THEN Shown(request[r].pat, of) ELSE request[r]]
  /\ UNCHANGED <<token, meta, metaCall>>

Next ==
  \/ AdminWrites \/ AdminReturns \/ AdminElsewhere
  \/ StoredExpires \/ MetaExpires \/ MetaArrives
  \/ \E w \in Windows : WindowExpires(w) \/ WindowArrives(w)
  \/ \E r \in Requests :
       \/ \E w \in Windows : Ask(r, w)
       \/ RowIsRead(r) \/ RowArrives(r) \/ WakeYears(r) \/ WakeMeta(r)

Spec == Init /\ [][Next]_vars

-----------------------------------------------------------------------------
(* Properties.                                                             *)

\* Everything this process is doing or showing for token p is about p's account.
\* Calendars filed under other tokens may still lie in the cache.
Settled(p) ==
  /\ row = p /\ stored \in {p, Unknown} /\ saving \in {p, Unknown}
  /\ metaCall \in {p, None}
  /\ \A w \in Windows :
       /\ windowCall[w] \in {Filed(p, p), None}
       /\ windows[w] # None /\ windows[w].pat = p => windows[w].of = p
  /\ \A r \in Requests :
       /\ request[r].at \notin {"idle", "row"} => request[r].pat = p
       /\ request[r].pat = p => request[r].of \in {p, None}

\* A change of token can show the old account's calendar under the new token (its
\* callers join the viewer call of the old one) and the cache keeps it for an hour.
\* Once that is over it is over: as long as the token stays, no expiry, failed call
\* or shared call brings another account's calendar back, whatever the cache still
\* holds of other tokens.
SettledStays == [][\A p \in Pats : Settled(p) /\ row' = p => Settled(p)']_vars
=============================================================================
