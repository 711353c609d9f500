# Verification of portfolio-v6-api

TLA+ models of the portfolio API, the TLC runs that check them on small
instances, and TLAPS proofs of the results that matter most. Every definition
is written from the TypeScript sources; `PROJECT.json` ("map") names the lines
each one stands for. Paths below are relative to the repository's `src/`
(for example `services/mediaService.ts`); "l. 345" is a line of the file named
last.

Contents: 1 the system, 2 the modules and how they correspond to the code,
3 the runs and what they show, 4 bounds and fairness, 5 the proofs,
6 disagreements found, 7 what is not modelled, 8 the plan.

## 1. The system

The API runs as several identical Node processes behind a load balancer. They
share a Postgres database, a Redis, an S3 bucket whose lifecycle rules delete
tagged objects, and Centrifugo for pushes. Within a process everything is one
JavaScript thread: a handler runs undisturbed up to its next `await`, where any
other handler, timer or socket callback may run. Nearly all that is hard in
this code comes from that, and from the fact that several processes do it at
the same time.

| Component | State it keeps | Operations | Hard because |
|---|---|---|---|
| **Leader lease** `services/upstream/leaderLease.ts`, started by `services/upstream/index.ts` | one Redis key with a TTL; per process `leader` and a renewal timer | `tryAcquire` (SET NX PX), `tryRenew` and `release` (Lua compare-and-expire, compare-and-delete), `start`, `stop` | belief and truth differ while an answer is out; crashes; late and repeated commands |
| **Dealer client** `services/listener/dealerClient.ts` | state, epoch, socket, token, connection id, three timers, backoff counter | `start`, `stop`, and a dozen callbacks | promises that settle after the connection they were for is gone |
| **Web token minter** `services/listener/webTokenMinter.ts` | a cached token and the attempt under way | `mintWebToken` | one attempt for concurrent callers of one cookie; cookies that change; expiry |
| **Listener supervisor** `services/upstream/listenerSupervisor.ts` | `active`, the listener, its shown state, the last seen `updated_at`, two timers | leadership gain and loss, credential check, events, progress tick | handlers that await the database while leadership changes |
| **Credential store** `services/serviceTokenStore.ts`, `services/listenerCredentialStore.ts` | rows of `service_tokens`, a cache per process | get, save, delete, `updated_at` | a cache on one instance and a write on another |
| **Poll loop and snapshots** `services/upstream/pollLoop.ts`, `snapshotStore.ts` | last serialized payload per lane; Redis snapshots with TTLs | tick per lane, read and write of snapshots, suspension, health records | stale leadership, change detection across terms |
| **Now playing** `services/nowPlayingStateStore.ts`, supervisor l. 285-340, `services/spotifyService.ts` | the last payload in Redis and in the database | event and tick writes, cold-start reads | unordered writes |
| **Upstream caches** `services/githubService.ts`, `duolingoService.ts`, `statusService.ts` | cached value, fetch under way | read-through | single flight, keyed or not; a token that changes under way |
| **Ops reports** `services/opsService.ts`, `routers/opsRouter.ts` | one row per UTC day, a build under way per process | lazy build, read, cache headers | days and minutes, many instances, ids of a batched query |
| **Drafts** `services/sectionsService.ts`, `pagesService.ts` | rows of `pages`, `sections`, `section_items` with positions and `updated_at` | create, update, delete, reorder | optimistic concurrency, position ties |
| **Publish pipeline** `services/publishService.ts` | rows of `page_versions` | publish, restore, prune, read latest, preview | drafts read outside the transaction that inserts the version |
| **Media library** `services/mediaService.ts` | row, object, tag; references from four places | presign, confirm, delete, garbage collection | three stores without a common transaction |
| **Posts and blogs** `services/postsService.ts`, `blogsService.ts` | draft and published copy, slug, `published_at` | create, update, publish, unpublish, delete | slug lock, stale edits |
| **Resumes** `services/resumesService.ts` | row and object | presign, confirm, delete, download | as media, without the garbage collection |
| **Icons** `services/iconsService.ts` | objects in S3, an upstream catalogue | search, import | little |
| **API keys, preview tokens** `services/apiKeysService.ts`, `previewTokenService.ts` | one row per key or token | create, revoke, check | little |
| **Analytics** `services/analyticsService.ts` | a token bucket per address, retention gate | ingest, prune | lazy refill, forgetting of idle buckets |
| **Schemas, utilities, routers, configuration, database set-up** | none of their own | validation, wiring | pure functions and I/O |

How they interact. The **lease** decides which process runs the **poll loop** and
the **listener supervisor**. The supervisor owns one **dealer client** at a
time, hands it the cookie from the **credential store**, and writes what it
hears to **now playing**; the poll loop leaves the playing lane alone while
`isListenerConnected()` is true. The owner edits **drafts**; **publish**
snapshots them, **restore** replaces them; every publish, restore and post
publish runs the **media** garbage collection, which reads the references in
drafts, versions and posts.

What makes each one correct, and where it is checked:

- *Lease*: at most one running instance believes it leads; a leader holds the
  key; nobody touches another's lease; a dead leader is replaced in bounded time
  (not within one TTL, section 6).
- *Dealer client*: one loop, never two and never none; no socket it no longer
  knows of; silent when stopped or dead; only events of the connection it
  holds; it recovers; its owner sees only what the interface promises.
- *Supervisor*: it runs no listener it does not hold, shows that listener's
  state, stops ticking with it, runs none after its term (it does, in one case) and
  ends up with the credential that is stored (it does not always; section 6).
- *Publish*: the history neither forks nor loses versions, nothing invalid and
  nothing hidden becomes live, a restore is whole and is not undone.
- *Status feed*: an instance never overwrites a status by an older one, the last
  event sent is the status last written, every reader ends up with what is.
- *Now playing*: visitors end up with the track that plays, a pause stays (it does
  not, section 6), the health record is the word of the one that wrote it.
- *Tokens and caches*: nobody is given another account's token or, once a change
  of token has settled, another account's calendar; one attempt at a time.
- *Ops*: a report is of a whole day, reaches every client in time, and asks
  CloudWatch for what it draws.
- *Rate limit*: forgetting idle addresses is invisible.
- *Sections*: positions tie, and orders are lost, only where operations overlap on
  a page.
- *Resumes*: the served version has its object, and no object is left that cannot
  be deleted.
- *Media*: what is in use is never marked for deletion and is rescued if it
  was; row, tag and object agree; nothing is left that nobody lists.
- *Posts*: no edit is lost, a slug stays while its post has a date, only the
  complete draft of that moment goes live, the stamp tells every change, and a
  reader who follows the cursors sees each post once.

`PROJECT.json` ("hazards") lists the places where these could fail, by line,
with the properties that would catch it or the reason why none does yet.

## 2. The modules

### DealerStates, DealerListener, DealerClient

`DealerStates` holds the five states of the interface type and the moves a
listener makes by itself. `DealerListener` is the abstract specification: what
interface `DealerListener` promises its owner (a state, whether it was asked to
run, the last event), with no tokens, sockets or timers. `DealerClient` is
`createDealerListener()`.

- The closure variables `state`, `stopped`, `epoch`, `socket`, `token`,
  `connectionId`, `pingTimer`, `pongTimer`, `backoffTimer`, `backoffAttempt`
  keep their names. A timer is armed or not. A token is present or not.
- A pending promise is a record (`mints`, `puts`) that carries the epoch its
  closure captured. Nothing cancels one, so its continuation is an action that
  may happen however late.
- An action per callback: `Start`, `Stop`, `BackoffFires`, `MintSucceeds`,
  `MintFails`, `MintRejected`, `SocketOpens`, `SocketFails`, `PingTimerFires`,
  `KeepaliveFails`, `PongArrives`, `HelloArrives`, `PutServed`, `PutSucceeds`,
  `PutFails`, `ClusterArrives`; `PlaybackChanges` is Spotify's. `ScheduleReconnect`,
  `TeardownSocket`, `Connect`, `ClearPing` are the helpers of the same name.
- `ImplementsListener` maps `state`, `~stopped` and the last event to the
  interface; it is checked by TLC and proved.

### LeaderLease, LeaseFailover

`key`, `ttl` are Redis; `leader[p]` is the closure variable behind `isLeader()`.
A command is a record in the instance's queue, with its age: one ioredis
connection, so commands run and answer in order, and `Break` is a connection
that breaks (the client sends the command again, or rejects it, whether or not
Redis had run it). The interval's callback does not wait for the command it
sent before, nor does `TimerFires`. Time is discrete and `Tick` waits for what
is due: a timer by `RenewInterval + MaxLag`, a command by `MaxRtt`. A process
that restarts is a new instance, since the key's value is a UUID minted at
boot. `LeaseFailover` adds an observer's clock, `gap`: the time in which some
instance is up and no such instance believes it leads. It starts again when a
connection breaks, and when an instance goes down that has the lease or a command
under way, because what that leaves behind may be a fresh lease nobody knows of: a
candidate can take the key and crash before it reads the answer.

### ListenerSupervisor

One process: `leading` is `lease.isLeader()`, `observed` is `observedLeader` of
`services/upstream/index.ts`, the others are the supervisor's closure variables.
A database query is a record in `queries`; the code up to an `await` is one action
(`Reconcile`, `WatchFires`, ...), the database's answer another (`DbAnswers`) and
the rest of the handler a third (`Resume`). A listener is what `DealerListener`
promises, a state that makes the moves of `DealerStates`, so the supervisor is
composed with the abstract client and not with the detailed one. A credential
is the number of the save that stored it. `SaveElsewhere` is a save on another
instance, which leaves this process's `cache` alone. Two history variables:
`outlived`, whether a handler that can start a listener was still under way when the
last term ended, and `stale`, whether the credential taken last was not the one
stored at that moment, or not the one the watch had seen.

### MediaGc

`row[a]` (the columns `confirmed_at`, `unreferenced_at` and whether the grace
period has passed), `obj[a]` (not uploaded, absent, or present with its tag),
`refs[s]` for the four sources `collectReferenceSet()` queries, and `job[w]`,
the handler a worker runs with its local variables. Each `await` ends an action:
`confirmUpload` is `ConfirmStarts`, `ConfirmClears`, `ConfirmStamps`; `runGc` is
`ReadSource` four times, `ReadAssets`, then per asset `MarkRescued` /
`MarkOrphaned` followed by `WriteTag`, or `HeadOrphan` followed by `Reap`. A
pass begins from a sweep (`Sweep`), a publish (`PublishReads`,
`PublishWrites`) or a restore (`Restore`); a post publish starts one as a sweep
does. Deleting a row clears the covers of posts (ON DELETE SET NULL) and leaves
references in bodies dangling. The lifecycle rules of the bucket are not in the
repository: a tagged object may vanish at any time.

Two history variables: `steady[w]`, the references that have been there since
w's pass began, and `disturbed`, whether something has happened that no handler
guards against (overlapping passes, a confirmation sent twice or overlapping a
deletion, a handler that failed half way).

### Publishing

The drafts (`page`, `sec`, `item`), the retained `versions`, and `job[w]`, a
publish or a restore. `publish()` reads pages, sections and items by three
queries (`ReadPages`, `ReadSections`, `ReadItems`, with `validatePages` and
`validateWorkingSet` where the code calls them) and then opens a transaction
(`NumberPublish`, `InsertPublish` with `pruneVersions`). `restoreVersion()` is
one transaction (`ReadSource`, `Rebuild`). The owner's edits run between any two
of these. Kept of a row is what publish looks at: whether it is hidden, the
page of a section, whether the schema admits a payload, the skill it refers to,
and of the slugs whether one is `home`. A section has at most one item here,
and positions are left out. History: `steady[w]`, the rows hidden since the
publish began, and `overtaken`, the publishes that read drafts a restore has
replaced.

### Posts

`post[i]` is the row (slug, blog, draft, published body, date, `updated_at`),
`copy[c]` the row an admin client was given last, `job[c]` its request that has
looked and not yet written, and `walk` a reader in the middle of
`listPublishedPosts()`. `updatePost`, `publishPost` and `unpublishPost` are two
actions each: `UpdateLooks`, `PublishLooks`, `UnpublishLooks` lock the row
(`forUpdate()`, here `Held`), check it and decide; `Write` is the UPDATE and the
commit, which the constraints may refuse (`Admitted`: UNIQUE slug, the foreign
key of the blog); `Abort` is any failure in between. `createPost` has no lock and
no transaction: `CreateLooks`, then `Write`. `deletePost` and `deleteBlog` (ON
DELETE SET NULL) are one statement each and wait for the lock. `StartWalk` and
`NextPage` are GET /api/posts without and with a cursor; the pages follow the
keyset on (published_at, id). History: what a request's client had loaded when
it was checked (`base`), and what the walk has seen and what has been listed
under one date since it began.

### PollLoop

The status lane on every instance, from the gateway to a visitor. A payload is the
version of the gateway's state it was made from; `Degraded` is what both
`mapGatewayResponse()` and the loop's own fallback make of a gateway that cannot
be reached. Per instance: the tick (`pc`, `got`), the status service's `inFlight`
and cache (`flight`, `cache`), `prevSerialized` (`prev`) and `localSnapshots`
(`local`); shared: the snapshot (`snap`) and what the clients of the realtime
gateway heard last (`heard`). `runTick()` is `RunTick`, `FlightLands`, `SetLands`,
`EventLands`, `SlowLaneDone`, one action per `await`; the lease is looked at in
the first only. A request may share the fetch of a tick (`DirectRead`); a SET may
be sent twice, late (`SetIsRepeated`); a process may die and come back empty
(`Crash`). `leading` is whatever the leases say: two leaders at once are allowed.

### NowPlaying

From the player to the visitor: `player` is the history of what plays, an event's
payload is its place in it. A handler is a chain of awaits in a slot
(`chain[i][c]`): `Event` or `Tick` up to the first `await`, `RowWritten`
(`saveLastNowPlaying`), `RedisRuns` (`writeSnapshot`), `Published`, and for an event
another health record. Queries go over a pool and end in any order; commands of one
process to Redis go over one connection (`wire[i]`) and keep theirs. The
supervisor's other state (`held`, `state`, `error`, `lastEvent`, `lastPlaying`,
`armed`) is changed by `GainLease`, `StartListener`, `LoseLease`, `StateChange`
as far as the two Redis records and the ticker depend on it; loads and credentials
are the subject of ListenerSupervisor. `Served` is what GET /api/now-playing
answers, `Reported` what the status page makes of the health record. (The local
copy the router asks for between snapshot and row is never written for this feed,
`pollLoop.ts` writes its own lanes only, so it has no place in `Served`.)

### MCFeeds

The two feeds of a visitor's page with the fairness each needs. They share nothing
but the lease, so a behaviour studies one and leaves the other at rest.

### GithubCache

`githubService.ts` in one process, the token it reads through
`serviceTokenStore.ts` and the router in front. A request goes
from `Ask` (the token, cached or from the row: `RowIsRead`, `RowArrives`) to
`Resolve` (the account, cached, shared or fetched: `MetaArrives`) to `OpenWindow`
(the calendar of a year or of the last twelve months: `WindowArrives`) to an
answer. An entry or a call remembers both the token the code files it under and,
for the properties, the account it is about; those differ when a caller joins a
call that was started for another token. Promises wake their callers one after
the other before anything else happens (`Quiet`).

### WebToken

`mintWebToken()` in one process. The slot `inFlight` holds the attempt that others
may join; attempts (`mint[n]`) go from the server's time to the exchange
to the end, and one that has lost its slot to another cookie still ends for its own
callers. A token is the cookie it was minted from.

### OpsReports, OpsPlan

`OpsReports` is `ensureReport()` and the router on several instances, with a clock
that counts the minutes of UTC days: a request looks whether yesterday's report is
there (`LooksUp`), joins or starts the build of its process (`JoinsOrBuilds`), which
fetches (`Fetches`), inserts unless another instance was faster (`Inserts`) and
lets its callers go on (`BuildReturns`); `Serves` answers with the max-age of
`buildCacheControl()`, counted from when the request came. `copy` is what a client
or a CDN keeps of it. `OpsPlan` is `buildPlan()`, its two loops run step by step: a widget
of the dashboard is chosen when the loop comes to it (`ReadWidget`, with the first
pass over its rows), each row is left out or adds a query (`DropRow`, `PlanRow`), and
a widget that draws nothing leaves the plan (`EndWidget`). An id is what a row
declares and the widget it is prefixed by; a declared id that is the number k stands
for the text "x" and k, which the code gives to expressions without an id.

### BeaconIngest, TokenBucket

`underRateLimit()` with its lazy refill and `pruneBuckets()`, and the steps of a
beacon through `ingestBeacon()` and `maybePruneRetention()`. `TokenBucket` is the
abstract limiter: a level per address, refilled at every tick of the clock and
never forgotten. `ImplementsBucket` maps an address without a bucket to a full one.

### SectionOrder

The `position` column of "sections" at READ COMMITTED. `createSection()` is two
statements without a transaction (`CreateLooks`, `CreateInserts`); a move is
`MoveLooks`, `ResequenceSorts`, `LockMore` as often as it has to wait, and
`MoveCommits`; a reorder is `ReorderSelects`, `LockMore`, `ReorderCommits`. SELECT
... ORDER BY ... FOR UPDATE sorts first (`rank`) and locks row by row afterwards
(`todo` are the rows it has yet to lock, `got` those it will return). A `Delete`
waits for whoever has locked the row. `Fails` is a deadlock's victim, a stale
`expected_updated_at` or an array that is not the page's.

### Resumes

Rows, objects and presigned URLs of resume versions. A confirmation, a deletion or a
download is a list of the steps it has yet to take (`ConfirmSteps`, `DeleteSteps`,
`DownloadSteps`), any of which may be the last (`CallFails`).

### MC modules and proof modules

`MCMediaGc`, `MCPublishing` and `MCPosts` add a symmetry. `MCListener` puts the
dealer client and the supervisor beside one another, with the fairness of each: the
supervisor is written against `DealerListener`, which the client implements, so that
neither needs the other's variables. `MCServices` puts eight
modules whose subjects never call each other beside one another: `studied` says
which of them a behaviour is about, the others stay as they start, so that the
states add up and do not multiply. `DealerClientProofs`, `LeaderLeaseProofs`,
`ListenerSupervisorProofs`, `MediaGcProofs`, `PostsProofs` and `PublishingProofs`
hold the theorems about one component each, `FeedsProofs` those about PollLoop and
NowPlaying, `ServicesProofs` those about WebToken, BeaconIngest, Resumes, OpsReports,
OpsPlan, GithubCache and SectionOrder.

## 3. The runs

| Run | Module, cfg | Properties | What it shows |
|---|---|---|---|
| listener | MCListener | NoLeakedSocket, OneDriver, NoOrphan, TickerOnlyWhileLive, StraysOutliveTheirTerm; EventsFromOwnedSocket, Recovers, ImplementsListener, LastLoadRules | The client: any three failures and three calls of start/stop, in every order, with every late answer: one loop, no leak, recovery, and the interface's promise. The supervisor: two queries under way, overlapping gains, checks, loads and saves, the cache as it is and one failed read: one listener, a ticker that goes with it, a dealer after the term only for the known reason, no save that the watch misses. |
| lease_failover | LeaseFailover | OneLeader, GapBounded | Three instances that boot, crash, shut down and lose a connection, with timing as in production: never two leaders, and never leaderless longer than a TTL, one round of a candidate's timer and three round trips after the last disturbance. The comments promise one TTL (section 6, 6). |
| lease_two_leaders | LeaderLease, LeaderLeaseTwoLeaders.cfg | OneLeader (violated) | Without a bound on how long a renewal takes there are two leaders. |
| listener_stray | ListenerSupervisor, ListenerStray.cfg | OnlyTheLeaderListens (violated) | A gain that goes on after a loss starts a dealer, for good, on a process that does not lead. |
| listener_stale | ListenerSupervisor, ListenerStale.cfg | CredentialTaken (violated) | The cache of the process hides a save made on another instance from the restart it causes. |
| media_gc | MCMediaGc, MediaGc.cfg | TagMatchesRow, NoUntrackedObject; StableReferenceKept, PassRescues | Two requests of any kind at a time on one asset, edits and lifecycle rules between any two of their calls, one failure. |
| publishing | MCPublishing, Publishing.cfg | HistoryIsWhole, ProductionIsValid; HiddenStaysPrivate, RestoreIsRepublishable | Two publishes or restores at a time and an edit between any two of their queries. |
| publish_undo | MCPublishing, PublishingRestore.cfg | RestoreIsNotUndone (violated) | A publish that read before a restore undoes it. |
| posts | MCPosts, Posts.cfg | StampTellsContent; NoLostEdit, DatedSlugFixed, PublishedIsDraft, PagesAreStable | Two clients with a request each under way, on one post or two, a blog that comes and goes, and a reader between two pages. |
| feeds | MCFeeds, Feeds.cfg | LastWordIsCurrent; SnapshotGoesForward, ReadersConverge, PlayingIsServed | Status through changes of leader, shared fetches, repeated SETs, lost events and a crash; now-playing through events, ticks and a lost snapshot. |
| services | MCServices | TokenOfOwnCookie, WholeDays, NewsArrives, PlanIsDrawable, HealthIsOwnWord, ServedIsThere, NothingLeftBehind; SettledStays, NoSecondAttempt, ImplementsBucket, TiesComeFromOverlap, OrderIsKept | GithubCache, WebToken, OpsReports, OpsPlan, BeaconIngest, NowPlaying (two instances that hand the lease over), SectionOrder and Resumes, one per behaviour. |
| now_playing | NowPlaying, NowPlayingRace.cfg | PauseOutlivesTick (violated) | A tick lands after the pause it should give way to. |

Every module has a type invariant; it is part of what is proved where there are
proofs, and was checked with the others while the modules were written, but is no
run's question.

A property that speaks of `~disturbed` (`TagMatchesRow`, `NoUntrackedObject`,
`PassRescues`) is a statement about passes and handlers that do not overlap on
an asset and do not fail half way; the code has nothing to repair what happens
otherwise (section 6 describes one such case). `StableReferenceKept` carries no
such condition: it holds through overlaps and failures.

## 4. Bounds and fairness

Every counter that could grow has a budget named in its module.

- *DealerClient*: `MaxFaults = 3`, `MaxCalls = 3`, `AttemptCap = 2`. Three
  failures reach the saturated backoff (2) and go past it; three calls allow
  start-stop-start, the shortest way to two overlapping attempts. `MaxPlays = 1`
  gives a push that can be under way while a PUT is. `AttemptCap` is
  `BACKOFF_ATTEMPT_CAP` scaled down: its value only decides when the exponent
  stops growing.
- *LeaseFailover*: TTL 5, interval 2, lag 1, round trip 1 keep the order of the
  production values (15 s, 5 s) and satisfy `Prompt` (2+1+1 < 5) with nothing to
  spare. Two instances would do for the exclusion, but not for the gap: it takes a
  third one to wait while the first crashes and a second takes the key and dies
  before it knows. The theorems cover any number. `LeaderLeaseTwoLeaders` gives a command more time (4) than the TTL (3),
  which the code allows: the client has no command timeout.
- *ListenerSupervisor* (listener): two slots give every overlap of two awaits; two
  flips are a term and what follows it (from a third on, terms repeat; the theorems
  cover any number). Two handles suffice because a stopped listener is as good as a
  new one. The cache is as in the code (`Caching = TRUE`), one query fails, one
  credential is saved or deleted, the status page is opened once. `ListenerStray` and
  `ListenerStale` are the smallest instances in which their properties fail: one slot,
  and of failed reads and visits to the status page none. The first leaves out the
  cache, which it does not need; the second has it.
- *MediaGc*: assets do not interact except by sharing a pass, whose loop handles
  one at a time; with one asset every interleaving of two requests on it is
  there. The proof covers any number of assets and requests.
- *Publishing*: two pages, a skills section and a portfolio, one edit,
  retention 2 and three versions, so that pruning happens and two writers race
  for the same number. Initially every row exists and at most one is hidden;
  the edit can hide, show, move, create, delete or invalidate one row. The proofs
  cover any number of each.
- *Posts*: two posts, two slugs, two clients and two requests that write: enough
  for a look of one between look and write of another. An update changes one
  field (a request for several is no different: it checks and writes them
  together), and a post is created with a complete draft, which an update can
  change. Initially at most one post is a draft or was edited since it was
  published, and then shares the date of the others. No two requests fall within
  one millisecond, which the code's comparison could not tell apart. A page holds
  one post, so that a walk over two posts has a cursor. A blog's id may come back
  after deletion, which a uuid does not: more than the code allows.
- *PollLoop* (feeds): two instances, a gateway that changes once, three changes of
  an instance's lease (a term, another's, the first again) and two faults, among
  them crashes, failed calls and repeated SETs. The two safety properties are
  proved for any number.
- *NowPlaying*: in feeds one instance, two handlers at a time, two changes of the
  player, one failed row or lost snapshot: an event and a tick in every order. In
  services two instances hand the lease over, one handler each. `NowPlayingRace`
  is the smallest instance in which the tick and the pause overlap.
- *GithubCache*: two requests for the default window or a year (`Windows` of `y`),
  two tokens and one change. A failed call is a choice at every answer.
- *WebToken*: two callers, two cookies, three attempts: the slot's attempt, the one
  that takes it over, and the second for the first cookie. Tokens live 1 or 3
  steps with a margin of 1, so that one is dead on arrival.
- *OpsReports*: days of 6 "minutes", a margin of 2, CloudWatch late by 1, ages and
  patience of 1 or 2: the order of the production values (15 minutes' margin, an
  hour's short age within a day). Two instances, two requests, two reports.
- *OpsPlan*: every dashboard of up to two widgets and three rows over two
  ids, with every visibility and every set of references. Neither looks
  like a given one; with `LocalIds = {ma, 0}` TLC refutes `IdsAreDistinct` (section 6,
  14) within seconds. The theorem covers any dashboard and any ids.
- *BeaconIngest*: capacity 3, two addresses, 7 seconds: a bucket empties, idles,
  is forgotten and comes back; a day is 4 seconds.
- *SectionOrder*: three sections, two pages, two requests, three commits. The
  theorems cover any number.
- *Resumes*: two versions, two calls under way, any number of PUTs.

`CHECK_DEADLOCK FALSE` in every cfg: budgets run out, processes are stopped, and
an API with no request and no timer due may rest.

Symmetry is used where no action or property names an element and no liveness
is checked: instances in `LeaseFailover`, workers and assets in `MCMediaGc`,
workers and pages in `MCPublishing` (each `CHOOSE` in it picks the only element
there is), clients and slugs in `MCPosts`.

Fairness. `DealerClient` assumes weak fairness of the backoff timer, of a mint and
of a PUT (both calls carry a timeout), of a socket's opening, and of the
dealer's greeting; no timer of the client watches the last two, which is why
they are listed as assumptions on Spotify and as a hazard. Failures need no
fairness: `Recovers` says that once they are used up the loop connects.
`ListenerSupervisor` assumes weak fairness of the two interval timers, of a cache
entry expiring and of each query: the database answers it or fails it, and the event
loop resumes its handler. `LastLoadRules` and the two violated properties speak of a
lease that stays where it is, and saves are bounded: the admin is done some day. `PollLoop` assumes it of the interval, of the cache's expiry and of each
await of a tick (every call has a timeout or an answer); nothing is assumed of
the gateway, the leases, direct reads or crashes. `NowPlaying` assumes it of the
ticker, the pool, Redis and the gateway, and strong fairness of a push, because the
bound on handlers under way could keep one out for ever, which the code does not.
The other modules check safety only; `GapBounded` is a bound on a clock and needs
no fairness.

## 5. The proofs

| Theorem | Statement | Assumptions |
|---|---|---|
| `DealerSafety` | `Spec => []` (type, NoLeakedSocket, OneDriver, Quiescent, TokenForRegistration, ConnectedIsRegistered) | none on the constants |
| `SocketsOwned` | `Spec => []NoLeakedSocket` | none |
| `DealerEvents` | `Spec => EventsFromOwnedSocket` | none |
| `DeadIsFinal` | `Spec => DeadUntilCalled` | none |
| `DealerRefinement` | `Spec => ImplementsListener` | none |
| `LeaseType` | `Spec => []TypeOK` | none |
| `LeaseExclusion` | `Spec => [](OneLeader /\ LeaderHolds)` | `Prompt` |
| `LeaseForeign` | `Spec => ForeignLeaseUntouched` | none |
| `FailoverBound` | `GapSpec => []GapBounded` | `Settling` |
| `SupervisorSafety` | `SupervisorSpec => []` (type, NoOrphan, ShownIsCurrent) | none |
| `TickerStops`, `NoOtherStrays` | `SupervisorSpec => []` TickerOnlyWhileLive, StraysOutliveTheirTerm | none |
| `MediaType` | `Spec => []TypeOK` | none |
| `MediaKept` | `Spec => StableReferenceKept` | none |
| `TagsMatch`, `NothingUntracked` | `Spec => []` TagMatchesRow, NoUntrackedObject | none |
| `PassRescued` | `Spec => PassRescues` | none |
| `PostsSafety` | `Spec => [](TypeOK /\ StampTellsContent)` | none |
| `NoEditIsLost`, `SlugsStay`, `OnlyDraftsArePublished` | `Spec =>` NoLostEdit, DatedSlugFixed, PublishedIsDraft | none |
| `PagesStay` | `Spec => PagesAreStable` | none |
| `StatusGoesForward`, `NoChangeIsDropped` | `Spec =>` SnapshotGoesForward, `[]`LastWordIsCurrent | none |
| `HealthIsTold` | `NowPlayingSpec => []HealthIsOwnWord` | none |
| `CalendarsSettle` | `Spec => SettledStays` | none |
| `TokensBelong`, `OneAttempt` | `MintSpec =>` `[]`TokenOfOwnCookie, NoSecondAttempt | none |
| `LimiterRefines` | `BeaconSpec => ImplementsBucket` | none |
| `ServedStays`, `NoneLeftBehind` | `ResumesSpec => []` ServedIsThere, NothingLeftBehind | none |
| `TiesOnlyFromOverlap`, `OrderStays` | `OrderSpec =>` TiesComeFromOverlap, OrderIsKept | none |
| `PlansAreDrawable` | `PlanSpec => []PlanIsDrawable` | none |
| `DaysAreWhole`, `NewsIsSeen` | `OpsSpec => []` WholeDays, NewsArrives | none |
| `PublishingSafety`, `ShownIsValid` | `Spec => [](TypeOK /\ HistoryIsWhole /\ ProductionIsValid)` | none |
| `HistoryAppendOnly`, `HiddenIsPrivate`, `RestoreIsWhole` | `Spec =>` VersionsAppendOnly, HiddenStaysPrivate, RestoreIsRepublishable | none |

"None" means: beyond the assumptions each module states of its constants (they
are natural numbers, `None` is no element of the sets, a cookie is no kind of error,
a day has minutes). `Prompt` and `Settling` are about the timing of a deployment and
stand in the theorems' hypotheses: `Prompt` (an interval, its lag and a round trip
fit into a TTL) and `Settling` (a round trip is shorter than the interval, and than
the TTL) both hold of 15 s and 5 s as long as Redis answers within seconds.

**Dealer client.** None of the six invariants is inductive. `IInv` adds `Shape`
(which state goes with which variables: a backoff timer exactly in "backoff", a
mint or a socket exactly in "connecting" and "connected"), `Sockets` (what is
open is the owned socket, of the current epoch, and there is a token with it)
and `Flights` (a promise's epoch is never in the future, and at most one mint
and one PUT are of the present). The heart of the argument: every way out of an
attempt bumps the epoch, so whatever was in flight becomes one of the past and
its continuation does nothing. The refinement follows action by action.
`TokenForRegistration` shows that the branch commented "Should not happen"
(`dealerClient.ts` l. 744) is unreachable.

**Lease.** Exclusion rests on `Founded`: a leader, and an instance whose queue
holds a granted acquire, owns the key and has a `Lasting` lease: what remains
of the TTL outlasts the timer's next renewal, or else an answer that is not "ok"
is already on its way and will lower `leader` in time. `Prompt` is used exactly
where a renewal restores the first alternative. Without it the run
lease_two_leaders is a counterexample. `LeaseForeign` needs no timing at all: the
Lua scripts compare before they act.

**Failover.** `FailoverIInv` has two halves. `AloneIInv`: in a `Settling` deployment
a running instance has at most one command under way, as old as its timer, and a
lease it was just granted still has most of its TTL. `Gap` accounts for every unit
of the count. While the key is held by nobody who leads, `gap + ttl` is at most a
round trip plus a TTL (`Gone`), because a command that was left behind by an instance
that is gone is older than the count (`LeftBehind`); or the owner is up and about to
read its answer (`Taken`). While the key is free, the count is behind every running
timer (`Waited`), and from `Tried` on somebody is asking (`Asked`), so that the tick
that would go past the bound is blocked by what is due. The earlier form of this
property, checked with two instances only, was wrong: the attempt to prove it
failed at the candidate that dies with a granted command, and with three
instances TLC shows the run. The property and its observer now say from where the
time counts.

**Supervisor.** Its invariants support each other: `TickerOnlyWhileLive` needs
that the state shown is the held listener's (the listener that stops is the one
that is shown), which needs `NoOrphan` (the state that changes is that of the
held listener). `StraysOutliveTheirTerm` is not inductive: a dealer could appear
after the term from a load that nothing remembers. `TermOver` adds that a term that
ended with nothing under way has nothing under way until the next gain: a check needs
`active`, a load comes from a gain or a check, and what else queries the database
(`OthersIssue`: a save, the status page) starts no listener.

**Media.** `PassIInv` says that what is steady is still referenced
(`SteadyStands`), that a steady reference whose source has been read is among
what the pass has seen (`SteadySeen`), that plans exist only after all reads and
never orphan what was seen (`PlansLate`), and for the types that ids are not used
again (`Uploaded`) and that a planned orphan is confirmed and past its grace
period (`RipePlans`).

That row, tag and object agree needs `TagIInv`. Always: what was confirmed has an
object that is past being uploaded, and so has everything a plan or a handler
between two writes is about (`UploadOver`). Undisturbed: there is one pass, nobody
confirms what another deletes, and a handler between its two writes knows how the
first one stands (`HalfWritten`); and what is steady and marked is still in the plan
to be rescued (`RescuesAhead`), which is empty of rescues when the pass ends.
`disturbed` never goes back to FALSE, so the second half has to be shown only for
steps that leave it FALSE, and such a step comes with the handler's own guard: no
other pass, no overlapping confirmation, no failure.

**Posts.** `PostsIInv` adds two conjuncts. `StampsFresh`: the stamp a request will
write is no row's, no client's copy's and no other request's, and no two
requests are under way for one post. `Decided`: what a request decided is still
right about the row it will write, because nobody else may write it meanwhile.
The three action properties follow from `Decided` and from `Overwritten`: a row
that changes otherwise than by losing its blog is written by the one request
that had it.

`WalkIInv` is about the reader. The cursor parts the posts: what was shown is not
beyond it, and what is steady is beyond it or was shown. A write to a row keeps both,
because a post that changes its date is neither steady nor shown any more; a page
keeps both because keys are ordered strictly and linearly (`KeyOrder`) and whatever
is newer than the last row of a page is on the page itself (`NewerOnPage`), however
many rows share a date. That count needs the table to be finite.

**Poll loop.** Its `IInv` adds `Fresh` and `Spoken`. Within one process there is
one fetch at a time, so answers come back in the order they were made and what is
cached, fetched or about to be written is never older than what was written
before (`Fresh`); that is why `Joined` matters, and why the property speaks of one
writer: nothing orders the writes of two. `Spoken`: `prev` is what the instance wrote
last unless a payload is still to be compared, and it is what the clients heard last
from the instance unless a push is about to follow. What another instance told them
is in neither, which is where the code goes wrong (section 6, 8).

**Health record.** `Told` follows a record on its way: the last one in an instance's
connection says what the instance shows (`Word`), and when all have arrived, so does
the record in Redis, unless another instance wrote after it. `Word` has two halves
for the reason the property has: a loss of the lease during an event changes the
state at once, the event's own record comes several awaits later. `SnapshotsAwaited`
ties each snapshot in the connection to the one chain that waits for it, so that the
step that runs a command knows which handler goes on.

**Web tokens.** `MintIInv`: a caller waits for an attempt for its own cookie
(`Awaited`); attempts are numbered in the order they start and the last one is in
the slot until it ends (`InOrder`), however many older ones end meanwhile; a cached
token is filed under the cookie it is of.

**Rate limit.** The refinement mapping gives an address the `Level` its bucket would
have if it were refilled now. `BeaconIInv` says that no bucket is from the future;
then `PruningInvisible` (who is forgotten was full), `TouchEffect` (taking tokens
from one bucket leaves every other level alone, and the abstract limiter decides the
same), and a tick of the clock is the abstract refill.

**Resumes.** `RowsSound` and `CallsSound`: a confirmed row has had its object, and a
row is gone only when the object is; a stamp or a read comes after the object was
found, the delete of the row after that of the object. "Was there" is
`uploaded \cup erased`, which no step takes anything from: that is why no overlap can
hurt.

**Ops reports.** `OpsIInv` keeps the times: a request is no older than its patience
and came past the margin if it waits for a report (`VisitsInTime`), what a build
fetches is of a day that is over by the margin and so whole (`BuildsInTime`), and a
kept copy ends within what any newer report allows (`CopyEnds`). The last needs that the
time to the next boundary ends exactly when the report after the expected one is due
(`Boundary`), which is arithmetic with days and remainders and is done by hand.

**Order of sections.** `OrderIInv` has three parts. Rows are told apart by
`created_at` (`TableSound`), so that the order of a page is strict and linear; no two
requests have locked one row (`LocksExclude`); and `RequestSound` says what a request
knows that locks what it needs. If nobody has written positions on its page since it
looked: the place it found is still beyond every section there (`PlaceSound`), what it
has got, has yet to lock or moves away is all of the page, and its ranks are still
the order of the page (`SortSound`). Then a place at the end ties with nothing, and
the number of rows ranked before a row is an index that keeps the order. A
`Delete` only takes rows away, and a write by another request marks the page
`disturbed`, so each step keeps the three or makes them vacuous. An earlier form of
`Delete` asked whether another client has the lock; with one client there is none,
and the proof failed there: `deleteSection()` is a connection of its own, and now waits
for every lock.

**Queries of a dashboard.** `PlanIInv` follows the loops. Every query was made of a
row that has been read (`MadeOf`): it carries what the row declares, which no other
row of the widget does, or a number below the counter, so the next number given is
fresh (`IdsSound`). What has been passed in the widget under way and declares an id
has its query or was left out (`UsesSound`), which is what expressions need by the
time the widget ends. Appending a query and its series together keeps `Draws`, and so
does joining two plans (`DrawnSound`). A first attempt, without the condition
`NoneLooksGiven`, could not show that a given id differs from the declared ones of the
same widget; it does not (section 6, 14).

**Numbers.** `LessWF`, `Least` and `Greatest` say that a set of numbers has a least,
and a bounded one a greatest element, from the library's theorem on well-founded
orders. `WFMin` takes a set and not an operator, which is how an induction over
numbers can be had here: as the least counterexample.

**GitHub calendars.** `Settled(p)` is inductive together with the type invariant as
long as the token stays `p`: every call and every entry filed under `p` is then
about `p`'s account, and each step copies an account from one of them to another.

**Publishing.** Three ideas. *Numbers*: `Whole` says that the retained versions are
exactly the newest `VersionRetention` numbers. A job's number was one beyond the
newest when it was computed, so now it is at most that (`StageOf`); if it is, the
insert moves the window by one (`NextNumber`); if it is older, it is either taken,
and the insert fails, or so old that it has been pruned, and it is pruned again in
its own transaction (`PrunedNumber`). Both need the arithmetic of
`Cardinality({u \in S : u > v})` over an interval (`AboveIn`). *Documents*: `DocOK`
says that a document hangs together as the foreign keys do, whatever mix of states
the three reads saw (`SerializeDoc`: a child without its parent is left out);
`Good` is what the validation buys (`SerializeGood`); `RebuiltRows` and
`RebuiltSame` say that a restore gives every entry its row back and no other.
*Privacy*: `Masked` says that what has been hidden since the publish began is in
nothing it has read; an edit only makes that set smaller (`MaskedLess`).

A consequence worth knowing: a publish whose number has been overtaken by
`VersionRetention` others reports success although its version is gone at once.

Only model-checked: the liveness properties (`Recovers`, `LastLoadRules`,
`ReadersConverge`, `PlayingIsServed`), which need fairness and `ENABLED`. Every other property of a passing run is stated by a theorem.

## 6. Disagreements found

Five runs violate what a comment of the repository says; `PROJECT.json`
("findings") quotes the lines.

1. **Two leaders** (`leaderLease.ts` l. 119; doc l. 8). `tryRenew()` leaves
   `leader` true while its answer is out, for however long.
2. **A dealer on a process that does not lead** (`listenerSupervisor.ts` l. 485;
   doc l. 5). `onLeadershipGain()` does not look at `active` again after its
   awaits: a loss handled meanwhile finds no listener to stop, and the gain goes on
   to start one. So can a check or a load. `StraysOutliveTheirTerm` says that a handler
   under way when the term ends is the only way.
3. **A new credential that is never taken** (`listenerSupervisor.ts` l. 458; doc
   l. 9). The restart reads through a cache that may hold the old one, and
   `lastSeen` has already moved on. The cache is always on in the code. The same
   happens when that read fails, and when the look of `onLeadershipGain()` (l. 480)
   fails and the row is deleted before the first check. `LastLoadRules` says that
   these, in which the credential taken last was not the stored one or not the one
   the watch had seen, are all.
4. **A restore that is undone** (`publishService.ts` l. 567; doc l. 658). A publish
   that read the drafts before the restore commits after it.
5. **A pause that a tick overwrites** (`listenerSupervisor.ts` l. 301; doc l. 57).
   A tick waits for its row while the player is paused; the pause is written to row
   and snapshot, and then the tick's row and snapshot land. The ticker has been
   stopped, so nothing corrects it: the feed shows the track as playing until the
   snapshot lapses, and from the row after that. Two events can overtake each other
   in the same way.

The modules also contain these, which no run states as a property of its own:

6. **A dead leader that is not replaced within one TTL** (`leaderLease.ts`
   l. 105; doc l. 12, l. 35). "Another instance will acquire within one lease
   TTL", but a candidate asks only when its own timer fires, once in
   `renewIntervalMs`, and is not told when the key lapses. A leader that dies just
   after a renewal leaves a whole TTL, and then up to an interval: 20 s, not 15 s,
   even with punctual timers and commands that take no time. `GapBounded` states the
   bound the code keeps. With `Instances = {p1, p2}`, `LeaseTtl = 6`,
   `RenewInterval = 2` and `MaxLag`, `MaxRtt`, `MaxFaults` all 0, TLC refutes
   `gap <= LeaseTtl` (the gap reaches 7) and confirms
   `gap < LeaseTtl + RenewInterval`.
7. **A rescued asset that still expires** (`mediaService.ts` l. 367; doc l. 330).
   The row is cleared before the tag; a failure in between is never repaired.
8. **A change that a regained leader does not tell** (`pollLoop.ts` l. 183). What
   an instance pushed last outlives its term. If another instance led in between and
   pushed a different state, and the state is now again the one of the first term,
   the regained leader takes it for unchanged: the snapshot is right, and connected
   clients keep the other instance's word until the next change. No comment speaks
   of it; `LastWordIsCurrent` excludes it by `heard.by = i`.
9. **A local copy from an earlier term** (`pollLoop.ts` l. 100-105 against the
   readers). The comment gives `localSnapshots` to "the leader that just wrote a
   fresh payload", but nothing clears it when the lease goes: an instance that led
   days ago still answers with it whenever the snapshot is missing.
10. **A calendar of another account** (`githubService.ts` l. 107-117 against
   l. 234). Entries are filed by token, but `metaInFlight` is not: a caller with a
   new token joins the old one's lookup, and the mix is cached for an hour.
   `SettledStays` says how far it goes.
11. **An order written back** (`sectionsService.ts` l. 363-367). A move sorts what is
   left of the page before it has the locks; a reorder that commits in between is
   undone although the comment promises the current order. `OrderIsKept` excuses
   exactly that overlap.
12. **An expression whose operand is dropped** (`opsService.ts` l. 431-434 against
    l. 527-530). An expression without references is left out, one that refers to it
    stays. `PlanIsDrawable` names those ids.
13. **Half-deleted resumes** (`resumesService.ts` l. 230, 265). A confirmation that
    loses to a deletion answers 500; a deletion that fails between object and row
    leaves a confirmed row whose link is broken until it is repeated; a PUT with a
    URL that is still good after the deletion leaves an object no row knows.
14. **Two queries with one id** (`opsService.ts` l. 534; doc l. 432). When the first row
    without an id is an expression of the first widget it gets `w0_x0`, which is also
    what a row of that widget gets that declares `x0`: `IdsAreDistinct` by itself does
    not hold. CloudWatch does not accept two queries with one id, and the day is left
    unbuilt, on every attempt.

## 7. What is not modelled

Left out for good: schema validation, response shaping, HTTP routing,
encryption of credentials, presigning, configuration and start-up (pure
functions or I/O; the models keep whether they succeed); what upstream services
return; the wording of health records. Preview tokens and API keys are a row each,
compared with the clock or a hash on every request: nothing is carried from one
request to the next. Within the modelled components:

- the payloads of the slow lane (they are read through the caches of GithubCache
  and lie in Redis for ten minutes of every fifty-five, by design of the two
  constants), commands to Redis that are lost for now-playing, and the functions of
  `snapshotStore.ts` for a suspended Spotify poll (l. 223-475), which nothing calls;
- the Spotify row of the credential store and its rotation;
- the queries of a restore's transaction one by one: `ReadSource` reads the source
  version and the maximum in one step, which are two queries at READ COMMITTED
  (`publishService.ts` l. 674-687), and `Rebuild` makes its writes in one, since they
  commit together. A publish that commits between the two queries gives the restore a
  fresh number for a source that may just have been pruned; in the model the restore
  reads both before that publish or both after it. A row created while the writes are
  made stays, goes with the cascade or is refused, as it would after or before them.
  What `Rebuild` cannot show is a half-done restore: that there is none is the
  transaction's doing;
- more than one save or deletion of the GitHub token at a time in one process
  (`GithubCache`): it is one owner's form;
- the media map of a published document, both read paths, legacy documents. A
  hidden home page passes `validatePages()` (l. 369) but is not serialized, and a
  restore of such a version leaves drafts that cannot be published: reachable in
  Publishing, and not contradicted by any comment;
- the order of items within a section and of pages, which is kept by the same steps
  with one scope; `expected_updated_at` of sections beyond being a way to fail (it
  is compared under the row's lock, as in Posts);
- of posts, the title, excerpt, tags and cover (they are edited as the draft is,
  but public at once), the tag filter, the resolution of media, and the renaming
  of a blog. `updated_at` of a post does not change when its blog is deleted or
  renamed, so its ETag does not either; `SameBesidesBlog` says so. The comment
  that a slug is immutable once a post has been published (`postsService.ts`
  l. 531) is stronger than what holds: after an unpublish, or a PATCH that clears
  the date, it can change again (l. 574). `DatedSlugFixed` is what the code keeps;
- `duolingoService.ts`, which is `githubService.ts` with one key and one call, and
  `iconsService.ts`: a search in a catalogue and an import whose key is the icon's
  name. The key of an imported Simple Icon has no version in it (l. 384-386), unlike
  the other kind (l. 59-61), and an import of a key that exists is skipped
  (l. 432-436): after the pinned version is raised, a tint that was imported before
  keeps the old artwork under the same URL; the comment at l. 393-404 names a CDN the code does not use (l. 454-461);
- of ops reports, what the widgets look like; of analytics, the salted hash of a
  visitor and the admin's report.

## 8. The plan

1. *(done)* DealerClient with DealerListener, LeaderLease with LeaseFailover,
   ListenerSupervisor, MediaGc, Publishing, Posts, with proofs.
2. *(done)* PollLoop and NowPlaying (MCFeeds); GithubCache, WebToken, OpsReports,
   OpsPlan, BeaconIngest with TokenBucket, SectionOrder and Resumes (MCServices).
3. *(done)* Proofs of PollLoop, NowPlaying, GithubCache, Publishing, WebToken,
   BeaconIngest, Resumes, OpsReports; row, tag and object in MediaGc; the failover
   bound of LeaseFailover; the pages of Posts.
4. *(done)* Proofs of SectionOrder and OpsPlan.
5. **Icons** and the Duolingo cache; the read paths of publishing (latest content,
   preview); items and pages in SectionOrder.
