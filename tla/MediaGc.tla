------------------------------- MODULE MediaGc -------------------------------
(***************************************************************************)
(* services/mediaService.ts: the life of an uploaded asset, as its row in  *)
(* media_assets, its object in S3 with the state tag the lifecycle rules   *)
(* look at, and the places that reference it; with the garbage collection  *)
(* that keeps the three in step.                                           *)
(*                                                                         *)
(* A handler is a job of some worker and stops at every await, where other *)
(* jobs, edits and the lifecycle rules may come between.  The rules are    *)
(* not in the repository: a tagged object may vanish at any time.          *)
(***************************************************************************)
EXTENDS Naturals, FiniteSets

CONSTANTS
  Assets,      \* media ids
  Workers,     \* bound: requests under way at the same time
  None,        \* no row, no asset
  MaxFaults    \* bound: calls that fail, or processes that die, in a handler

\* What is told apart of a row: is confirmed_at set, is unreferenced_at set, and
\* is created_at further back than the grace period?
RowTypes == [confirmed : BOOLEAN, orphaned : BOOLEAN, old : BOOLEAN]

ASSUME MediaAssumption == None \notin Assets \cup RowTypes /\ MaxFaults \in Nat

VARIABLES
  row,         \* row[a]: its row of media_assets, or None
  obj,         \* obj[a]: the object and its tag
  refs,        \* refs[s]: the assets that source s references
  job,         \* job[w]: the handler worker w runs
  faults,      \* what is left of MaxFaults
  steady,      \* history: steady[w], the references <<s, a>> that have been
               \* there since w's pass began
  disturbed    \* history: has something happened no handler guards against?

stores == <<row, obj>>
vars   == <<stores, refs, job, faults, steady, disturbed>>

Sources == {"sections", "items", "versions", "posts"}
Drafts  == {"sections", "items", "posts"}
NewRow  == [confirmed |-> FALSE, orphaned |-> FALSE, old |-> FALSE]
Idle    == [pc |-> "idle", asset |-> None, seen |-> {}, plan |-> {}]

Rows   == {a \in Assets : row[a] # None}
Stored == {a \in Assets : obj[a] \in {"pending", "plain", "orphaned"}}

PassSteps == Sources \cup {"assets", "loop", "untag", "tag", "reap"}
InPass(w) == job[w].pc \in PassSteps
Deleting(w, a)   == job[w].pc = "delete" /\ job[w].asset = a
Confirming(w, a) == job[w].pc \in {"clear", "stamp"} /\ job[w].asset = a

Init ==
  /\ row = [a \in Assets |-> None] /\ obj = [a \in Assets |-> "never"]
  /\ refs = [s \in Sources |-> {}]
  /\ job = [w \in Workers |-> Idle]
  /\ faults = MaxFaults
  /\ steady = [w \in Workers |-> {}] /\ disturbed = FALSE

Goto(w, j) == job' = [job EXCEPT ![w] = j]
At(w, pc)  == Goto(w, [job[w] EXCEPT !.pc = pc])
Done(w)    == Goto(w, Idle)

\* No history changes.
Quiet == UNCHANGED <<steady, disturbed>>
DisturbedIf(c) == disturbed' = (disturbed \/ c) /\ UNCHANGED steady

\* Of the references S, those that are in the sources r.
Standing(S, r) == {e \in S : e[2] \in r[e[1]]}

\* A reference that goes is steady no more.
SetRefs(new) ==
  /\ refs' = new
  /\ steady' = [w \in Workers |-> Standing(steady[w], new)]

\* ON DELETE SET NULL: a row that goes takes with it what the covers of posts
\* refer to; what their bodies refer to stays.
ClearCovers(a) == \E gone \in SUBSET {a} : SetRefs([refs EXCEPT !["posts"] = @ \ gone])

-----------------------------------------------------------------------------
(* Upload, confirmation and deletion.                                      *)

\* createUploadUrl(): the row, and a presigned PUT for the client.
CreateUploadUrl(a) ==
  /\ row[a] = None /\ obj[a] = "never"
  /\ row' = [row EXCEPT ![a] = NewRow]
  /\ obj' = [obj EXCEPT ![a] = "awaited"]
  /\ UNCHANGED <<refs, job, faults>> /\ Quiet

\* The client PUTs, once; the signature pins the pending tag.
Put(a) ==
  /\ obj[a] = "awaited"
  /\ obj' = [obj EXCEPT ![a] = "pending"]
  /\ UNCHANGED <<row, refs, job, faults>> /\ Quiet

\* confirmUpload(): the row is there and the HEAD finds the object; ...
ConfirmStarts(w, a) ==
  /\ job[w] = Idle
  /\ a \in Rows /\ a \in Stored
  /\ Goto(w, [Idle EXCEPT !.pc = "clear", !.asset = a])
  /\ DisturbedIf(\E v \in Workers : Deleting(v, a))
  /\ UNCHANGED <<stores, refs, faults>>

\* ... then the tags go (S3 refuses if the object is gone); ...
ClearTags(w, a) == obj' = [obj EXCEPT ![a] = "plain"]

ConfirmClears(w) ==
  LET a == job[w].asset
  IN  /\ job[w].pc = "clear"
      /\ IF a \in Stored
           THEN ClearTags(w, a) /\ At(w, "stamp")
           ELSE Done(w) /\ UNCHANGED obj
      /\ DisturbedIf(a \in Rows /\ row[a].confirmed)
      /\ UNCHANGED <<row, refs, faults>>

\* ... then confirmed_at is set.
ConfirmStamps(w) ==
  LET a == job[w].asset
  IN  /\ job[w].pc = "stamp"
      /\ row' = IF a \in Rows THEN [row EXCEPT ![a].confirmed = TRUE] ELSE row
      /\ Done(w)
      /\ UNCHANGED <<obj, refs, faults>> /\ Quiet

\* deleteAsset(): the object, then the row.  A PUT may still be under way.
DeleteStarts(w, a) ==
  /\ job[w] = Idle
  /\ a \in Rows
  /\ obj' = [obj EXCEPT ![a] = IF @ = "awaited" THEN @ ELSE "absent"]
  /\ Goto(w, [Idle EXCEPT !.pc = "delete", !.asset = a])
  /\ DisturbedIf(\E v \in Workers : Confirming(v, a))
  /\ UNCHANGED <<row, refs, faults>>

DeleteEnds(w) ==
  /\ job[w].pc = "delete"
  /\ row' = [row EXCEPT ![job[w].asset] = None]
  /\ ClearCovers(job[w].asset)
  /\ Done(w)
  /\ UNCHANGED <<obj, faults, disturbed>>

-----------------------------------------------------------------------------
(* Time, and the lifecycle rules of the bucket.                            *)

\* The grace period passes.  By then the presigned URL and whatever was never
\* confirmed are long gone.
GrowsOld(a) ==
  /\ a \in Rows /\ ~row[a].old
  /\ row' = [row EXCEPT ![a].old = TRUE]
  /\ obj' = [obj EXCEPT ![a] = IF @ \in {"awaited", "pending"} THEN "absent" ELSE @]
  /\ UNCHANGED <<refs, job, faults>> /\ Quiet

Expires(a) ==
  /\ obj[a] \in {"pending", "orphaned"}
  /\ obj' = [obj EXCEPT ![a] = "absent"]
  /\ UNCHANGED <<row, refs, job, faults>> /\ Quiet

-----------------------------------------------------------------------------
(* The references.                                                         *)

\* The owner edits a draft: any asset of the library goes in, or one goes out.
Edit(s, a) ==
  /\ a \in refs[s] \/ a \in Rows
  /\ SetRefs([refs EXCEPT ![s] = IF a \in @ THEN @ \ {a} ELSE @ \cup {a}])
  /\ UNCHANGED <<stores, job, faults, disturbed>>

-----------------------------------------------------------------------------
(* A pass: runGc().                                                        *)

\* A worker goes on as a pass that has read nothing yet.
BeginPass(w, r) ==
  /\ Goto(w, [Idle EXCEPT !.pc = "sections"])
  /\ refs' = r
  /\ steady' = [v \in Workers |->
                  Standing(IF v = w THEN Sources \X Assets ELSE steady[v], r)]
  /\ disturbed' = (disturbed \/ \E v \in Workers \ {w} : InPass(v))

\* POST /media/sweep.
Sweep(w) ==
  /\ job[w] = Idle
  /\ BeginPass(w, refs)
  /\ UNCHANGED <<stores, faults>>

\* POST /publish: the visible part of the working set is read; later it is
\* inserted as a version, versions beyond the retention go, and a pass runs.
PublishReads(w) ==
  /\ job[w] = Idle
  /\ \E doc \in SUBSET (refs["sections"] \cup refs["items"]) :
       Goto(w, [Idle EXCEPT !.pc = "publish", !.seen = doc])
  /\ UNCHANGED <<stores, refs, faults>> /\ Quiet

PublishWrites(w) ==
  /\ job[w].pc = "publish"
  /\ \E retained \in SUBSET refs["versions"] :
       BeginPass(w, [refs EXCEPT !["versions"] = retained \cup job[w].seen])
  /\ UNCHANGED <<stores, faults>>

\* POST /versions/:v/restore: one transaction, then a pass.
Restore(w) ==
  /\ job[w] = Idle
  /\ \E secs, its, retained \in SUBSET refs["versions"] :
       /\ secs \cup its \subseteq retained
       /\ BeginPass(w, [refs EXCEPT !["sections"] = secs, !["items"] = its,
                                    !["versions"] = retained])
  /\ UNCHANGED <<stores, faults>>

\* collectReferenceSet(): four queries, one after the other; then the select
\* of all assets, which settles what the pass is going to do.
PostsForgotten == [sections |-> "items", items |-> "versions", versions |-> "assets",
                   posts |-> "assets"]                      \* (mutant)
ThenRead == [sections |-> "items", items |-> "versions", versions |-> "posts",
             posts |-> "assets"]

ReadSource(w) ==
  /\ job[w].pc \in Sources
  /\ Goto(w, [job[w] EXCEPT !.pc = ThenRead[@], !.seen = @ \cup refs[job[w].pc]])
  /\ UNCHANGED <<stores, refs, faults>> /\ Quiet

Rescuable(seen) == {a \in Rows \cap seen : row[a].orphaned}
Reapable(seen)  == {a \in Rows \ seen : row[a].orphaned}
Orphanable(seen) ==
  {a \in Rows \ seen : ~row[a].orphaned /\ row[a].confirmed /\ row[a].old}

DoFor(act, S) == {<<act, a>> : a \in S}
PlanWithoutRescue(seen) ==                                  \* (mutant)
  DoFor("reap", Reapable(seen)) \cup DoFor("orphan", Orphanable(seen))
Plan(seen) == DoFor("rescue", Rescuable(seen)) \cup DoFor("reap", Reapable(seen))
                \cup DoFor("orphan", Orphanable(seen))

ReadAssets(w) ==
  /\ job[w].pc = "assets"
  /\ Goto(w, [job[w] EXCEPT !.pc = "loop", !.plan = Plan(job[w].seen)])
  /\ UNCHANGED <<stores, refs, faults>> /\ Quiet

\* The loop takes the next asset, in the order the database returned them.
Take(w, act, a, pc) ==
  /\ job[w].pc = "loop" /\ <<act, a>> \in job[w].plan
  /\ Goto(w, [job[w] EXCEPT !.pc = pc, !.asset = a, !.plan = @ \ {<<act, a>>}])

\* unreferenced_at is written first, the tag after it.
Mark(a, flag) == row' = IF a \in Rows THEN [row EXCEPT ![a].orphaned = flag] ELSE row

MarkRescued(w, a) ==
  /\ Take(w, "rescue", a, "untag")
  /\ Mark(a, FALSE)
  /\ UNCHANGED <<obj, refs, faults>> /\ Quiet

MarkOrphaned(w, a) ==
  /\ Take(w, "orphan", a, "tag")
  /\ Mark(a, TRUE)
  /\ UNCHANGED <<obj, refs, faults>> /\ Quiet

\* S3 refuses to tag an object that is gone; the pass then ends in an error.
TagKept(w) == "orphaned"                                    \* (mutant)
NewTag(w) == IF job[w].pc = "tag" THEN "orphaned" ELSE "plain"

WriteTag(w) ==
  /\ job[w].pc \in {"tag", "untag"}
  /\ IF job[w].asset \in Stored
       THEN /\ obj' = [obj EXCEPT ![job[w].asset] = NewTag(w)]
            /\ At(w, "loop")
       ELSE Done(w) /\ UNCHANGED obj
  /\ UNCHANGED <<row, refs, faults>> /\ Quiet

\* An orphan whose HEAD is a 404 has expired: its row goes.
AnyOrphan(a) == TRUE                                        \* (mutant)
HeadMissing(a) == a \notin Stored

HeadOrphan(w, a) ==
  /\ Take(w, "reap", a, IF HeadMissing(a) THEN "reap" ELSE "loop")
  /\ UNCHANGED <<stores, refs, faults>> /\ Quiet

Reap(w) ==
  /\ job[w].pc = "reap"
  /\ row' = [row EXCEPT ![job[w].asset] = None]
  /\ ClearCovers(job[w].asset)
  /\ At(w, "loop")
  /\ UNCHANGED <<obj, faults, disturbed>>

PassEnds(w) ==
  /\ job[w].pc = "loop" /\ job[w].plan = {}
  /\ Done(w)
  /\ UNCHANGED <<stores, refs, faults>> /\ Quiet

-----------------------------------------------------------------------------
\* A call of a handler rejects, or its process dies.
Abort(w) ==
  /\ faults > 0 /\ faults' = faults - 1
  /\ job[w] # Idle
  /\ Done(w)
  /\ DisturbedIf(TRUE)
  /\ UNCHANGED <<stores, refs>>

Outside(a) == CreateUploadUrl(a) \/ Put(a) \/ GrowsOld(a) \/ Expires(a)

Request(w) ==
  \/ \E a \in Assets : ConfirmStarts(w, a) \/ DeleteStarts(w, a)
  \/ ConfirmClears(w) \/ ConfirmStamps(w) \/ DeleteEnds(w)
  \/ Sweep(w) \/ PublishReads(w) \/ PublishWrites(w) \/ Restore(w)

Collect(w) ==
  \/ ReadSource(w) \/ ReadAssets(w)
  \/ \E a \in Assets : MarkRescued(w, a) \/ MarkOrphaned(w, a) \/ HeadOrphan(w, a)
  \/ WriteTag(w) \/ Reap(w) \/ PassEnds(w)

Next ==
  \/ \E a \in Assets : Outside(a) \/ \E s \in Drafts : Edit(s, a)
  \/ \E w \in Workers : Request(w) \/ Collect(w) \/ Abort(w)

Spec == Init /\ [][Next]_vars

-----------------------------------------------------------------------------
(* Properties.                                                             *)

Tags     == {"never", "awaited", "absent", "pending", "plain", "orphaned"}
Acts     == {"rescue", "reap", "orphan"}
JobTypes == [pc : PassSteps \cup {"idle", "clear", "stamp", "delete", "publish"},
             asset : Assets \cup {None}, seen : SUBSET Assets, plan : SUBSET (Acts \X Assets)]

\* The type invariant; only what was confirmed and is past the grace period
\* is ever marked as orphaned.
TypeOK ==
  /\ row \in [Assets -> RowTypes \cup {None}]
  /\ \A a \in Rows : row[a].orphaned => row[a].confirmed /\ row[a].old
  /\ obj \in [Assets -> Tags]
  /\ refs \in [Sources -> SUBSET Assets]
  /\ job \in [Workers -> JobTypes]
  /\ faults \in 0..MaxFaults
  /\ steady \in [Workers -> SUBSET (Sources \X Assets)] /\ disturbed \in BOOLEAN

\* A pass decides from four reads made at different times.  It never marks
\* as orphaned an asset that one source has referenced all the while.
StableReferenceKept ==
  [][\A a \in Assets, w \in Workers :
       <<"orphan", a>> \in job[w].plan /\ job'[w].pc = "tag" /\ job'[w].asset = a
         => \A s \in Sources : <<s, a>> \notin steady[w]]_vars

\* Why StableReferenceKept holds: what is steady is still there, and once its
\* source has been read it is among what the pass has seen.
ReadBefore(pc) ==
  {s \in Sources :
     \/ pc \notin Sources
     \/ <<s, pc>> \in {<<"sections", "items">>, <<"sections", "versions">>, <<"sections", "posts">>,
                      <<"items", "versions">>, <<"items", "posts">>, <<"versions", "posts">>}}

SteadyStands ==
  \A w \in Workers, s \in Sources, a \in Assets : <<s, a>> \in steady[w] => a \in refs[s]

SteadySeen ==
  \A w \in Workers : InPass(w) =>
    \A s \in ReadBefore(job[w].pc), a \in Assets : <<s, a>> \in steady[w] => a \in job[w].seen

PlansLate ==
  \A w \in Workers :
    /\ job[w].plan # {} => job[w].pc \in {"loop", "untag", "tag", "reap"}
    /\ \A a \in Assets : <<"orphan", a>> \in job[w].plan => a \notin job[w].seen

\* Why only ripe rows are marked: an id is never used again.
Uploaded ==
  /\ \A a \in Rows : obj[a] # "never"
  /\ \A w \in Workers, act \in Acts, a \in Assets :
       <<act, a>> \in job[w].plan => obj[a] # "never"

RipePlans ==
  \A w \in Workers, a \in Assets :
    <<"orphan", a>> \in job[w].plan /\ a \in Rows => row[a].confirmed /\ row[a].old

PassIInv == TypeOK /\ SteadyStands /\ SteadySeen /\ PlansLate /\ Uploaded /\ RipePlans

\* A pass that ran to its end has rescued every asset that was referenced
\* all the while: neither its row nor its object says that it may go.
PassRescues ==
  [][\A w \in Workers : \A r \in steady[w] :
       /\ job[w].pc = "loop" /\ job'[w] = Idle /\ ~disturbed'
       /\ r[2] \in Rows
       => ~row[r[2]].orphaned /\ obj[r[2]] # "orphaned"]_vars

\* What the library shows is what the bucket does: between two passes an
\* asset is shown as orphaned exactly if its object is tagged to expire.
Busy(a) == \E w \in Workers : job[w].pc \in {"untag", "tag"} /\ job[w].asset = a
TagMatchesRow ==
  ~disturbed =>
    \A a \in Rows \cap Stored : ~Busy(a) => (row[a].orphaned <=> obj[a] = "orphaned")

\* No row is removed while a confirmed object is there: nobody would ever
\* find or delete it.
NoUntrackedObject ==
  ~disturbed => \A a \in Assets \ Rows : obj[a] \notin {"plain", "orphaned"}

\* Why these hold.  What was confirmed has an object that never goes back to
\* being uploaded, and only what was confirmed is in a plan.
Aimed(w) == job[w].pc \in {"clear", "stamp", "delete", "untag", "tag", "reap"}
PastUpload(a) == obj[a] \in {"absent", "plain", "orphaned"}

UploadOver ==
  /\ \A w \in Workers : Aimed(w) => job[w].asset \in Assets
  /\ \A a \in Rows : row[a].confirmed => PastUpload(a)
  /\ \A w \in Workers, act \in Acts, a \in Assets : <<act, a>> \in job[w].plan => PastUpload(a)
  /\ \A w \in Workers : job[w].pc \in {"stamp", "untag", "tag"} => PastUpload(job[w].asset)
  /\ \A w \in Workers : job[w].pc = "clear" => obj[job[w].asset] \notin {"never", "awaited"}
  /\ \A w \in Workers : job[w].pc = "reap" => obj[job[w].asset] = "absent"

\* Undisturbed there is one pass at a time, nobody confirms what another deletes,
\* and a handler in the middle of its two writes knows how the first one stands.
HalfWritten ==
  /\ \A v, w \in Workers : InPass(v) /\ InPass(w) => v = w
  /\ \A v, w \in Workers, a \in Assets : ~(Confirming(v, a) /\ Deleting(w, a))
  /\ \A w \in Workers : LET a == job[w].asset IN
       /\ job[w].pc = "clear" => a \in Rows \/ a \notin Stored
       /\ job[w].pc = "delete" => obj[a] \notin {"plain", "orphaned"}
       /\ job[w].pc \in {"untag", "tag"} /\ a \in Rows => (row[a].orphaned <=> job[w].pc = "tag")

\* What is steady and marked is still going to be rescued.
RescuesAhead ==
  \A w \in Workers, s \in Sources, a \in Rows :
    /\ job[w].pc \in {"loop", "untag", "tag", "reap"}
    /\ <<s, a>> \in steady[w] /\ row[a].orphaned
    => <<"rescue", a>> \in job[w].plan

TagIInv ==
  /\ PassIInv /\ UploadOver /\ TagMatchesRow /\ NoUntrackedObject
  /\ ~disturbed => HalfWritten /\ RescuesAhead
===============================================================================
