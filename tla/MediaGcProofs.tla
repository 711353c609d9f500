---------------------------- MODULE MediaGcProofs ----------------------------
(***************************************************************************)
(* The garbage collection for every number of assets, of requests under    *)
(* way and of failures: type correctness, and that a pass never marks as   *)
(* orphaned an asset that one source has referenced since the pass began,  *)
(* whatever passes, edits, publishes, restores and deletions run beside    *)
(* it; then that an undisturbed collection keeps rows and tags in step,    *)
(* leaves no object without a row, and rescues what stayed referenced.     *)
(***************************************************************************)
EXTENDS MediaGc, TLAPS

(* A job that is replaced by another one changes no other worker's job.    *)
LEMMA GotoEffect ==
  ASSUME TypeOK, NEW w \in Workers, NEW j \in JobTypes, Goto(w, j)
  PROVE  /\ job' \in [Workers -> JobTypes]
         /\ job'[w] = j
         /\ \A v \in Workers : v # w => job'[v] = job[v]
BY DEF TypeOK, Goto

LEMMA IdleType == Idle \in JobTypes
BY DEF Idle, JobTypes

LEMMA InitInv == Init => PassIInv
<1> SUFFICES ASSUME Init PROVE PassIInv
  OBVIOUS
<1>1. TypeOK
  <2>1. /\ row \in [Assets -> RowTypes \cup {None}] /\ Rows = {}
        /\ obj \in [Assets -> Tags] /\ refs \in [Sources -> SUBSET Assets]
    BY DEF Init, Rows, Tags
  <2>2. job \in [Workers -> JobTypes] /\ steady \in [Workers -> SUBSET (Sources \X Assets)]
    BY IdleType DEF Init
  <2>3. faults \in 0..MaxFaults
    BY MediaAssumption DEF Init
  <2>4. disturbed \in BOOLEAN
    BY DEF Init
  <2>5. QED
    BY <2>1, <2>2, <2>3, <2>4 DEF TypeOK
<1>2. SteadyStands /\ SteadySeen /\ PlansLate
  BY DEF Init, SteadyStands, SteadySeen, PlansLate, InPass, PassSteps, Sources, Idle
<1>3. Uploaded /\ RipePlans
  BY DEF Init, Uploaded, RipePlans, Rows, Idle
<1>4. QED
  BY <1>1, <1>2, <1>3 DEF PassIInv

(* Rows and objects change, jobs and references do not.                    *)
LEMMA OutsideInv ==
  ASSUME PassIInv, NEW a \in Assets, Outside(a)
  PROVE  PassIInv'
<1> USE DEF PassIInv
<1>0. UNCHANGED <<refs, job, faults, steady, disturbed>>
  BY DEF Outside, CreateUploadUrl, Put, GrowsOld, Expires, Quiet
<1>1. SteadyStands' /\ SteadySeen' /\ PlansLate'
  BY <1>0 DEF SteadyStands, SteadySeen, PlansLate, InPass
<1>2. CASE CreateUploadUrl(a)
  <2>1. /\ row' \in [Assets -> RowTypes \cup {None}]
        /\ row'[a] = NewRow /\ \A b \in Assets \ {a} : row'[b] = row[b]
        /\ obj' \in [Assets -> Tags]
        /\ obj'[a] = "awaited" /\ \A b \in Assets \ {a} : obj'[b] = obj[b]
        /\ obj[a] = "never"
    BY <1>2 DEF CreateUploadUrl, TypeOK, NewRow, RowTypes, Tags
  <2>2. NewRow.orphaned = FALSE
    BY DEF NewRow
  <2>3. TypeOK'
    BY <1>0, <2>1, <2>2 DEF TypeOK, Rows
  <2>4. Uploaded' /\ RipePlans'
    BY <1>0, <2>1 DEF Uploaded, RipePlans, Rows, Acts
  <2>5. QED
    BY <1>1, <2>3, <2>4
<1>3. CASE Put(a) \/ Expires(a)
  <2>1. /\ UNCHANGED row
        /\ obj' \in [Assets -> Tags]
        /\ \A b \in Assets : obj'[b] = "never" => obj[b] = "never"
    BY <1>3 DEF Put, Expires, TypeOK, Tags
  <2>2. TypeOK' /\ Uploaded' /\ RipePlans'
    BY <1>0, <2>1 DEF TypeOK, Uploaded, RipePlans, Rows
  <2>3. QED
    BY <1>1, <2>2
<1>4. CASE GrowsOld(a)
  <2>1. /\ row[a] \in RowTypes /\ row[a].old = FALSE
        /\ row' = [row EXCEPT ![a] = [row[a] EXCEPT !.old = TRUE]]
    BY <1>4 DEF GrowsOld, Rows, TypeOK, RowTypes
  <2>2. /\ row' \in [Assets -> RowTypes \cup {None}]
        /\ row'[a] \in RowTypes /\ row'[a].old /\ row'[a].orphaned = row[a].orphaned
        /\ row'[a].confirmed = row[a].confirmed
        /\ \A b \in Assets \ {a} : row'[b] = row[b]
    BY <2>1 DEF TypeOK, RowTypes
  <2>3. /\ obj' \in [Assets -> Tags]
        /\ \A b \in Assets : obj'[b] = "never" => obj[b] = "never"
    BY <1>4 DEF GrowsOld, TypeOK, Tags
  <2>4. TypeOK'
    BY <1>0, <1>4, <2>2, <2>3 DEF TypeOK, Rows, GrowsOld
  <2>5. Uploaded' /\ RipePlans'
    BY <1>0, <1>4, <2>2, <2>3 DEF Uploaded, RipePlans, Rows, GrowsOld
  <2>6. QED
    BY <1>1, <2>4, <2>5
<1>5. QED
  BY <1>2, <1>3, <1>4 DEF Outside

(* The owner edits: what is no longer there is no longer steady.           *)
LEMMA EditInv ==
  ASSUME PassIInv, NEW a \in Assets, NEW s \in Drafts, Edit(s, a)
  PROVE  PassIInv'
<1> USE DEF PassIInv
<1> DEFINE new == [refs EXCEPT ![s] = IF a \in @ THEN @ \ {a} ELSE @ \cup {a}]
<1>1. /\ UNCHANGED <<row, obj, job, faults, disturbed>>
      /\ refs' = new
      /\ steady' = [w \in Workers |-> Standing(steady[w], new)]
  BY DEF Edit, SetRefs, stores
<1>2. new \in [Sources -> SUBSET Assets]
  BY DEF TypeOK, Drafts, Sources
<1> HIDE DEF new
<1>3. \A w \in Workers : steady'[w] \subseteq steady[w]
  BY <1>1 DEF Standing
<1>4. TypeOK'
  BY <1>1, <1>2, <1>3 DEF TypeOK, Rows
<1>5. SteadyStands'
  BY <1>1 DEF SteadyStands, Standing
<1>6. SteadySeen' /\ PlansLate' /\ Uploaded' /\ RipePlans'
  BY <1>1, <1>3 DEF SteadySeen, PlansLate, InPass, Uploaded, RipePlans, Rows, ReadBefore, Sources
<1>7. QED
  BY <1>4, <1>5, <1>6

(* A handler whose step moves no reference and no history, and whose job   *)
(* afterwards is no further in a pass than it was: it plans nothing new.   *)
LEMMA JobInv ==
  ASSUME PassIInv, NEW w \in Workers, NEW j \in JobTypes, Goto(w, j),
         UNCHANGED <<row, refs, steady>>,
         obj' \in [Assets -> Tags], \A a \in Assets : obj'[a] = "never" => obj[a] = "never",
         disturbed' \in BOOLEAN, faults' \in 0..MaxFaults,
         j.plan \subseteq job[w].plan,
         j.plan # {} => j.pc \in {"loop", "untag", "tag", "reap"},
         j.pc \in PassSteps =>
           /\ j.seen = job[w].seen /\ InPass(w)
           /\ ReadBefore(j.pc) = ReadBefore(job[w].pc)
  PROVE  PassIInv'
<1> USE DEF PassIInv
<1>1. /\ job' \in [Workers -> JobTypes] /\ job'[w] = j
      /\ \A v \in Workers : v # w => job'[v] = job[v]
  BY GotoEffect
<1>2. TypeOK'
  BY <1>1 DEF TypeOK, Rows
<1>3. SteadyStands'
  BY DEF SteadyStands
<1>4. SteadySeen' /\ PlansLate'
  BY <1>1 DEF SteadySeen, PlansLate, InPass, PassSteps
<1>5. Uploaded' /\ RipePlans'
  BY <1>1 DEF Uploaded, RipePlans, Rows
<1>6. QED
  BY <1>2, <1>3, <1>4, <1>5

(* Rows may go, or age: what was confirmed and old stays so.               *)
RowsOnlyAge ==
  /\ row' \in [Assets -> RowTypes \cup {None}]
  /\ \A a \in Rows' : /\ a \in Rows
                      /\ row[a].confirmed => row'[a].confirmed
                      /\ row[a].old => row'[a].old
                      /\ row'[a].orphaned => row'[a].confirmed /\ row'[a].old

(* References may go, and what is steady with them.                        *)
RefsOnlyGo ==
  /\ refs' \in [Sources -> SUBSET Assets]
  /\ steady' \in [Workers -> SUBSET (Sources \X Assets)]
  /\ \A v \in Workers : steady'[v] \subseteq steady[v]
  /\ SteadyStands'

LEMMA RefsStay == ASSUME PassIInv, UNCHANGED <<refs, steady>> PROVE RefsOnlyGo
BY DEF PassIInv, TypeOK, SteadyStands, RefsOnlyGo

LEMMA CoversGo == ASSUME PassIInv, NEW a, ClearCovers(a) PROVE RefsOnlyGo
<1> USE DEF PassIInv
<1>1. PICK gone \in SUBSET {a} : SetRefs([refs EXCEPT !["posts"] = @ \ gone])
  BY DEF ClearCovers
<1> DEFINE new == [refs EXCEPT !["posts"] = @ \ gone]
<1>2. new \in [Sources -> SUBSET Assets]
  BY DEF TypeOK, Sources
<1>3. refs' = new /\ steady' = [v \in Workers |-> Standing(steady[v], new)]
  BY <1>1 DEF SetRefs
<1> HIDE DEF new
<1>4. \A v \in Workers : steady'[v] \subseteq steady[v]
  BY <1>3 DEF Standing
<1>5. SteadyStands'
  BY <1>3 DEF SteadyStands, Standing
<1>6. steady' \in [Workers -> SUBSET (Sources \X Assets)]
  BY <1>3, <1>4 DEF TypeOK
<1>7. QED
  BY <1>2, <1>3, <1>4, <1>5, <1>6 DEF RefsOnlyGo

(* The same for a step that changes rows and not objects.                  *)
LEMMA RowInv ==
  ASSUME PassIInv, NEW w \in Workers, NEW j \in JobTypes, Goto(w, j),
         UNCHANGED <<obj, disturbed, faults>>,
         RowsOnlyAge, RefsOnlyGo,
         j.plan \subseteq job[w].plan,
         j.plan # {} => j.pc \in {"loop", "untag", "tag", "reap"},
         j.pc \in PassSteps =>
           /\ j.seen = job[w].seen /\ InPass(w)
           /\ ReadBefore(j.pc) = ReadBefore(job[w].pc)
  PROVE  PassIInv'
<1> USE DEF PassIInv
<1>1. /\ job' \in [Workers -> JobTypes] /\ job'[w] = j
      /\ \A v \in Workers : v # w => job'[v] = job[v]
  BY GotoEffect
<1>2. TypeOK'
  BY <1>1 DEF TypeOK, RowsOnlyAge, RefsOnlyGo
<1>3. SteadyStands'
  BY DEF RefsOnlyGo
<1>4. SteadySeen' /\ PlansLate'
  BY <1>1 DEF SteadySeen, PlansLate, InPass, PassSteps, RefsOnlyGo
<1>5. Uploaded' /\ RipePlans'
  BY <1>1 DEF Uploaded, RipePlans, RowsOnlyAge
<1>6. QED
  BY <1>2, <1>3, <1>4, <1>5

(* A pass begins, with the references it finds (or has just written).      *)
LEMMA BeginInv ==
  ASSUME PassIInv, NEW w \in Workers, NEW r \in [Sources -> SUBSET Assets],
         BeginPass(w, r), UNCHANGED <<stores, faults>>
  PROVE  PassIInv'
<1> USE DEF PassIInv
<1> DEFINE j == [Idle EXCEPT !.pc = "sections"]
<1>1. j \in JobTypes /\ j.pc = "sections" /\ j.plan = {}
  BY IdleType DEF Idle, JobTypes, PassSteps, Sources
<1> HIDE DEF j
<1>2. Goto(w, j) /\ refs' = r
  BY DEF BeginPass, j
<1>3. /\ job' \in [Workers -> JobTypes] /\ job'[w] = j
      /\ \A v \in Workers : v # w => job'[v] = job[v]
  BY <1>1, <1>2, GotoEffect
<1>4. /\ \A v \in Workers : v # w => steady'[v] \subseteq steady[v]
      /\ \A v \in Workers : \A e \in steady'[v] : e[2] \in refs'[e[1]]
      /\ steady' \in [Workers -> SUBSET (Sources \X Assets)]
  BY <1>2 DEF BeginPass, Standing, TypeOK
<1>5. disturbed' \in BOOLEAN
  BY DEF BeginPass
<1>6. TypeOK'
  BY <1>2, <1>3, <1>4, <1>5 DEF TypeOK, stores, Rows
<1>7. SteadyStands'
  BY <1>4 DEF SteadyStands
<1>8. SteadySeen'
  <2>1. ReadBefore("sections") = {}
    BY DEF ReadBefore, Sources
  <2>2. QED
    BY <1>1, <1>3, <1>4, <2>1 DEF SteadySeen, InPass, ReadBefore
<1>9. PlansLate' /\ Uploaded' /\ RipePlans'
  BY <1>1, <1>3 DEF PlansLate, Uploaded, RipePlans, Rows, stores
<1>10. QED
  BY <1>6, <1>7, <1>8, <1>9

(* The handlers outside a pass.                                            *)
LEMMA RequestInv ==
  ASSUME PassIInv, NEW w \in Workers, Request(w)
  PROVE  PassIInv'
<1> USE DEF PassIInv
<1>1. ASSUME NEW a \in Assets, ConfirmStarts(w, a) PROVE PassIInv'
  <2> DEFINE j == [Idle EXCEPT !.pc = "clear", !.asset = a]
  <2>1. j \in JobTypes /\ j.plan = {} /\ j.pc = "clear"
    BY IdleType DEF Idle, JobTypes
  <2>2. "clear" \notin PassSteps
    BY DEF PassSteps, Sources
  <2>3. Goto(w, j) /\ UNCHANGED <<row, obj, refs, steady, faults>> /\ disturbed' \in BOOLEAN
    BY <1>1 DEF ConfirmStarts, stores, DisturbedIf
  <2> HIDE DEF j
  <2>4. QED
    BY <2>1, <2>2, <2>3, JobInv DEF TypeOK
<1>2. ASSUME NEW a \in Assets, DeleteStarts(w, a) PROVE PassIInv'
  <2> DEFINE j == [Idle EXCEPT !.pc = "delete", !.asset = a]
  <2>1. j \in JobTypes /\ j.plan = {} /\ j.pc = "delete"
    BY IdleType DEF Idle, JobTypes
  <2>2. "delete" \notin PassSteps
    BY DEF PassSteps, Sources
  <2>3. Goto(w, j) /\ UNCHANGED <<row, refs, steady, faults>> /\ disturbed' \in BOOLEAN
    BY <1>2 DEF DeleteStarts, DisturbedIf
  <2>4. obj' \in [Assets -> Tags] /\ \A b \in Assets : obj'[b] = "never" => obj[b] = "never"
    BY <1>2 DEF DeleteStarts, TypeOK, Tags
  <2> HIDE DEF j
  <2>5. QED
    BY <2>1, <2>2, <2>3, <2>4, JobInv DEF TypeOK
<1>3. CASE ConfirmClears(w)
  <2>1. PICK j \in JobTypes : Goto(w, j) /\ j.plan = {} /\ j.pc \in {"idle", "stamp"}
    <3>0. job[w].plan = {}
      BY <1>3 DEF ConfirmClears, PlansLate
    <3>1. /\ [job[w] EXCEPT !.pc = "stamp"] \in JobTypes
          /\ [job[w] EXCEPT !.pc = "stamp"].plan = job[w].plan
          /\ [job[w] EXCEPT !.pc = "stamp"].pc = "stamp"
      BY DEF TypeOK, JobTypes
    <3>2. QED
      BY <1>3, <3>0, <3>1, IdleType DEF ConfirmClears, At, Done, Idle
  <2>2. {"idle", "stamp"} \cap PassSteps = {}
    BY DEF PassSteps, Sources
  <2>3. UNCHANGED <<row, refs, steady, faults>> /\ disturbed' \in BOOLEAN
    BY <1>3 DEF ConfirmClears, DisturbedIf
  <2>4. obj' \in [Assets -> Tags] /\ \A b \in Assets : obj'[b] = "never" => obj[b] = "never"
    BY <1>3 DEF ConfirmClears, ClearTags, TypeOK, Tags
  <2>5. QED
    BY <2>1, <2>2, <2>3, <2>4, JobInv DEF TypeOK
<1>4. CASE ConfirmStamps(w)
  <2> DEFINE b == job[w].asset
  <2>1. Goto(w, Idle) /\ Idle.plan = {} /\ Idle.pc = "idle" /\ "idle" \notin PassSteps
    BY <1>4 DEF ConfirmStamps, Done, Idle, PassSteps, Sources
  <2>2. UNCHANGED <<obj, refs, steady, disturbed, faults>>
    BY <1>4 DEF ConfirmStamps, Quiet
  <2>3. CASE b \in Rows
    <3>1. b \in Assets /\ row[b] \in RowTypes
      BY <2>3 DEF Rows, TypeOK
    <3>2. row' = [row EXCEPT ![b] = [row[b] EXCEPT !.confirmed = TRUE]]
      BY <1>4, <2>3 DEF ConfirmStamps
    <3>3. /\ [row[b] EXCEPT !.confirmed = TRUE] \in RowTypes
          /\ [row[b] EXCEPT !.confirmed = TRUE].confirmed = TRUE
          /\ [row[b] EXCEPT !.confirmed = TRUE].old = row[b].old
          /\ [row[b] EXCEPT !.confirmed = TRUE].orphaned = row[b].orphaned
      BY <3>1 DEF RowTypes
    <3>4. row' \in [Assets -> RowTypes \cup {None}]
      BY <3>1, <3>2, <3>3 DEF TypeOK
    <3>5. \A a \in Rows' : /\ a \in Rows
                           /\ row[a].confirmed => row'[a].confirmed
                           /\ row[a].old => row'[a].old
                           /\ row'[a].orphaned => row'[a].confirmed /\ row'[a].old
      BY <2>3, <3>1, <3>2, <3>3 DEF Rows, TypeOK
    <3>6. RowsOnlyAge
      BY <3>4, <3>5 DEF RowsOnlyAge
    <3>7. QED
      BY <2>1, <2>2, <3>6, IdleType, RefsStay, RowInv
  <2>4. CASE b \notin Rows
    <3>1. UNCHANGED row
      BY <1>4, <2>4 DEF ConfirmStamps
    <3>2. QED
      BY <2>1, <2>2, <3>1, IdleType, JobInv DEF TypeOK
  <2>5. QED
    BY <2>3, <2>4
<1>5. CASE DeleteEnds(w)
  <2>1. /\ Goto(w, Idle) /\ Idle.plan = {} /\ Idle.pc = "idle" /\ "idle" \notin PassSteps
        /\ UNCHANGED <<obj, disturbed, faults>>
        /\ ClearCovers(job[w].asset)
    BY <1>5 DEF DeleteEnds, Done, Idle, PassSteps, Sources
  <2>2. row' = [row EXCEPT ![job[w].asset] = None]
    BY <1>5 DEF DeleteEnds
  <2>3. /\ row' \in [Assets -> RowTypes \cup {None}]
        /\ \A a \in Rows' : a \in Rows /\ row'[a] = row[a]
    BY <2>2 DEF Rows, TypeOK
  <2>4. RowsOnlyAge
    BY <2>3 DEF RowsOnlyAge, TypeOK
  <2>5. QED
    BY <2>1, <2>4, IdleType, CoversGo, RowInv
<1>6. CASE Sweep(w)
  BY <1>6, BeginInv DEF Sweep, TypeOK
<1>7. CASE PublishReads(w)
  <2>1. PICK doc \in SUBSET (refs["sections"] \cup refs["items"]) :
               Goto(w, [Idle EXCEPT !.pc = "publish", !.seen = doc])
    BY <1>7 DEF PublishReads
  <2> DEFINE j == [Idle EXCEPT !.pc = "publish", !.seen = doc]
  <2>2. doc \in SUBSET Assets
    BY DEF TypeOK, Sources
  <2>3. j \in JobTypes /\ j.plan = {} /\ j.pc = "publish"
    BY <2>2, IdleType DEF Idle, JobTypes
  <2>4. "publish" \notin PassSteps
    BY DEF PassSteps, Sources
  <2>5. Goto(w, j) /\ UNCHANGED <<row, obj, refs, steady, faults, disturbed>>
    BY <1>7, <2>1 DEF PublishReads, stores, Quiet
  <2> HIDE DEF j
  <2>6. QED
    BY <2>3, <2>4, <2>5, JobInv DEF TypeOK
<1>8. CASE PublishWrites(w)
  <2>1. PICK retained \in SUBSET refs["versions"] :
               BeginPass(w, [refs EXCEPT !["versions"] = retained \cup job[w].seen])
    BY <1>8 DEF PublishWrites
  <2>2. [refs EXCEPT !["versions"] = retained \cup job[w].seen] \in [Sources -> SUBSET Assets]
    BY DEF TypeOK, Sources, JobTypes
  <2>3. QED
    BY <1>8, <2>1, <2>2, BeginInv DEF PublishWrites
<1>9. CASE Restore(w)
  <2>1. PICK secs \in SUBSET refs["versions"], its \in SUBSET refs["versions"],
             retained \in SUBSET refs["versions"] :
               BeginPass(w, [refs EXCEPT !["sections"] = secs, !["items"] = its,
                                         !["versions"] = retained])
    BY <1>9 DEF Restore
  <2>2. [refs EXCEPT !["sections"] = secs, !["items"] = its, !["versions"] = retained]
          \in [Sources -> SUBSET Assets]
    BY DEF TypeOK, Sources
  <2>3. QED
    BY <1>9, <2>1, <2>2, BeginInv DEF Restore
<1>10. QED
  BY <1>1, <1>2, <1>3, <1>4, <1>5, <1>6, <1>7, <1>8, <1>9 DEF Request

(* The pass itself.                                                        *)
LEMMA CollectInv ==
  ASSUME PassIInv, NEW w \in Workers, Collect(w)
  PROVE  PassIInv'
<1> USE DEF PassIInv
<1>1. CASE ReadSource(w)
  <2> DEFINE pc == job[w].pc
             j == [job[w] EXCEPT !.pc = ThenRead[pc], !.seen = @ \cup refs[pc]]
  <2>1. pc \in Sources /\ Goto(w, j) /\ UNCHANGED <<row, obj, refs, faults, steady, disturbed>>
    BY <1>1 DEF ReadSource, stores, Quiet
  <2>2. /\ ThenRead[pc] \in PassSteps /\ refs[pc] \subseteq Assets
        /\ ReadBefore(ThenRead[pc]) = ReadBefore(pc) \cup {pc}
    BY <2>1 DEF ThenRead, Sources, PassSteps, ReadBefore, TypeOK
  <2>3. /\ j \in JobTypes /\ j.plan = job[w].plan /\ j.pc = ThenRead[pc]
        /\ j.seen = job[w].seen \cup refs[pc]
    BY <2>2 DEF TypeOK, JobTypes
  <2> HIDE DEF j
  <2>4. /\ job' \in [Workers -> JobTypes] /\ job'[w] = j
        /\ \A v \in Workers : v # w => job'[v] = job[v]
    BY <2>1, <2>3, GotoEffect
  <2>5. TypeOK' /\ SteadyStands'
    BY <2>1, <2>4 DEF TypeOK, Rows, SteadyStands
  <2>6. Uploaded' /\ RipePlans'
    BY <2>1, <2>3, <2>4 DEF Uploaded, RipePlans, Rows
  <2>7. job[w].plan = {}
    BY <2>1 DEF PlansLate, Sources
  <2>8. SteadySeen' /\ PlansLate'
    BY <2>1, <2>2, <2>3, <2>4, <2>7 DEF SteadySeen, PlansLate, InPass, SteadyStands, PassSteps
  <2>9. QED
    BY <2>5, <2>6, <2>8
<1>2. CASE ReadAssets(w)
  <2> DEFINE plan == Plan(job[w].seen)
             j == [job[w] EXCEPT !.pc = "loop", !.plan = plan]
  <2>1. /\ job[w].pc = "assets" /\ Goto(w, j)
        /\ UNCHANGED <<row, obj, refs, faults, steady, disturbed>>
    BY <1>2 DEF ReadAssets, stores, Quiet
  <2>2. /\ plan \in SUBSET (Acts \X Assets)
        /\ \A act \in Acts, a \in Assets : <<act, a>> \in plan => a \in Rows
        /\ \A a \in Assets : <<"orphan", a>> \in plan =>
             a \notin job[w].seen /\ row[a].confirmed /\ row[a].old
    BY DEF Plan, DoFor, Rescuable, Reapable, Orphanable, Acts, Rows
  <2> HIDE DEF plan
  <2>3. j \in JobTypes /\ j.plan = plan /\ j.pc = "loop" /\ j.seen = job[w].seen
    BY <2>2 DEF TypeOK, JobTypes, PassSteps
  <2> HIDE DEF j
  <2>4. /\ job' \in [Workers -> JobTypes] /\ job'[w] = j
        /\ \A v \in Workers : v # w => job'[v] = job[v]
    BY <2>1, <2>3, GotoEffect
  <2>5. TypeOK' /\ SteadyStands'
    BY <2>1, <2>4 DEF TypeOK, Rows, SteadyStands
  <2>6. Uploaded' /\ RipePlans'
    BY <2>1, <2>2, <2>3, <2>4 DEF Uploaded, RipePlans, Rows
  <2>7. ReadBefore("loop") = ReadBefore("assets") /\ InPass(w)
    BY <2>1 DEF ReadBefore, InPass, PassSteps, Sources
  <2>8. SteadySeen' /\ PlansLate'
    BY <2>1, <2>2, <2>3, <2>4, <2>7 DEF SteadySeen, PlansLate, InPass
  <2>9. QED
    BY <2>5, <2>6, <2>8
<1>3. ASSUME NEW act \in Acts, NEW a \in Assets, NEW pc \in {"loop", "untag", "tag", "reap"},
             Take(w, act, a, pc)
      PROVE  LET j == [job[w] EXCEPT !.pc = pc, !.asset = a, !.plan = @ \ {<<act, a>>}]
             IN  /\ j \in JobTypes /\ Goto(w, j) /\ j.plan \subseteq job[w].plan
                 /\ j.pc = pc /\ j.seen = job[w].seen /\ InPass(w)
                 /\ ReadBefore(j.pc) = ReadBefore(job[w].pc)
  <2>1. job[w].pc = "loop" /\ pc \in PassSteps /\ pc \notin Sources /\ "loop" \notin Sources
    BY <1>3 DEF Take, PassSteps, Sources
  <2>2. QED
    BY <1>3, <2>1 DEF Take, TypeOK, JobTypes, InPass, PassSteps, ReadBefore
<1>4. ASSUME NEW a \in Assets, NEW flag \in BOOLEAN, Mark(a, flag),
             flag /\ a \in Rows => row[a].confirmed /\ row[a].old
      PROVE  RowsOnlyAge
  <2>1. CASE a \notin Rows
    BY <1>4, <2>1 DEF Mark, TypeOK, Rows, RowsOnlyAge
  <2>2. CASE a \in Rows
    <3> DEFINE r == [row[a] EXCEPT !.orphaned = flag]
    <3>1. row[a] \in RowTypes
      BY <2>2 DEF Rows, TypeOK
    <3>2. /\ r \in RowTypes /\ r.orphaned = flag
          /\ r.confirmed = row[a].confirmed /\ r.old = row[a].old
      BY <3>1 DEF RowTypes
    <3>3. row' = [row EXCEPT ![a] = r]
      BY <1>4, <2>2 DEF Mark
    <3> HIDE DEF r
    <3>4. /\ row' \in [Assets -> RowTypes \cup {None}] /\ row'[a] = r
          /\ \A b \in Assets : b # a => row'[b] = row[b]
      BY <3>2, <3>3 DEF TypeOK
    <3>5. QED
      BY <1>4, <2>2, <3>2, <3>4 DEF TypeOK, Rows, RowsOnlyAge
  <2>3. QED
    BY <2>1, <2>2
<1>5. ASSUME NEW a \in Assets, MarkRescued(w, a) PROVE PassIInv'
  <2>1. Take(w, "rescue", a, "untag") /\ Mark(a, FALSE)
        /\ UNCHANGED <<obj, refs, faults, steady, disturbed>>
    BY <1>5 DEF MarkRescued, Quiet
  <2>2. "rescue" \in Acts
    BY DEF Acts
  <2> DEFINE j == [job[w] EXCEPT !.pc = "untag", !.asset = a, !.plan = @ \ {<<"rescue", a>>}]
  <2>3. /\ j \in JobTypes /\ Goto(w, j) /\ j.plan \subseteq job[w].plan
        /\ j.pc = "untag" /\ j.seen = job[w].seen /\ InPass(w)
        /\ ReadBefore(j.pc) = ReadBefore(job[w].pc)
    BY <1>3, <2>1, <2>2
  <2> HIDE DEF j
  <2>4. RowsOnlyAge
    BY <1>4, <2>1
  <2>5. QED
    BY <2>1, <2>3, <2>4, RefsStay, RowInv
<1>6. ASSUME NEW a \in Assets, MarkOrphaned(w, a) PROVE PassIInv'
  <2>1. Take(w, "orphan", a, "tag") /\ Mark(a, TRUE)
        /\ UNCHANGED <<obj, refs, faults, steady, disturbed>>
    BY <1>6 DEF MarkOrphaned, Quiet
  <2>2. "orphan" \in Acts
    BY DEF Acts
  <2>3. a \in Rows => row[a].confirmed /\ row[a].old
    BY <2>1 DEF Take, RipePlans
  <2> DEFINE j == [job[w] EXCEPT !.pc = "tag", !.asset = a, !.plan = @ \ {<<"orphan", a>>}]
  <2>4. /\ j \in JobTypes /\ Goto(w, j) /\ j.plan \subseteq job[w].plan
        /\ j.pc = "tag" /\ j.seen = job[w].seen /\ InPass(w)
        /\ ReadBefore(j.pc) = ReadBefore(job[w].pc)
    BY <1>3, <2>1, <2>2
  <2> HIDE DEF j
  <2>5. RowsOnlyAge
    BY <1>4, <2>1, <2>3
  <2>6. QED
    BY <2>1, <2>4, <2>5, RefsStay, RowInv
<1>7. ASSUME NEW a \in Assets, HeadOrphan(w, a) PROVE PassIInv'
  <2>1. PICK pc \in {"loop", "reap"} : Take(w, "reap", a, pc)
    BY <1>7 DEF HeadOrphan
  <2>2. UNCHANGED <<row, obj, refs, faults, steady, disturbed>> /\ "reap" \in Acts
    BY <1>7 DEF HeadOrphan, stores, Quiet, Acts
  <2>3. QED
    BY <1>3, <2>1, <2>2, JobInv DEF TypeOK
<1>8. ASSUME At(w, "loop"), job[w].pc \in {"tag", "untag", "reap"}
      PROVE  LET j == [job[w] EXCEPT !.pc = "loop"]
             IN  /\ j \in JobTypes /\ Goto(w, j) /\ j.plan = job[w].plan
                 /\ j.pc = "loop" /\ j.seen = job[w].seen /\ InPass(w)
                 /\ ReadBefore(j.pc) = ReadBefore(job[w].pc)
  <2>1. job[w].pc \notin Sources /\ "loop" \notin Sources /\ "loop" \in PassSteps /\ InPass(w)
    BY <1>8 DEF Sources, PassSteps, InPass
  <2>2. QED
    BY <1>8, <2>1 DEF At, TypeOK, JobTypes, ReadBefore
<1>9. Idle.plan = {} /\ Idle.pc \notin PassSteps
  BY DEF Idle, PassSteps, Sources
<1>10. CASE WriteTag(w)
  <2>1. /\ job[w].pc \in {"tag", "untag"} /\ UNCHANGED <<row, refs, faults, steady, disturbed>>
        /\ At(w, "loop") \/ Done(w)
    BY <1>10 DEF WriteTag, Quiet
  <2>2. obj' \in [Assets -> Tags] /\ \A b \in Assets : obj'[b] = "never" => obj[b] = "never"
    BY <1>10 DEF WriteTag, NewTag, TypeOK, Tags
  <2>3. CASE At(w, "loop")
    BY <1>8, <2>1, <2>2, <2>3, JobInv DEF TypeOK
  <2>4. CASE Done(w)
    BY <1>9, <2>1, <2>2, <2>4, IdleType, JobInv DEF TypeOK, Done
  <2>5. QED
    BY <2>1, <2>3, <2>4
<1>11. CASE Reap(w)
  <2>1. /\ job[w].pc = "reap" /\ At(w, "loop")
        /\ UNCHANGED <<obj, faults, disturbed>> /\ ClearCovers(job[w].asset)
        /\ row' = [row EXCEPT ![job[w].asset] = None]
    BY <1>11 DEF Reap
  <2>2. /\ row' \in [Assets -> RowTypes \cup {None}]
        /\ \A b \in Rows' : b \in Rows /\ row'[b] = row[b]
    BY <2>1 DEF Rows, TypeOK
  <2>3. RowsOnlyAge
    BY <2>2 DEF RowsOnlyAge, TypeOK
  <2>4. QED
    BY <1>8, <2>1, <2>3, CoversGo, RowInv
<1>12. CASE PassEnds(w)
  BY <1>9, <1>12, IdleType, JobInv DEF PassEnds, Done, stores, Quiet, TypeOK
<1>13. QED
  BY <1>1, <1>2, <1>5, <1>6, <1>7, <1>10, <1>11, <1>12 DEF Collect

LEMMA AbortInv ==
  ASSUME PassIInv, NEW w \in Workers, Abort(w)
  PROVE  PassIInv'
<1> USE DEF PassIInv
<1>1. /\ Goto(w, Idle) /\ Idle.plan = {} /\ Idle.pc \notin PassSteps
      /\ UNCHANGED <<row, obj, refs, steady>>
  BY DEF Abort, Done, Idle, PassSteps, Sources, stores, DisturbedIf
<1>2. disturbed' \in BOOLEAN /\ faults' \in 0..MaxFaults
  BY MediaAssumption DEF Abort, DisturbedIf, TypeOK
<1>3. QED
  BY <1>1, <1>2, IdleType, JobInv DEF TypeOK

LEMMA NextInv == PassIInv /\ [Next]_vars => PassIInv'
<1> SUFFICES ASSUME PassIInv, [Next]_vars PROVE PassIInv'
  OBVIOUS
<1>1. ASSUME NEW a \in Assets, Outside(a) PROVE PassIInv'
  BY <1>1, OutsideInv
<1>2. ASSUME NEW a \in Assets, NEW s \in Drafts, Edit(s, a) PROVE PassIInv'
  BY <1>2, EditInv
<1>3. ASSUME NEW w \in Workers, Request(w) \/ Collect(w) \/ Abort(w) PROVE PassIInv'
  BY <1>3, RequestInv, CollectInv, AbortInv
<1>4. CASE UNCHANGED vars
  BY <1>4 DEF vars, stores, PassIInv, TypeOK, Rows, SteadyStands, SteadySeen, PlansLate, InPass,
              Uploaded, RipePlans
<1>5. QED
  BY <1>1, <1>2, <1>3, <1>4 DEF Next

(* Types, and that what is steady stands and has been seen.                *)
THEOREM PassInvariant == Spec => []PassIInv
BY InitInv, NextInv, PTL DEF Spec

(* With any number of requests, passes and failures, only assets that were *)
(* confirmed and are past the grace period are ever marked as orphaned.    *)
THEOREM MediaType == Spec => []TypeOK
<1>1. PassIInv => TypeOK
  BY DEF PassIInv
<1>2. QED
  BY <1>1, PassInvariant, PTL

(* No pass of runGc() marks as orphaned an asset that one source has       *)
(* referenced since the pass began, whatever happens beside it.            *)
THEOREM MediaKept == Spec => StableReferenceKept
<1>1. PassIInv /\ [Next]_vars =>
        [\A a \in Assets, w \in Workers :
           <<"orphan", a>> \in job[w].plan /\ job'[w].pc = "tag" /\ job'[w].asset = a
             => \A s \in Sources : <<s, a>> \notin steady[w]]_vars
  <2>1. ASSUME PassIInv, NEW a \in Assets, NEW w \in Workers, NEW s \in Sources,
               <<"orphan", a>> \in job[w].plan, <<s, a>> \in steady[w]
        PROVE  FALSE
    <3>1. job[w].pc \in {"loop", "untag", "tag", "reap"} /\ a \notin job[w].seen
      BY <2>1 DEF PassIInv, PlansLate
    <3>2. InPass(w) /\ s \in ReadBefore(job[w].pc)
      BY <3>1 DEF InPass, PassSteps, Sources, ReadBefore
    <3>3. QED
      BY <2>1, <3>1, <3>2 DEF PassIInv, SteadySeen
  <2>2. QED
    BY <2>1
<1>2. QED
  BY <1>1, PassInvariant, PTL DEF Spec, StableReferenceKept

-----------------------------------------------------------------------------
(***************************************************************************)
(* Rows and tags agree.  What TagIInv says beyond PassIInv falls into      *)
(* UploadOver, which holds whatever happens, and four statements about an  *)
(* undisturbed collection.  One lemma per group of actions shows that both *)
(* are kept; disturbed only ever becomes TRUE, so that an action that ends *)
(* undisturbed began so.                                                   *)
(***************************************************************************)
Calm == TagMatchesRow /\ NoUntrackedObject /\ HalfWritten /\ RescuesAhead

LEMMA CalmMeans ==
  ASSUME PassIInv, UploadOver, ~disturbed => Calm
  PROVE  TagIInv
BY DEF Calm, TagIInv, TagMatchesRow, NoUntrackedObject

LEMMA TagMeans ==
  ASSUME TagIInv
  PROVE  /\ TypeOK /\ PassIInv /\ UploadOver
         /\ ~disturbed => Calm
BY DEF Calm, TagIInv, PassIInv

LEMMA TagInit == Init => TagIInv
<1> SUFFICES ASSUME Init PROVE TagIInv
  OBVIOUS
<1>1. PassIInv
  BY InitInv
<1>2. /\ Rows = {} /\ Stored = {} /\ \A w \in Workers : job[w].pc = "idle" /\ job[w].plan = {}
      /\ \A a \in Assets : obj[a] = "never"
  BY DEF Init, Rows, Stored, Idle
<1>3. UploadOver
  BY <1>2 DEF UploadOver, Aimed
<1>4. Calm
  BY <1>2 DEF Calm, TagMatchesRow, NoUntrackedObject, HalfWritten, RescuesAhead, InPass,
              PassSteps, Sources, Confirming, Deleting
<1>5. QED
  BY <1>1, <1>3, <1>4, CalmMeans

(* Outside: rows and objects change, jobs do not.                          *)
LEMMA OutsideTag ==
  ASSUME TagIInv, NEW a \in Assets, Outside(a)
  PROVE  UploadOver' /\ (~disturbed' => Calm')
<1>0. /\ TypeOK /\ PassIInv /\ UploadOver /\ (~disturbed => Calm)
      /\ UNCHANGED <<refs, job, faults, steady, disturbed>>
  BY TagMeans DEF Outside, CreateUploadUrl, Put, GrowsOld, Expires, Quiet
<1>1. /\ \A b \in Assets : PastUpload(b) => PastUpload(b)'
      /\ \A b \in Assets : obj[b] = "absent" => obj'[b] = "absent"
      /\ \A b \in Assets : obj[b] \notin {"never", "awaited"} => obj'[b] \notin {"never", "awaited"}
      /\ \A b \in Assets : obj'[b] \in {"plain", "orphaned"} => obj'[b] = obj[b]
      /\ \A b \in Assets : b \in Stored' /\ obj[b] # "awaited" => obj'[b] = obj[b]
      /\ \A b \in Assets : b \in Stored' => b \in Stored \/ obj[b] = "awaited"
  BY <1>0 DEF Outside, CreateUploadUrl, Put, GrowsOld, Expires, PastUpload, Stored, TypeOK
<1>2. /\ Rows \subseteq Rows'
      /\ \A b \in Rows' : \/ b \in Rows /\ row'[b].confirmed = row[b].confirmed
                                        /\ row'[b].orphaned = row[b].orphaned
                          \/ ~row'[b].confirmed /\ ~row'[b].orphaned /\ obj[b] = "never"
                               /\ obj'[b] = "awaited"
  <2>1. CASE CreateUploadUrl(a)
    BY <1>0, <2>1 DEF CreateUploadUrl, TypeOK, Rows, NewRow
  <2>2. CASE Put(a) \/ Expires(a)
    BY <1>0, <2>2 DEF Put, Expires, Rows
  <2>3. CASE GrowsOld(a)
    <3> DEFINE r == [row[a] EXCEPT !.old = TRUE]
    <3>1. row[a] \in RowTypes /\ row' = [row EXCEPT ![a] = r]
      BY <1>0, <2>3 DEF GrowsOld, Rows, TypeOK
    <3>2. r \in RowTypes /\ r.confirmed = row[a].confirmed /\ r.orphaned = row[a].orphaned
      BY <3>1 DEF RowTypes
    <3> HIDE DEF r
    <3>3. /\ row'[a] \in RowTypes
          /\ row'[a].confirmed = row[a].confirmed /\ row'[a].orphaned = row[a].orphaned
          /\ \A b \in Assets : b # a => row'[b] = row[b]
      BY <1>0, <3>1, <3>2 DEF TypeOK
    <3>4. None \notin RowTypes
      BY MediaAssumption
    <3>5. a \in Rows /\ Rows \subseteq Rows' /\ Rows' \subseteq Rows
      BY <2>3, <3>3, <3>4 DEF Rows, GrowsOld
    <3>6. QED
      BY <3>3, <3>5 DEF Rows
  <2>4. QED
    BY <2>1, <2>2, <2>3 DEF Outside
<1>3. UploadOver'
  <2>1. \A w \in Workers : Aimed(w) => job[w].asset \in Assets
    BY <1>0 DEF UploadOver
  <2>2. \A w \in Workers : Aimed(w)' => job'[w].asset \in Assets
    BY <1>0, <2>1 DEF Aimed
  <2>3. \A b \in Rows' : row'[b].confirmed => PastUpload(b)'
    BY <1>0, <1>1, <1>2 DEF UploadOver, Rows
  <2>4. \A w \in Workers, act \in Acts, b \in Assets : <<act, b>> \in job'[w].plan => PastUpload(b)'
    BY <1>0, <1>1 DEF UploadOver
  <2>5. \A w \in Workers : job'[w].pc \in {"stamp", "untag", "tag"} => PastUpload(job[w].asset)'
    BY <1>0, <1>1, <2>1 DEF UploadOver, Aimed, PastUpload
  <2>6. \A w \in Workers : job'[w].pc = "clear" => obj'[job'[w].asset] \notin {"never", "awaited"}
    BY <1>0, <1>1, <2>1 DEF UploadOver, Aimed
  <2>7. \A w \in Workers : job'[w].pc = "reap" => obj'[job'[w].asset] = "absent"
    BY <1>0, <1>1, <2>1 DEF UploadOver, Aimed
  <2>8. QED
    BY <2>2, <2>3, <2>4, <2>5, <2>6, <2>7 DEF UploadOver
<1>4. SUFFICES ASSUME ~disturbed' PROVE Calm'
  BY <1>3
<1>5. Calm
  BY <1>0, <1>4
<1>6. \A b \in Rows : row[b].orphaned => PastUpload(b)
  BY <1>0 DEF TypeOK, UploadOver
<1>7. TagMatchesRow'
  BY <1>0, <1>1, <1>2, <1>5, <1>6 DEF Calm, TagMatchesRow, Busy, PastUpload, Stored, Rows
<1>8. NoUntrackedObject'
  BY <1>0, <1>1, <1>2, <1>5 DEF Calm, NoUntrackedObject, Rows
<1>9. HalfWritten'
  <2>1. \A w \in Workers : job[w].pc \in {"clear", "delete", "untag", "tag"} => job[w].asset \in Assets
    BY <1>0 DEF UploadOver, Aimed
  <2>2. \A w \in Workers : job[w].pc \in {"untag", "tag"} => obj[job[w].asset] # "never"
    BY <1>0 DEF UploadOver, PastUpload
  <2>3. \A w \in Workers : job[w].pc = "clear" => obj[job[w].asset] # "awaited"
    BY <1>0 DEF UploadOver
  <2>4. QED
    BY <1>0, <1>1, <1>2, <1>5, <2>1, <2>2, <2>3 DEF Calm, HalfWritten, InPass, Confirming, Deleting
<1>10. RescuesAhead'
  BY <1>0, <1>1, <1>2, <1>5 DEF Calm, RescuesAhead, Rows
<1>11. QED
  BY <1>7, <1>8, <1>9, <1>10 DEF Calm

LEMMA EditTag ==
  ASSUME TagIInv, NEW a \in Assets, NEW s \in Drafts, Edit(s, a)
  PROVE  UploadOver' /\ (~disturbed' => Calm')
<1>1. /\ UNCHANGED <<row, obj, job, faults, disturbed>>
      /\ \A v \in Workers : steady'[v] \subseteq steady[v]
  BY DEF Edit, SetRefs, stores, Standing
<1>2. UploadOver'
  BY <1>1, TagMeans DEF UploadOver, Aimed, PastUpload, Rows
<1>3. ~disturbed' => Calm'
  BY <1>1, TagMeans DEF Calm, TagMatchesRow, Busy, NoUntrackedObject, HalfWritten, RescuesAhead,
       Rows, Stored, InPass, Confirming, Deleting
<1>4. QED
  BY <1>2, <1>3

(* An upload that is over stays over, what is gone stays gone.             *)
ObjForward ==
  \A b \in Assets :
    /\ PastUpload(b) => PastUpload(b)'
    /\ obj[b] = "absent" => obj'[b] = "absent"
    /\ obj[b] \notin {"never", "awaited"} => obj'[b] \notin {"never", "awaited"}

(* UploadOver, for a step of worker w that makes j of its job.             *)
LEMMA UploadKept ==
  ASSUME TypeOK, UploadOver, NEW w \in Workers, NEW j \in JobTypes, Goto(w, j), ObjForward,
         \A b \in Rows' : row'[b].confirmed => obj'[b] \in {"absent", "plain", "orphaned"},
         \A act \in Acts, b \in Assets :
           <<act, b>> \in j.plan => obj'[b] \in {"absent", "plain", "orphaned"},
         j.pc \in {"clear", "stamp", "delete", "untag", "tag", "reap"} => j.asset \in Assets,
         j.pc \in {"stamp", "untag", "tag"} => obj'[j.asset] \in {"absent", "plain", "orphaned"},
         j.pc = "clear" => obj'[j.asset] \notin {"never", "awaited"},
         j.pc = "reap" => obj'[j.asset] = "absent"
  PROVE  UploadOver'
<1>1. /\ job' \in [Workers -> JobTypes] /\ job'[w] = j
      /\ \A v \in Workers : v # w => job'[v] = job[v]
  BY GotoEffect
<1>2. \A v \in Workers : Aimed(v)' => job'[v].asset \in Assets
  BY <1>1 DEF UploadOver, Aimed
<1>3. \A b \in Rows' : row'[b].confirmed => PastUpload(b)'
  BY DEF PastUpload
<1>4. \A v \in Workers, act \in Acts, b \in Assets :
        <<act, b>> \in job'[v].plan => PastUpload(b)'
  BY <1>1 DEF UploadOver, ObjForward, PastUpload
<1>5. \A v \in Workers : job'[v].pc \in {"stamp", "untag", "tag"} => PastUpload(job[v].asset)'
  BY <1>1 DEF UploadOver, ObjForward, Aimed, PastUpload
<1>6. \A v \in Workers : job'[v].pc = "clear" => obj'[job'[v].asset] \notin {"never", "awaited"}
  BY <1>1 DEF UploadOver, ObjForward, Aimed
<1>7. \A v \in Workers : job'[v].pc = "reap" => obj'[job'[v].asset] = "absent"
  BY <1>1 DEF UploadOver, ObjForward, Aimed
<1>8. QED
  BY <1>2, <1>3, <1>4, <1>5, <1>6, <1>7 DEF UploadOver

(* A step that only moves w, between two assets or outside any pass.       *)
LEMMA CalmMove ==
  ASSUME TypeOK, UploadOver, Calm, NEW w \in Workers, NEW j \in JobTypes, Goto(w, j),
         UNCHANGED <<row, obj, steady, disturbed>>,
         j.pc \in PassSteps => InPass(w),
         job[w].pc \notin {"untag", "tag"},
         j.pc \notin {"clear", "stamp", "delete", "untag", "tag"},
         j.pc \in {"loop", "reap"} =>
           job[w].pc = "loop" /\ \A b \in Assets : <<"rescue", b>> \in job[w].plan => <<"rescue", b>> \in j.plan
  PROVE  Calm'
<1>1. /\ job' \in [Workers -> JobTypes] /\ job'[w] = j
      /\ \A v \in Workers : v # w => job'[v] = job[v]
  BY GotoEffect
<1>2. Rows' = Rows /\ Stored' = Stored /\ \A b \in Assets : Busy(b)' <=> Busy(b)
  BY <1>1 DEF Rows, Stored, Busy
<1>3. TagMatchesRow' /\ NoUntrackedObject'
  BY <1>2 DEF Calm, TagMatchesRow, NoUntrackedObject, Rows
<1>4. HalfWritten'
  <2>1. \A v \in Workers : InPass(v)' => InPass(v)
    BY <1>1 DEF InPass
  <2>2. \A v \in Workers, b \in Assets :
          (Confirming(v, b)' => Confirming(v, b)) /\ (Deleting(v, b)' => Deleting(v, b))
    BY <1>1 DEF Confirming, Deleting
  <2>3. QED
    BY <1>1, <1>2, <2>1, <2>2 DEF Calm, HalfWritten
<1>5. RescuesAhead'
  BY <1>1, <1>2 DEF Calm, RescuesAhead, Rows
<1>6. QED
  BY <1>3, <1>4, <1>5 DEF Calm

LEMMA ConfirmStartsTag ==
  ASSUME TagIInv, NEW w \in Workers, NEW a \in Assets, ConfirmStarts(w, a)
  PROVE  UploadOver' /\ (~disturbed' => Calm')
<1> DEFINE j == [Idle EXCEPT !.pc = "clear", !.asset = a]
<1>0. TypeOK /\ PassIInv /\ UploadOver /\ (~disturbed => Calm)
  BY TagMeans
<1>1. j \in JobTypes /\ j.plan = {} /\ j.pc = "clear" /\ j.asset = a
  BY IdleType DEF Idle, JobTypes
<1>2. /\ Goto(w, j) /\ UNCHANGED <<row, obj, refs, steady>> /\ a \in Rows /\ a \in Stored
      /\ ~disturbed' => ~disturbed /\ \A v \in Workers : ~Deleting(v, a)
      /\ job[w].pc = "idle"
  <2>1. Goto(w, j) /\ UNCHANGED <<row, obj, refs, steady>> /\ a \in Rows /\ a \in Stored
    BY DEF ConfirmStarts, stores, DisturbedIf
  <2>2. job[w].pc = "idle"
    BY DEF ConfirmStarts, Idle
  <2>3. disturbed' = (disturbed \/ \E v \in Workers : Deleting(v, a))
    BY DEF ConfirmStarts, DisturbedIf
  <2>4. QED
    BY <2>1, <2>2, <2>3
<1> HIDE DEF j
<1>3. /\ job' \in [Workers -> JobTypes] /\ job'[w] = j
      /\ \A v \in Workers : v # w => job'[v] = job[v]
  BY <1>0, <1>1, <1>2, GotoEffect
<1>4. UploadOver'
  <2>1. ObjForward
    BY <1>2 DEF ObjForward, PastUpload
  <2>2. QED
    BY <1>0, <1>1, <1>2, <2>1, UploadKept DEF UploadOver, PastUpload, Stored, Rows
<1>5. ASSUME ~disturbed' PROVE Calm'
  <2>1. Calm /\ Rows' = Rows /\ Stored' = Stored
    BY <1>0, <1>2, <1>5 DEF Rows, Stored
  <2>2. \A b \in Assets : Busy(b)' <=> Busy(b)
    BY <1>1, <1>2, <1>3 DEF Busy
  <2>3. TagMatchesRow' /\ NoUntrackedObject'
    BY <1>2, <2>1, <2>2 DEF Calm, TagMatchesRow, NoUntrackedObject, Rows
  <2>4. HalfWritten'
    <3>1. \A v \in Workers : InPass(v)' => InPass(v)
      BY <1>1, <1>3 DEF InPass, PassSteps, Sources
    <3>2. \A u, v \in Workers, b \in Assets : ~(Confirming(u, b)' /\ Deleting(v, b)')
      BY <1>1, <1>2, <1>3, <1>5, <2>1 DEF Calm, HalfWritten, Confirming, Deleting
    <3>3. QED
      BY <1>1, <1>2, <1>3, <2>1, <3>1, <3>2 DEF Calm, HalfWritten
  <2>5. RescuesAhead'
    BY <1>1, <1>2, <1>3, <2>1 DEF Calm, RescuesAhead
  <2>6. QED
    BY <2>3, <2>4, <2>5 DEF Calm
<1>6. QED
  BY <1>4, <1>5

(* The tags go: from here on a is neither awaited nor tagged.  Undisturbed *)
(* its row, if still there, is not confirmed and so not marked either.     *)
LEMMA ConfirmClearsTag ==
  ASSUME TagIInv, NEW w \in Workers, ConfirmClears(w)
  PROVE  UploadOver' /\ (~disturbed' => Calm')
<1> DEFINE a == job[w].asset
<1>0. TypeOK /\ PassIInv /\ UploadOver /\ (~disturbed => Calm)
  BY TagMeans
<1>1. job[w].pc = "clear" /\ a \in Assets
  BY <1>0 DEF ConfirmClears, UploadOver, Aimed
<1>2. /\ UNCHANGED <<row, refs, steady>>
      /\ ~disturbed' => ~disturbed /\ ~(a \in Rows /\ row[a].confirmed)
  BY DEF ConfirmClears, DisturbedIf
<1>3. PICK j \in JobTypes : /\ Goto(w, j) /\ j.plan = job[w].plan
                            /\ \/ /\ j.pc = "stamp" /\ j.asset = a /\ a \in Stored
                                  /\ obj'[a] = "plain" /\ \A b \in Assets : b # a => obj'[b] = obj[b]
                               \/ j.pc = "idle" /\ a \notin Stored /\ UNCHANGED obj
  <2>1. CASE a \in Stored
    <3> DEFINE j == [job[w] EXCEPT !.pc = "stamp"]
    <3>1. j \in JobTypes /\ j.plan = job[w].plan /\ j.pc = "stamp" /\ j.asset = a
      BY <1>0 DEF TypeOK, JobTypes
    <3>2. Goto(w, j) /\ obj'[a] = "plain" /\ \A b \in Assets : b # a => obj'[b] = obj[b]
      BY <1>0, <1>1, <2>1 DEF ConfirmClears, At, ClearTags, TypeOK
    <3> HIDE DEF j
    <3>3. QED
      BY <2>1, <3>1, <3>2
  <2>2. CASE a \notin Stored
    <3>1. job[w].plan = {}
      BY <1>0, <1>1 DEF PassIInv, PlansLate
    <3>2. QED
      BY <2>2, <3>1, IdleType DEF ConfirmClears, Done, Idle
  <2>3. QED
    BY <2>1, <2>2
<1> HIDE DEF a
<1>4. /\ job' \in [Workers -> JobTypes] /\ job'[w] = j
      /\ \A v \in Workers : v # w => job'[v] = job[v]
  BY <1>0, <1>3, GotoEffect
<1>5. UploadOver'
  <2>1. ObjForward
    BY <1>1, <1>3 DEF ObjForward, PastUpload, Stored
  <2>2. Rows' = Rows
    BY <1>2 DEF Rows
  <2>3. \A b \in Rows' : row'[b].confirmed => obj'[b] \in {"absent", "plain", "orphaned"}
    BY <1>0, <1>2, <2>1, <2>2 DEF UploadOver, PastUpload, ObjForward, Rows
  <2>4. \A act \in Acts, b \in Assets :
          <<act, b>> \in j.plan => obj'[b] \in {"absent", "plain", "orphaned"}
    BY <1>0, <1>3, <2>1 DEF UploadOver, PastUpload, ObjForward
  <2>5. QED
    BY <1>0, <1>1, <1>3, <2>1, <2>3, <2>4, UploadKept
<1>6. ASSUME ~disturbed' PROVE Calm'
  <2>0. Calm /\ Rows' = Rows /\ ~disturbed
    BY <1>0, <1>2, <1>6 DEF Rows
  <2>1. \A b \in Assets : Busy(b)' <=> Busy(b)
    BY <1>1, <1>3, <1>4 DEF Busy
  <2>2. \A b \in Assets : b # a => obj'[b] = obj[b]
    BY <1>3
  <2>3. a \in Stored => a \in Rows /\ ~row[a].orphaned
    BY <1>0, <1>1, <1>2, <1>6, <2>0 DEF Calm, HalfWritten, TypeOK, a
  <2>4. TagMatchesRow'
    BY <1>1, <1>2, <1>3, <2>0, <2>1, <2>2, <2>3 DEF Calm, TagMatchesRow, Rows, Stored
  <2>5. NoUntrackedObject'
    BY <1>1, <1>2, <1>3, <2>0, <2>2, <2>3 DEF Calm, NoUntrackedObject, Rows
  <2>6. HalfWritten'
    <3>1. \A v \in Workers : InPass(v)' => InPass(v)
      BY <1>3, <1>4 DEF InPass, PassSteps, Sources
    <3>2. \A u, v \in Workers, b \in Assets : ~(Confirming(u, b)' /\ Deleting(v, b)')
      BY <1>1, <1>3, <1>4, <2>0 DEF Calm, HalfWritten, Confirming, Deleting, a
    <3>3. \A v \in Workers : job'[v].pc \in {"clear", "delete", "untag", "tag"} =>
             v # w /\ job'[v] = job[v] /\ job[v].asset \in Assets
      BY <1>0, <1>3, <1>4 DEF UploadOver, Aimed
    <3>4. \A v \in Workers : job'[v].pc = "clear" => job'[v].asset \in Rows' \/ job'[v].asset \notin Stored'
      BY <1>1, <1>3, <2>0, <2>2, <2>3, <3>3 DEF Calm, HalfWritten, Stored
    <3>5. \A v \in Workers : job'[v].pc = "delete" => job'[v].asset # a
      BY <1>1, <2>0, <3>3 DEF Calm, HalfWritten, Confirming, Deleting, a
    <3>6. \A v \in Workers : job'[v].pc = "delete" => obj'[job'[v].asset] \notin {"plain", "orphaned"}
      BY <2>0, <2>2, <3>3, <3>5 DEF Calm, HalfWritten
    <3>7. \A v \in Workers : job'[v].pc \in {"untag", "tag"} /\ job'[v].asset \in Rows' =>
             (row'[job'[v].asset].orphaned <=> job'[v].pc = "tag")
      BY <1>2, <2>0, <3>3 DEF Calm, HalfWritten
    <3>8. QED
      BY <2>0, <3>1, <3>2, <3>4, <3>6, <3>7 DEF Calm, HalfWritten
  <2>7. RescuesAhead'
    BY <1>2, <1>3, <1>4, <2>0 DEF Calm, RescuesAhead
  <2>8. QED
    BY <2>4, <2>5, <2>6, <2>7 DEF Calm
<1>7. QED
  BY <1>5, <1>6

LEMMA ConfirmStampsTag ==
  ASSUME TagIInv, NEW w \in Workers, ConfirmStamps(w)
  PROVE  UploadOver' /\ (~disturbed' => Calm')
<1> DEFINE a == job[w].asset
<1>0. TypeOK /\ PassIInv /\ UploadOver /\ (~disturbed => Calm)
  BY TagMeans
<1>1. /\ job[w].pc = "stamp" /\ a \in Assets /\ PastUpload(a)
      /\ Goto(w, Idle) /\ Idle.plan = {} /\ Idle.pc = "idle"
      /\ UNCHANGED <<obj, refs, steady, disturbed>>
  BY <1>0 DEF ConfirmStamps, UploadOver, Aimed, Done, Idle, Quiet
<1>2. /\ job' \in [Workers -> JobTypes] /\ job'[w] = Idle
      /\ \A v \in Workers : v # w => job'[v] = job[v]
  BY <1>0, <1>1, IdleType, GotoEffect
<1>3. /\ Rows' = Rows
      /\ \A b \in Rows : row'[b].orphaned = row[b].orphaned
      /\ \A b \in Rows : b # a => row'[b] = row[b]
  <2>1. CASE a \in Rows
    <3> DEFINE r == [row[a] EXCEPT !.confirmed = TRUE]
    <3>1. row[a] \in RowTypes /\ row' = [row EXCEPT ![a] = r]
      BY <1>0, <2>1 DEF ConfirmStamps, Rows, TypeOK
    <3>2. r \in RowTypes /\ r.orphaned = row[a].orphaned
      BY <3>1 DEF RowTypes
    <3> HIDE DEF r
    <3>3. /\ row'[a] \in RowTypes /\ row'[a].orphaned = row[a].orphaned
          /\ \A b \in Assets : b # a => row'[b] = row[b]
      BY <1>0, <1>1, <3>1, <3>2 DEF TypeOK
    <3>4. None \notin RowTypes
      BY MediaAssumption
    <3>5. QED
      BY <2>1, <3>3, <3>4 DEF Rows
  <2>2. CASE a \notin Rows
    BY <2>2 DEF ConfirmStamps, Rows
  <2>3. QED
    BY <2>1, <2>2
<1> HIDE DEF a
<1>4. UploadOver'
  <2>1. ObjForward
    BY <1>1 DEF ObjForward, PastUpload
  <2>2. \A b \in Rows' : row'[b].confirmed => obj'[b] \in {"absent", "plain", "orphaned"}
    BY <1>0, <1>1, <1>3 DEF UploadOver, PastUpload
  <2>3. QED
    BY <1>0, <1>1, <2>1, <2>2, IdleType, UploadKept
<1>5. ASSUME ~disturbed' PROVE Calm'
  <2>1. Calm /\ ~disturbed /\ Stored' = Stored
    BY <1>0, <1>1, <1>5 DEF Stored
  <2>2. \A b \in Assets : Busy(b)' <=> Busy(b)
    BY <1>1, <1>2 DEF Busy
  <2>3. TagMatchesRow' /\ NoUntrackedObject'
    BY <1>1, <1>3, <2>1, <2>2 DEF Calm, TagMatchesRow, NoUntrackedObject, Rows
  <2>4. HalfWritten'
    <3>1. \A v \in Workers : InPass(v)' => InPass(v)
      BY <1>1, <1>2 DEF InPass, PassSteps, Sources
    <3>2. \A u, v \in Workers, b \in Assets : ~(Confirming(u, b)' /\ Deleting(v, b)')
      BY <1>1, <1>2, <2>1 DEF Calm, HalfWritten, Confirming, Deleting
    <3>3. QED
      BY <1>1, <1>2, <1>3, <2>1, <3>1, <3>2 DEF Calm, HalfWritten
  <2>5. RescuesAhead'
    BY <1>1, <1>2, <1>3, <2>1 DEF Calm, RescuesAhead
  <2>6. QED
    BY <2>3, <2>4, <2>5 DEF Calm
<1>6. QED
  BY <1>4, <1>5

(* The object goes (unless a PUT is still awaited), and nobody confirms a. *)
LEMMA DeleteStartsTag ==
  ASSUME TagIInv, NEW w \in Workers, NEW a \in Assets, DeleteStarts(w, a)
  PROVE  UploadOver' /\ (~disturbed' => Calm')
<1> DEFINE j == [Idle EXCEPT !.pc = "delete", !.asset = a]
<1>0. TypeOK /\ PassIInv /\ UploadOver /\ (~disturbed => Calm)
  BY TagMeans
<1>1. j \in JobTypes /\ j.plan = {} /\ j.pc = "delete" /\ j.asset = a
  BY IdleType DEF Idle, JobTypes
<1>2. /\ Goto(w, j) /\ UNCHANGED <<row, refs, steady>> /\ a \in Rows /\ job[w].pc = "idle"
      /\ ~disturbed' => ~disturbed /\ \A v \in Workers : ~Confirming(v, a)
  <2>1. Goto(w, j) /\ UNCHANGED <<row, refs, steady>> /\ a \in Rows
    BY DEF DeleteStarts, DisturbedIf
  <2>2. job[w].pc = "idle"
    BY DEF DeleteStarts, Idle
  <2>3. disturbed' = (disturbed \/ \E v \in Workers : Confirming(v, a))
    BY DEF DeleteStarts, DisturbedIf
  <2>4. QED
    BY <2>1, <2>2, <2>3
<1>3. /\ obj'[a] = IF obj[a] = "awaited" THEN "awaited" ELSE "absent"
      /\ \A b \in Assets : b # a => obj'[b] = obj[b]
  BY <1>0 DEF DeleteStarts, TypeOK
<1> HIDE DEF j
<1>4. /\ job' \in [Workers -> JobTypes] /\ job'[w] = j
      /\ \A v \in Workers : v # w => job'[v] = job[v]
  BY <1>0, <1>1, <1>2, GotoEffect
<1>5. UploadOver'
  <2>1. ObjForward
    BY <1>3 DEF ObjForward, PastUpload
  <2>2. Rows' = Rows
    BY <1>2 DEF Rows
  <2>3. \A b \in Rows' : row'[b].confirmed => obj'[b] \in {"absent", "plain", "orphaned"}
    BY <1>0, <1>2, <2>1, <2>2 DEF UploadOver, PastUpload, ObjForward, Rows
  <2>4. QED
    BY <1>0, <1>1, <1>2, <2>1, <2>3, UploadKept
<1>6. ASSUME ~disturbed' PROVE Calm'
  <2>1. Calm /\ Rows' = Rows /\ \A b \in Stored' : b \in Stored /\ b # a
    BY <1>0, <1>2, <1>3, <1>6 DEF Rows, Stored
  <2>2. \A b \in Assets : Busy(b)' <=> Busy(b)
    BY <1>1, <1>2, <1>4 DEF Busy
  <2>3. TagMatchesRow' /\ NoUntrackedObject'
    BY <1>2, <1>3, <2>1, <2>2 DEF Calm, TagMatchesRow, NoUntrackedObject, Rows
  <2>4. HalfWritten'
    <3>1. \A v \in Workers : InPass(v)' => InPass(v)
      BY <1>1, <1>4 DEF InPass, PassSteps, Sources
    <3>2. \A u, v \in Workers, b \in Assets : ~(Confirming(u, b)' /\ Deleting(v, b)')
      BY <1>1, <1>2, <1>4, <1>6, <2>1 DEF Calm, HalfWritten, Confirming, Deleting
    <3>3. \A v \in Workers : job'[v].pc \in {"clear", "untag", "tag"} => job'[v] = job[v] /\ v # w
      BY <1>1, <1>4
    <3>4. \A v \in Workers : job'[v].pc = "clear" => job'[v].asset \in Rows' \/ job'[v].asset \notin Stored'
      BY <2>1, <3>3 DEF Calm, HalfWritten
    <3>5. \A v \in Workers : job'[v].pc = "delete" => obj'[job'[v].asset] \notin {"plain", "orphaned"}
      BY <1>0, <1>1, <1>3, <1>4, <2>1 DEF Calm, HalfWritten, UploadOver, Aimed
    <3>6. \A v \in Workers : job'[v].pc \in {"untag", "tag"} /\ job'[v].asset \in Rows' =>
             (row'[job'[v].asset].orphaned <=> job'[v].pc = "tag")
      BY <1>2, <2>1, <3>3 DEF Calm, HalfWritten
    <3>7. QED
      BY <2>1, <3>1, <3>2, <3>4, <3>5, <3>6 DEF Calm, HalfWritten
  <2>5. RescuesAhead'
    BY <1>1, <1>2, <1>4, <2>1 DEF Calm, RescuesAhead
  <2>6. QED
    BY <2>3, <2>4, <2>5 DEF Calm
<1>7. QED
  BY <1>5, <1>6

(* A row goes, because its object has: at the end of a deletion, and when  *)
(* the pass has found an orphan expired.                                   *)
LEMMA RowGoesTag ==
  ASSUME TagIInv, NEW w \in Workers, NEW j \in JobTypes, Goto(w, j),
         row' = [row EXCEPT ![job[w].asset] = None], ClearCovers(job[w].asset),
         UNCHANGED <<obj, disturbed>>,
         job[w].pc \in {"delete", "reap"},
         j.pc = "idle" \/ (j.pc = "loop" /\ job[w].pc = "reap"),
         j.plan = job[w].plan
  PROVE  UploadOver' /\ (~disturbed' => Calm')
<1> DEFINE a == job[w].asset
<1>0. TypeOK /\ PassIInv /\ UploadOver /\ (~disturbed => Calm)
  BY TagMeans
<1>1. /\ job' \in [Workers -> JobTypes] /\ job'[w] = j
      /\ \A v \in Workers : v # w => job'[v] = job[v]
  BY <1>0, GotoEffect
<1>2. a \in Assets
  BY <1>0 DEF UploadOver, Aimed
<1> HIDE DEF a
<1>3. Rows' = Rows \ {a} /\ \A b \in Rows' : row'[b] = row[b]
  BY <1>0, <1>2 DEF Rows, TypeOK, a
<1>4. UploadOver'
  <2>1. ObjForward
    BY DEF ObjForward, PastUpload
  <2>2. \A b \in Rows' : row'[b].confirmed => obj'[b] \in {"absent", "plain", "orphaned"}
    BY <1>0, <1>3 DEF UploadOver, PastUpload
  <2>3. \A act \in Acts, b \in Assets :
          <<act, b>> \in j.plan => obj'[b] \in {"absent", "plain", "orphaned"}
    BY <1>0 DEF UploadOver, PastUpload
  <2>4. QED
    BY <1>0, <2>1, <2>2, <2>3, UploadKept
<1>5. ASSUME ~disturbed' PROVE Calm'
  <2>1. Calm /\ ~disturbed /\ Stored' = Stored
    BY <1>0, <1>5 DEF Stored
  <2>2. \A b \in Assets : Busy(b)' <=> Busy(b)
    BY <1>1 DEF Busy
  <2>3. obj[a] \notin {"plain", "orphaned"}
    BY <1>0, <2>1 DEF Calm, HalfWritten, UploadOver, a
  <2>4. TagMatchesRow' /\ NoUntrackedObject'
    BY <1>3, <2>1, <2>2, <2>3 DEF Calm, TagMatchesRow, NoUntrackedObject, Rows
  <2>5. HalfWritten'
    <3>1. \A v \in Workers : InPass(v)' => InPass(v)
      BY <1>1 DEF InPass, PassSteps, Sources
    <3>2. \A u, v \in Workers, b \in Assets : ~(Confirming(u, b)' /\ Deleting(v, b)')
      BY <1>1, <2>1 DEF Calm, HalfWritten, Confirming, Deleting
    <3>3. \A v \in Workers : job'[v].pc \in {"clear", "delete", "untag", "tag"} => job'[v] = job[v] /\ v # w
      BY <1>1
    <3>4. \A v \in Workers : job[v].pc = "clear" => job[v].asset # a \/ a \notin Stored
      BY <1>0, <1>2, <2>1 DEF Calm, HalfWritten, Confirming, Deleting, UploadOver, Stored, a
    <3>5. \A v \in Workers : job'[v].pc = "clear" => job'[v].asset \in Rows' \/ job'[v].asset \notin Stored'
      BY <1>3, <2>1, <3>3, <3>4 DEF Calm, HalfWritten
    <3>6. \A v \in Workers : job'[v].pc = "delete" => obj'[job'[v].asset] \notin {"plain", "orphaned"}
      BY <2>1, <3>3 DEF Calm, HalfWritten
    <3>7. \A v \in Workers : job'[v].pc \in {"untag", "tag"} /\ job'[v].asset \in Rows' =>
             (row'[job'[v].asset].orphaned <=> job'[v].pc = "tag")
      BY <1>3, <2>1, <3>3 DEF Calm, HalfWritten
    <3>8. QED
      BY <2>1, <3>1, <3>2, <3>5, <3>6, <3>7 DEF Calm, HalfWritten
  <2>6. RescuesAhead'
    <3>1. \A v \in Workers : steady'[v] \subseteq steady[v]
      BY <1>0, CoversGo DEF RefsOnlyGo, a
    <3>2. \A v \in Workers : job'[v].plan = job[v].plan
      BY <1>1
    <3>3. \A v \in Workers : job'[v].pc \in {"loop", "untag", "tag", "reap"} =>
             job[v].pc \in {"loop", "untag", "tag", "reap"}
      BY <1>1
    <3>4. QED
      BY <1>3, <2>1, <3>1, <3>2, <3>3 DEF Calm, RescuesAhead
  <2>7. QED
    BY <2>4, <2>5, <2>6 DEF Calm
<1>6. QED
  BY <1>4, <1>5

(* A pass begins: undisturbed it is the only one, and has planned nothing. *)
LEMMA BeginTag ==
  ASSUME TagIInv, NEW w \in Workers, NEW r \in [Sources -> SUBSET Assets],
         BeginPass(w, r), UNCHANGED stores, job[w].pc \in {"idle", "publish"}
  PROVE  UploadOver' /\ (~disturbed' => Calm')
<1> DEFINE j == [Idle EXCEPT !.pc = "sections"]
<1>0. TypeOK /\ PassIInv /\ UploadOver /\ (~disturbed => Calm)
  BY TagMeans
<1>1. j \in JobTypes /\ j.plan = {} /\ j.pc = "sections"
  BY IdleType DEF Idle, JobTypes, PassSteps, Sources
<1>2. /\ Goto(w, j) /\ UNCHANGED <<row, obj>>
      /\ \A v \in Workers : v # w => steady'[v] \subseteq steady[v]
  BY DEF BeginPass, stores, Standing
<1>3. ~disturbed' => ~disturbed /\ \A v \in Workers : v # w => ~InPass(v)
  <2>1. disturbed' = (disturbed \/ \E v \in Workers \ {w} : InPass(v))
    BY DEF BeginPass
  <2>2. QED
    BY <2>1
<1> HIDE DEF j
<1>4. /\ job' \in [Workers -> JobTypes] /\ job'[w] = j
      /\ \A v \in Workers : v # w => job'[v] = job[v]
  BY <1>0, <1>1, <1>2, GotoEffect
<1>5. UploadOver'
  <2>1. ObjForward
    BY <1>2 DEF ObjForward, PastUpload
  <2>2. QED
    BY <1>0, <1>1, <1>2, <2>1, UploadKept DEF UploadOver, PastUpload, Rows
<1>6. ASSUME ~disturbed' PROVE Calm'
  <2>1. Calm /\ ~disturbed /\ Rows' = Rows /\ Stored' = Stored /\ \A v \in Workers : v # w => ~InPass(v)
    BY <1>0, <1>2, <1>3, <1>6 DEF Rows, Stored
  <2>2. \A b \in Assets : Busy(b)' <=> Busy(b)
    BY <1>1, <1>4 DEF Busy
  <2>3. TagMatchesRow' /\ NoUntrackedObject'
    BY <1>2, <2>1, <2>2 DEF Calm, TagMatchesRow, NoUntrackedObject, Rows
  <2>4. HalfWritten'
    <3>1. \A v \in Workers : InPass(v)' => v = w
      BY <1>4, <2>1 DEF InPass
    <3>2. \A u, v \in Workers, b \in Assets : ~(Confirming(u, b)' /\ Deleting(v, b)')
      BY <1>1, <1>4, <2>1 DEF Calm, HalfWritten, Confirming, Deleting
    <3>3. QED
      BY <1>1, <1>2, <1>4, <2>1, <3>1, <3>2 DEF Calm, HalfWritten
  <2>5. RescuesAhead'
    BY <1>1, <1>4, <2>1 DEF RescuesAhead, InPass, PassSteps
  <2>6. QED
    BY <2>3, <2>4, <2>5 DEF Calm
<1>7. QED
  BY <1>5, <1>6

LEMMA RequestTag ==
  ASSUME TagIInv, NEW w \in Workers, Request(w)
  PROVE  UploadOver' /\ (~disturbed' => Calm')
<1>0. TypeOK /\ PassIInv /\ UploadOver /\ (~disturbed => Calm)
  BY TagMeans
<1>1. ASSUME NEW a \in Assets, ConfirmStarts(w, a) \/ DeleteStarts(w, a)
      PROVE  UploadOver' /\ (~disturbed' => Calm')
  BY <1>1, ConfirmStartsTag, DeleteStartsTag
<1>2. CASE ConfirmClears(w) \/ ConfirmStamps(w)
  BY <1>2, ConfirmClearsTag, ConfirmStampsTag
<1>3. CASE DeleteEnds(w)
  <2>1. job[w].plan = {} /\ job[w].pc = "delete"
    BY <1>0, <1>3 DEF DeleteEnds, PassIInv, PlansLate
  <2>2. Idle.plan = {} /\ Idle.pc = "idle"
    BY DEF Idle
  <2>3. QED
    <3>1. /\ row' = [row EXCEPT ![job[w].asset] = None] /\ ClearCovers(job[w].asset)
          /\ Goto(w, Idle) /\ UNCHANGED <<obj, disturbed>>
      BY <1>3 DEF DeleteEnds, Done
    <3>2. /\ job[w].pc \in {"delete", "reap"} /\ Idle.plan = job[w].plan
          /\ \/ Idle.pc = "idle"
             \/ Idle.pc = "loop" /\ job[w].pc = "reap"
      BY <2>1, <2>2
    <3>3. QED
      BY <3>1, <3>2, IdleType, RowGoesTag
<1>4. CASE Sweep(w)
  <2>1. job[w].pc = "idle"
    BY <1>4 DEF Sweep, Idle
  <2>2. QED
    BY <1>0, <1>4, <2>1, BeginTag DEF Sweep, TypeOK
<1>5. CASE PublishReads(w)
  <2>1. PICK doc \in SUBSET (refs["sections"] \cup refs["items"]) :
               Goto(w, [Idle EXCEPT !.pc = "publish", !.seen = doc])
    BY <1>5 DEF PublishReads
  <2> DEFINE j == [Idle EXCEPT !.pc = "publish", !.seen = doc]
  <2>2. doc \in SUBSET Assets
    BY <1>0 DEF TypeOK, Sources
  <2>3. j \in JobTypes /\ j.plan = {} /\ j.pc = "publish"
    BY <2>2, IdleType DEF Idle, JobTypes
  <2>4. Goto(w, j) /\ UNCHANGED <<row, obj, refs, steady, faults, disturbed>> /\ job[w].pc = "idle"
    BY <1>5, <2>1 DEF PublishReads, stores, Quiet, Idle
  <2>5. "publish" \notin PassSteps
    BY DEF PassSteps, Sources
  <2> HIDE DEF j
  <2>6. UploadOver'
    <3>1. ObjForward
      BY <2>4 DEF ObjForward, PastUpload
    <3>2. QED
      BY <1>0, <2>3, <2>4, <3>1, UploadKept DEF UploadOver, PastUpload, Rows
  <2>7. QED
    BY <1>0, <2>3, <2>4, <2>5, <2>6, CalmMove
<1>6. CASE PublishWrites(w)
  <2>1. PICK retained \in SUBSET refs["versions"] :
               BeginPass(w, [refs EXCEPT !["versions"] = retained \cup job[w].seen])
    BY <1>6 DEF PublishWrites
  <2>2. [refs EXCEPT !["versions"] = retained \cup job[w].seen] \in [Sources -> SUBSET Assets]
    BY <1>0 DEF TypeOK, Sources, JobTypes
  <2>3. QED
    BY <1>6, <2>1, <2>2, BeginTag DEF PublishWrites
<1>7. CASE Restore(w)
  <2>1. PICK secs \in SUBSET refs["versions"], its \in SUBSET refs["versions"],
             retained \in SUBSET refs["versions"] :
               BeginPass(w, [refs EXCEPT !["sections"] = secs, !["items"] = its,
                                         !["versions"] = retained])
    BY <1>7 DEF Restore
  <2>2. [refs EXCEPT !["sections"] = secs, !["items"] = its, !["versions"] = retained]
          \in [Sources -> SUBSET Assets]
    BY <1>0 DEF TypeOK, Sources
  <2>3. job[w].pc = "idle"
    BY <1>7 DEF Restore, Idle
  <2>4. QED
    BY <1>7, <2>1, <2>2, <2>3, BeginTag DEF Restore
<1>8. QED
  BY <1>1, <1>2, <1>3, <1>4, <1>5, <1>6, <1>7 DEF Request

(* What a pass reads changes neither rows nor objects.  What it has seen   *)
(* covers what is steady, so that every marked steady asset is in its plan.*)
LEMMA ReadTag ==
  ASSUME TagIInv, NEW w \in Workers, ReadSource(w) \/ ReadAssets(w)
  PROVE  UploadOver' /\ (~disturbed' => Calm')
<1>0. TypeOK /\ PassIInv /\ UploadOver /\ (~disturbed => Calm)
  BY TagMeans
<1>1. UNCHANGED <<row, obj, refs, steady, disturbed>> /\ ObjForward
  BY DEF ReadSource, ReadAssets, stores, Quiet, ObjForward, PastUpload
<1>2. CASE ReadSource(w)
  <2> DEFINE pc == job[w].pc
             j == [job[w] EXCEPT !.pc = ThenRead[pc], !.seen = @ \cup refs[pc]]
  <2>1. pc \in Sources /\ Goto(w, j)
    BY <1>2 DEF ReadSource
  <2>2. /\ ThenRead[pc] \in PassSteps /\ refs[pc] \subseteq Assets
        /\ ThenRead[pc] \in {"items", "versions", "posts", "assets"}
    BY <1>0, <2>1 DEF ThenRead, Sources, PassSteps, TypeOK
  <2>3. j \in JobTypes /\ j.plan = job[w].plan /\ j.pc = ThenRead[pc]
    BY <1>0, <2>2 DEF TypeOK, JobTypes
  <2> HIDE DEF j
  <2>4. InPass(w) /\ pc \notin {"untag", "tag"}
    BY <2>1 DEF InPass, PassSteps, Sources
  <2>5. j.pc \notin {"clear", "stamp", "delete", "untag", "tag", "loop", "reap"}
    BY <2>2, <2>3
  <2>6. UploadOver'
    BY <1>0, <1>1, <2>1, <2>3, <2>5, UploadKept DEF UploadOver, PastUpload, Rows
  <2>7. QED
    BY <1>0, <1>1, <2>1, <2>3, <2>4, <2>5, <2>6, CalmMove
<1>3. CASE ReadAssets(w)
  <2> DEFINE plan == Plan(job[w].seen)
             j == [job[w] EXCEPT !.pc = "loop", !.plan = plan]
  <2>1. job[w].pc = "assets" /\ Goto(w, j)
    BY <1>3 DEF ReadAssets
  <2>2. /\ plan \in SUBSET (Acts \X Assets)
        /\ \A act \in Acts, a \in Assets : <<act, a>> \in plan =>
             a \in Rows /\ (row[a].orphaned \/ row[a].confirmed)
        /\ \A a \in Rows : a \in job[w].seen /\ row[a].orphaned => <<"rescue", a>> \in plan
    BY DEF Plan, DoFor, Rescuable, Reapable, Orphanable, Acts, Rows
  <2> HIDE DEF plan
  <2>3. j \in JobTypes /\ j.plan = plan /\ j.pc = "loop" /\ j.seen = job[w].seen
    BY <1>0, <2>2 DEF TypeOK, JobTypes, PassSteps
  <2> HIDE DEF j
  <2>4. /\ job' \in [Workers -> JobTypes] /\ job'[w] = j
        /\ \A v \in Workers : v # w => job'[v] = job[v]
    BY <1>0, <2>1, <2>3, GotoEffect
  <2>5. \A act \in Acts, a \in Assets : <<act, a>> \in plan => obj[a] \in {"absent", "plain", "orphaned"}
    BY <1>0, <2>2 DEF TypeOK, UploadOver, PastUpload
  <2>6. UploadOver'
    BY <1>0, <1>1, <2>1, <2>3, <2>5, UploadKept DEF UploadOver, PastUpload, Rows
  <2>7. ASSUME ~disturbed' PROVE Calm'
    <3>1. Calm /\ Rows' = Rows /\ Stored' = Stored
      BY <1>0, <1>1, <2>7 DEF Rows, Stored
    <3>2. \A b \in Assets : Busy(b)' <=> Busy(b)
      BY <2>1, <2>3, <2>4 DEF Busy
    <3>3. TagMatchesRow' /\ NoUntrackedObject'
      BY <1>1, <3>1, <3>2 DEF Calm, TagMatchesRow, NoUntrackedObject, Rows
    <3>4. HalfWritten'
      <4>1. \A v \in Workers : InPass(v)' => InPass(v)
        BY <2>1, <2>4 DEF InPass, PassSteps
      <4>2. \A u, v \in Workers, b \in Assets : ~(Confirming(u, b)' /\ Deleting(v, b)')
        BY <2>3, <2>4, <3>1 DEF Calm, HalfWritten, Confirming, Deleting
      <4>3. QED
        BY <1>1, <2>3, <2>4, <3>1, <4>1, <4>2 DEF Calm, HalfWritten
    <3>5. RescuesAhead'
      <4>1. ReadBefore("assets") = Sources /\ InPass(w)
        BY <2>1 DEF ReadBefore, Sources, InPass, PassSteps
      <4>2. \A s \in Sources, a \in Assets : <<s, a>> \in steady[w] => a \in job[w].seen
        BY <1>0, <2>1, <4>1 DEF PassIInv, SteadySeen
      <4>3. QED
        BY <1>1, <2>2, <2>3, <2>4, <3>1, <4>2 DEF Calm, RescuesAhead, Rows
    <3>6. QED
      BY <3>3, <3>4, <3>5 DEF Calm
  <2>8. QED
    BY <2>6, <2>7
<1>4. QED
  BY <1>2, <1>3

(* The loop marks an asset, and is then going to write its tag.  An asset  *)
(* about to be marked as orphaned has not been seen, so that nothing of it *)
(* is steady; undisturbed no other pass has another view of it.            *)
LEMMA MarkTag ==
  ASSUME TagIInv, NEW w \in Workers, NEW a \in Assets, MarkRescued(w, a) \/ MarkOrphaned(w, a)
  PROVE  UploadOver' /\ (~disturbed' => Calm')
<1>0. TypeOK /\ PassIInv /\ UploadOver /\ (~disturbed => Calm)
  BY TagMeans
<1>1. PICK act \in Acts, flag \in BOOLEAN, pc \in {"untag", "tag"} :
        /\ Take(w, act, a, pc) /\ Mark(a, flag)
        /\ act = IF flag THEN "orphan" ELSE "rescue"
        /\ pc = IF flag THEN "tag" ELSE "untag"
  <2>1. CASE MarkRescued(w, a)
    BY <2>1 DEF MarkRescued, Acts
  <2>2. CASE MarkOrphaned(w, a)
    BY <2>2 DEF MarkOrphaned, Acts
  <2>3. QED
    BY <2>1, <2>2
<1> DEFINE j == [job[w] EXCEPT !.pc = pc, !.asset = a, !.plan = @ \ {<<act, a>>}]
<1>2. /\ job[w].pc = "loop" /\ <<act, a>> \in job[w].plan /\ Goto(w, j)
      /\ UNCHANGED <<obj, refs, steady, disturbed>>
  BY <1>1 DEF Take, MarkRescued, MarkOrphaned, Quiet
<1>3. /\ j \in JobTypes /\ j.pc = pc /\ j.asset = a /\ j.plan = job[w].plan \ {<<act, a>>}
      /\ j.seen = job[w].seen
  BY <1>0 DEF TypeOK, JobTypes, PassSteps
<1> HIDE DEF j
<1>4. /\ job' \in [Workers -> JobTypes] /\ job'[w] = j
      /\ \A v \in Workers : v # w => job'[v] = job[v]
  BY <1>0, <1>2, <1>3, GotoEffect
<1>5. /\ Rows' = Rows /\ (a \in Rows => row'[a].orphaned = flag)
      /\ \A b \in Rows : row'[b].confirmed = row[b].confirmed
      /\ \A b \in Rows : b # a => row'[b] = row[b]
  <2>1. CASE a \in Rows
    <3> DEFINE r == [row[a] EXCEPT !.orphaned = flag]
    <3>1. row[a] \in RowTypes /\ row' = [row EXCEPT ![a] = r]
      BY <1>0, <1>1, <2>1 DEF Mark, Rows, TypeOK
    <3>2. r \in RowTypes /\ r.orphaned = flag /\ r.confirmed = row[a].confirmed
      BY <3>1 DEF RowTypes
    <3> HIDE DEF r
    <3>3. /\ row'[a] \in RowTypes /\ row'[a].orphaned = flag /\ row'[a].confirmed = row[a].confirmed
          /\ \A b \in Assets : b # a => row'[b] = row[b]
      BY <1>0, <3>1, <3>2 DEF TypeOK
    <3>4. None \notin RowTypes
      BY MediaAssumption
    <3>5. QED
      BY <2>1, <3>3, <3>4 DEF Rows
  <2>2. CASE a \notin Rows
    BY <1>1, <2>2 DEF Mark, Rows
  <2>3. QED
    BY <2>1, <2>2
<1>6. UploadOver'
  <2>1. ObjForward
    BY <1>2 DEF ObjForward, PastUpload
  <2>2. \A b \in Rows' : row'[b].confirmed => obj'[b] \in {"absent", "plain", "orphaned"}
    BY <1>0, <1>2, <1>5 DEF UploadOver, PastUpload
  <2>3. \A k \in Acts, b \in Assets :
          <<k, b>> \in j.plan => obj'[b] \in {"absent", "plain", "orphaned"}
    BY <1>0, <1>2, <1>3 DEF UploadOver, PastUpload
  <2>4. obj'[a] \in {"absent", "plain", "orphaned"}
    BY <1>0, <1>2 DEF UploadOver, PastUpload
  <2>5. QED
    BY <1>0, <1>2, <1>3, <2>1, <2>2, <2>3, <2>4, UploadKept
<1>7. ASSUME ~disturbed' PROVE Calm'
  <2>1. Calm /\ Stored' = Stored /\ ~disturbed
    BY <1>0, <1>2, <1>7 DEF Stored
  <2>2. \A v \in Workers : InPass(v) => v = w
    BY <1>2, <2>1 DEF Calm, HalfWritten, InPass, PassSteps
  <2>3. Busy(a)' /\ \A b \in Assets : b # a => (Busy(b)' <=> Busy(b))
    BY <1>2, <1>3, <1>4 DEF Busy
  <2>4. TagMatchesRow'
    BY <1>2, <1>5, <2>1, <2>3 DEF Calm, TagMatchesRow, Rows
  <2>5. NoUntrackedObject'
    BY <1>2, <1>5, <2>1 DEF Calm, NoUntrackedObject
  <2>6. HalfWritten'
    <3>1. \A v \in Workers : InPass(v)' => InPass(v)
      BY <1>2, <1>4 DEF InPass, PassSteps
    <3>2. \A u, v \in Workers, b \in Assets : ~(Confirming(u, b)' /\ Deleting(v, b)')
      BY <1>3, <1>4, <2>1 DEF Calm, HalfWritten, Confirming, Deleting
    <3>3. \A v \in Workers : job[v].pc \in {"untag", "tag"} => FALSE
      BY <1>2, <2>2 DEF InPass, PassSteps
    <3>4. \A v \in Workers : job'[v].pc \in {"untag", "tag"} /\ job'[v].asset \in Rows' =>
             (row'[job'[v].asset].orphaned <=> job'[v].pc = "tag")
      BY <1>1, <1>3, <1>4, <1>5, <3>3
    <3>5. QED
      BY <1>2, <1>3, <1>4, <1>5, <2>1, <3>1, <3>2, <3>4 DEF Calm, HalfWritten
  <2>7. RescuesAhead'
    <3>1. \A v \in Workers : job'[v].pc \in {"loop", "untag", "tag", "reap"} => v = w
      BY <1>4, <2>2 DEF InPass, PassSteps
    <3>2. \A b \in Assets : b # a /\ <<"rescue", b>> \in job[w].plan => <<"rescue", b>> \in j.plan
      BY <1>3
    <3>3. flag => \A s \in Sources : <<s, a>> \notin steady[w]
      <4>1. ReadBefore("loop") = Sources /\ InPass(w)
        BY <1>2 DEF ReadBefore, Sources, InPass, PassSteps
      <4>2. QED
        BY <1>0, <1>1, <1>2, <4>1 DEF PassIInv, SteadySeen, PlansLate
    <3>4. QED
      BY <1>2, <1>3, <1>4, <1>5, <2>1, <3>1, <3>2, <3>3 DEF Calm, RescuesAhead
  <2>8. QED
    BY <2>4, <2>5, <2>6, <2>7 DEF Calm
<1>8. QED
  BY <1>6, <1>7

(* The tag is written, and agrees with the row from then on.               *)
LEMMA WriteTagTag ==
  ASSUME TagIInv, NEW w \in Workers, WriteTag(w)
  PROVE  UploadOver' /\ (~disturbed' => Calm')
<1> DEFINE a == job[w].asset
<1>0. TypeOK /\ PassIInv /\ UploadOver /\ (~disturbed => Calm)
  BY TagMeans
<1>1. /\ job[w].pc \in {"tag", "untag"} /\ a \in Assets /\ PastUpload(a)
      /\ UNCHANGED <<row, refs, steady, disturbed>>
  BY <1>0 DEF WriteTag, Quiet, UploadOver, Aimed
<1>2. PICK j \in JobTypes :
        /\ Goto(w, j) /\ j.plan \subseteq job[w].plan
        /\ \/ /\ j.pc = "loop" /\ j.plan = job[w].plan /\ a \in Stored
              /\ obj'[a] = NewTag(w) /\ \A b \in Assets : b # a => obj'[b] = obj[b]
           \/ j.pc = "idle" /\ a \notin Stored /\ UNCHANGED obj
  <2>1. CASE a \in Stored
    <3> DEFINE j == [job[w] EXCEPT !.pc = "loop"]
    <3>1. j \in JobTypes /\ j.plan = job[w].plan /\ j.pc = "loop"
      BY <1>0 DEF TypeOK, JobTypes, PassSteps
    <3>2. Goto(w, j) /\ obj'[a] = NewTag(w) /\ \A b \in Assets : b # a => obj'[b] = obj[b]
      BY <1>0, <1>1, <2>1 DEF WriteTag, At, TypeOK
    <3> HIDE DEF j
    <3>3. QED
      BY <2>1, <3>1, <3>2
  <2>2. CASE a \notin Stored
    BY <2>2, IdleType DEF WriteTag, Done, Idle
  <2>3. QED
    BY <2>1, <2>2
<1>3. NewTag(w) = IF job[w].pc = "tag" THEN "orphaned" ELSE "plain"
  BY DEF NewTag
<1> HIDE DEF a
<1>4. /\ job' \in [Workers -> JobTypes] /\ job'[w] = j
      /\ \A v \in Workers : v # w => job'[v] = job[v]
  BY <1>0, <1>2, GotoEffect
<1>5. UploadOver'
  <2>1. ObjForward
    BY <1>1, <1>2, <1>3 DEF ObjForward, PastUpload, Stored
  <2>2. Rows' = Rows
    BY <1>1 DEF Rows
  <2>3. \A b \in Rows' : row'[b].confirmed => obj'[b] \in {"absent", "plain", "orphaned"}
    BY <1>0, <1>1, <2>1, <2>2 DEF UploadOver, PastUpload, ObjForward, Rows
  <2>4. \A act \in Acts, b \in Assets :
          <<act, b>> \in j.plan => obj'[b] \in {"absent", "plain", "orphaned"}
    BY <1>0, <1>2, <2>1 DEF UploadOver, PastUpload, ObjForward
  <2>5. QED
    BY <1>0, <1>2, <2>1, <2>3, <2>4, UploadKept
<1>6. ASSUME ~disturbed' PROVE Calm'
  <2>1. Calm /\ Rows' = Rows /\ ~disturbed
    BY <1>0, <1>1, <1>6 DEF Rows
  <2>2. \A v \in Workers : InPass(v) => v = w
    BY <1>1, <2>1 DEF Calm, HalfWritten, InPass, PassSteps
  <2>3. \A b \in Assets : b # a => (Busy(b)' <=> Busy(b))
    BY <1>2, <1>4 DEF Busy, a
  <2>4. \A b \in Assets : b # a => obj'[b] = obj[b]
    BY <1>2
  <2>5. a \in Stored => a \in Rows /\ (row[a].orphaned <=> job[w].pc = "tag")
    BY <1>1, <2>1 DEF Calm, HalfWritten, NoUntrackedObject, PastUpload, Stored, a
  <2>6. TagMatchesRow'
    BY <1>1, <1>2, <1>3, <2>1, <2>3, <2>4, <2>5 DEF Calm, TagMatchesRow, Rows, Stored
  <2>7. NoUntrackedObject'
    BY <1>1, <1>2, <2>1, <2>4, <2>5 DEF Calm, NoUntrackedObject, Rows
  <2>8. HalfWritten'
    <3>1. \A v \in Workers : InPass(v)' => InPass(v)
      BY <1>1, <1>2, <1>4 DEF InPass, PassSteps
    <3>2. \A u, v \in Workers, b \in Assets : ~(Confirming(u, b)' /\ Deleting(v, b)')
      BY <1>2, <1>4, <2>1 DEF Calm, HalfWritten, Confirming, Deleting
    <3>3. \A v \in Workers : job'[v].pc \in {"clear", "delete", "untag", "tag"} =>
             v # w /\ job'[v] = job[v] /\ job[v].asset \in Assets
      BY <1>0, <1>2, <1>4 DEF UploadOver, Aimed
    <3>4. \A v \in Workers : job'[v].pc = "clear" => job'[v].asset \in Rows' \/ job'[v].asset \notin Stored'
      BY <1>1, <1>2, <2>1, <2>4, <2>5, <3>3 DEF Calm, HalfWritten, Stored
    <3>5. \A v \in Workers : job'[v].pc = "delete" /\ a \in Stored => job'[v].asset # a
      BY <1>1, <2>1, <3>3 DEF Calm, HalfWritten, PastUpload, Stored
    <3>6. \A v \in Workers : job'[v].pc = "delete" => obj'[job'[v].asset] \notin {"plain", "orphaned"}
      BY <1>2, <2>1, <2>4, <3>3, <3>5 DEF Calm, HalfWritten
    <3>7. \A v \in Workers : job'[v].pc \in {"untag", "tag"} => FALSE
      BY <2>2, <3>3 DEF InPass, PassSteps
    <3>8. QED
      BY <2>1, <3>1, <3>2, <3>4, <3>6, <3>7 DEF Calm, HalfWritten
  <2>9. RescuesAhead'
    BY <1>1, <1>2, <1>4, <2>1 DEF Calm, RescuesAhead
  <2>10. QED
    BY <2>6, <2>7, <2>8, <2>9 DEF Calm
<1>7. QED
  BY <1>5, <1>6

LEMMA CollectTag ==
  ASSUME TagIInv, NEW w \in Workers, Collect(w)
  PROVE  UploadOver' /\ (~disturbed' => Calm')
<1>0. TypeOK /\ PassIInv /\ UploadOver /\ (~disturbed => Calm)
  BY TagMeans
<1>1. CASE ReadSource(w) \/ ReadAssets(w) \/ WriteTag(w)
  BY <1>1, ReadTag, WriteTagTag
<1>2. ASSUME NEW a \in Assets, MarkRescued(w, a) \/ MarkOrphaned(w, a)
      PROVE  UploadOver' /\ (~disturbed' => Calm')
  BY <1>2, MarkTag
<1>3. ASSUME NEW a \in Assets, HeadOrphan(w, a)
      PROVE  UploadOver' /\ (~disturbed' => Calm')
  <2>1. PICK pc \in {"loop", "reap"} : Take(w, "reap", a, pc) /\ (pc = "reap" => a \notin Stored)
    BY <1>3 DEF HeadOrphan, HeadMissing
  <2> DEFINE j == [job[w] EXCEPT !.pc = pc, !.asset = a, !.plan = @ \ {<<"reap", a>>}]
  <2>2. /\ job[w].pc = "loop" /\ <<"reap", a>> \in job[w].plan /\ Goto(w, j)
        /\ UNCHANGED <<row, obj, steady, disturbed>>
    BY <1>3, <2>1 DEF Take, HeadOrphan, stores, Quiet
  <2>3. j \in JobTypes /\ j.pc = pc /\ j.asset = a /\ j.plan = job[w].plan \ {<<"reap", a>>}
    BY <1>0 DEF TypeOK, JobTypes, PassSteps
  <2> HIDE DEF j
  <2>4. PastUpload(a)
    BY <1>0, <2>2 DEF UploadOver, Acts
  <2>5. UploadOver'
    <3>1. ObjForward
      BY <2>2 DEF ObjForward, PastUpload
    <3>2. j.pc = "reap" => obj'[j.asset] = "absent"
      BY <2>1, <2>2, <2>3, <2>4 DEF PastUpload, Stored
    <3>3. \A act \in Acts, b \in Assets :
            <<act, b>> \in j.plan => obj'[b] \in {"absent", "plain", "orphaned"}
      BY <1>0, <2>2, <2>3 DEF UploadOver, PastUpload
    <3>4. \A b \in Rows' : row'[b].confirmed => obj'[b] \in {"absent", "plain", "orphaned"}
      BY <1>0, <2>2 DEF UploadOver, PastUpload, Rows
    <3>5. j.pc \in {"loop", "reap"} /\ j.asset \in Assets
      BY <2>3
    <3>6. QED
      BY <1>0, <2>2, <2>3, <3>1, <3>2, <3>3, <3>4, <3>5, UploadKept
  <2>6. InPass(w)
    BY <2>2 DEF InPass, PassSteps
  <2>7. \A b \in Assets : <<"rescue", b>> \in job[w].plan => <<"rescue", b>> \in j.plan
    BY <2>3
  <2>8. QED
    BY <1>0, <2>2, <2>3, <2>5, <2>6, <2>7, CalmMove
<1>4. CASE Reap(w)
  <2> DEFINE j == [job[w] EXCEPT !.pc = "loop"]
  <2>1. /\ job[w].pc = "reap" /\ Goto(w, j) /\ row' = [row EXCEPT ![job[w].asset] = None]
        /\ ClearCovers(job[w].asset) /\ UNCHANGED <<obj, disturbed>>
    BY <1>4 DEF Reap, At
  <2>2. j \in JobTypes /\ j.plan = job[w].plan /\ j.pc = "loop"
    BY <1>0 DEF TypeOK, JobTypes, PassSteps
  <2> HIDE DEF j
  <2>3. QED
    BY <2>1, <2>2, RowGoesTag
<1>5. CASE PassEnds(w)
  <2>1. /\ Goto(w, Idle) /\ Idle.plan = {} /\ Idle.pc = "idle" /\ "idle" \notin PassSteps
        /\ UNCHANGED <<row, obj, steady, disturbed>> /\ job[w].pc = "loop"
    BY <1>5 DEF PassEnds, Done, Idle, stores, Quiet, PassSteps, Sources
  <2>2. ObjForward
    BY <2>1 DEF ObjForward, PastUpload
  <2>3. UploadOver'
    BY <1>0, <2>1, <2>2, IdleType, UploadKept DEF UploadOver, PastUpload, Rows
  <2>4. QED
    BY <1>0, <2>1, <2>3, IdleType, CalmMove
<1>6. QED
  BY <1>1, <1>2, <1>3, <1>4, <1>5 DEF Collect

LEMMA AbortTag ==
  ASSUME TagIInv, NEW w \in Workers, Abort(w)
  PROVE  UploadOver' /\ (~disturbed' => Calm')
<1>0. TypeOK /\ UploadOver
  BY TagMeans
<1>1. Goto(w, Idle) /\ Idle.plan = {} /\ Idle.pc = "idle" /\ UNCHANGED <<row, obj>>
  BY DEF Abort, Done, Idle, stores
<1>2. disturbed' = (disturbed \/ TRUE)
  BY DEF Abort, DisturbedIf
<1>3. ObjForward
  BY <1>1 DEF ObjForward, PastUpload
<1>4. UploadOver'
  BY <1>0, <1>1, <1>3, IdleType, UploadKept DEF UploadOver, PastUpload, Rows
<1>5. QED
  BY <1>2, <1>4

LEMMA TagNext == TagIInv /\ [Next]_vars => TagIInv'
<1> SUFFICES ASSUME TagIInv, [Next]_vars PROVE TagIInv'
  OBVIOUS
<1>1. PassIInv'
  BY TagMeans, NextInv
<1>2. ASSUME NEW a \in Assets, Outside(a) PROVE UploadOver' /\ (~disturbed' => Calm')
  BY <1>2, OutsideTag
<1>3. ASSUME NEW a \in Assets, NEW s \in Drafts, Edit(s, a)
      PROVE  UploadOver' /\ (~disturbed' => Calm')
  BY <1>3, EditTag
<1>4. ASSUME NEW w \in Workers, Request(w) \/ Collect(w) \/ Abort(w)
      PROVE  UploadOver' /\ (~disturbed' => Calm')
  BY <1>4, RequestTag, CollectTag, AbortTag
<1>5. ASSUME UNCHANGED vars PROVE UploadOver' /\ (~disturbed' => Calm')
  <2>1. UNCHANGED <<row, obj, job, steady, disturbed>>
    BY <1>5 DEF vars, stores
  <2>2. UploadOver'
    BY <2>1, TagMeans DEF UploadOver, Aimed, PastUpload, Rows
  <2>3. ~disturbed' => Calm'
    BY <2>1, TagMeans DEF Calm, TagMatchesRow, Busy, NoUntrackedObject, HalfWritten, RescuesAhead,
         Rows, Stored, InPass, Confirming, Deleting
  <2>4. QED
    BY <2>2, <2>3
<1>6. UploadOver' /\ (~disturbed' => Calm')
  BY <1>2, <1>3, <1>4, <1>5 DEF Next
<1>7. QED
  BY <1>1, <1>6 DEF Calm, TagIInv, TagMatchesRow, NoUntrackedObject

(* TagIInv is an inductive invariant.                                      *)
THEOREM TagInvariant == Spec => []TagIInv
BY TagInit, TagNext, PTL DEF Spec

(* What the library shows as orphaned is what the bucket is going to let   *)
(* expire: outside the two writes of markOrphaned() or a rescue, the row   *)
(* of an undisturbed collection says orphaned exactly if the tag does.     *)
THEOREM TagsMatch == Spec => []TagMatchesRow
<1>1. TagIInv => TagMatchesRow
  BY DEF TagIInv
<1>2. QED
  BY <1>1, TagInvariant, PTL

(* No row of an undisturbed library goes while its confirmed object is     *)
(* there, so that no object is left behind that nobody can find or delete. *)
THEOREM NothingUntracked == Spec => []NoUntrackedObject
<1>1. TagIInv => NoUntrackedObject
  BY DEF TagIInv
<1>2. QED
  BY <1>1, TagInvariant, PTL

(* Only its end or a failure takes a pass out of its loop.                 *)
LEMMA LoopLeft ==
  ASSUME TypeOK, [Next]_vars, NEW w \in Workers, job[w].pc = "loop", job'[w].pc = "idle",
         ~disturbed'
  PROVE  PassEnds(w)
<1>1. ASSUME NEW v \in Workers, v # w, NEW j, Goto(v, j) PROVE FALSE
  BY <1>1 DEF Goto, TypeOK
<1>2. ASSUME NEW a \in Assets, Outside(a) \/ \E s \in Drafts : Edit(s, a) PROVE FALSE
  BY <1>2 DEF Outside, CreateUploadUrl, Put, GrowsOld, Expires, Edit
<1>3. CASE UNCHANGED vars
  BY <1>3 DEF vars
<1>4. ASSUME NEW v \in Workers, Request(v) PROVE FALSE
  <2>1. v = w
    BY <1>1, <1>4 DEF Request, ConfirmStarts, DeleteStarts, ConfirmClears, ConfirmStamps, DeleteEnds,
         Sweep, PublishReads, PublishWrites, Restore, BeginPass, Done, At
  <2>2. job[v] = Idle \/ job[v].pc \in {"clear", "stamp", "delete", "publish"}
    BY <1>4 DEF Request, ConfirmStarts, DeleteStarts, ConfirmClears, ConfirmStamps, DeleteEnds,
         Sweep, PublishReads, PublishWrites, Restore
  <2>3. QED
    BY <2>1, <2>2 DEF Idle
<1>5. ASSUME NEW v \in Workers, Collect(v) PROVE PassEnds(w)
  <2>1. v = w
    BY <1>1, <1>5 DEF Collect, ReadSource, ReadAssets, MarkRescued, MarkOrphaned, HeadOrphan,
         WriteTag, Reap, PassEnds, Take, Done, At
  <2>2. ASSUME NEW act, NEW a, NEW pc \in {"untag", "tag", "reap", "loop"}, Take(w, act, a, pc)
        PROVE  FALSE
    BY <2>2 DEF Take, Goto, TypeOK, JobTypes
  <2>3. QED
    BY <1>5, <2>1, <2>2 DEF Collect, ReadSource, ReadAssets, MarkRescued, MarkOrphaned, HeadOrphan,
         WriteTag, Reap, Sources
<1>6. ASSUME NEW v \in Workers, Abort(v) PROVE FALSE
  <2>1. disturbed' = (disturbed \/ TRUE)
    BY <1>6 DEF Abort, DisturbedIf
  <2>2. QED
    BY <2>1
<1>7. QED
  BY <1>2, <1>3, <1>4, <1>5, <1>6 DEF Next

(* A pass of runGc() that ran to its end undisturbed has rescued every     *)
(* asset that one source referenced all the while: neither row nor object  *)
(* says that it may go.                                                    *)
THEOREM PassRescued == Spec => PassRescues
<1> DEFINE Rescued == \A w \in Workers : \A r \in steady[w] :
                        /\ job[w].pc = "loop" /\ job'[w] = Idle /\ ~disturbed'
                        /\ r[2] \in Rows
                        => ~row[r[2]].orphaned /\ obj[r[2]] # "orphaned"
<1>1. TagIInv /\ [Next]_vars => [Rescued]_vars
  <2>1. SUFFICES ASSUME TagIInv, [Next]_vars, NEW w \in Workers, NEW r \in steady[w],
                        job[w].pc = "loop", job'[w] = Idle, ~disturbed', r[2] \in Rows
                 PROVE  ~row[r[2]].orphaned /\ obj[r[2]] # "orphaned"
    OBVIOUS
  <2>2. TypeOK /\ PassIInv /\ UploadOver /\ (~disturbed => Calm)
    BY <2>1, TagMeans
  <2>3. job'[w].pc = "idle" /\ Idle.pc = "idle"
    BY <2>1 DEF Idle
  <2>4. PICK s \in Sources, a \in Assets : r = <<s, a>>
    BY <2>2 DEF TypeOK
  <2>5. job[w].plan = {} /\ UNCHANGED <<row, obj, disturbed>>
    <3>1. PassEnds(w)
      BY <2>1, <2>2, <2>3, LoopLeft
    <3>2. QED
      BY <3>1 DEF PassEnds, stores, Quiet
  <2>6. Calm /\ ~disturbed
    BY <2>1, <2>2, <2>5
  <2>7. ~row[a].orphaned
    BY <2>1, <2>4, <2>5, <2>6 DEF Calm, RescuesAhead
  <2>8. ~Busy(a)
    <3>1. \A v \in Workers : InPass(v) => v = w
      BY <2>1, <2>6 DEF Calm, HalfWritten, InPass, PassSteps
    <3>2. QED
      BY <2>1, <3>1 DEF Busy, InPass, PassSteps
  <2>9. obj[a] # "orphaned"
    BY <2>1, <2>4, <2>6, <2>7, <2>8 DEF Calm, TagMatchesRow, Stored
  <2>10. QED
    BY <2>4, <2>7, <2>9
<1>2. QED
  BY <1>1, TagInvariant, PTL DEF Spec, PassRescues

=============================================================================
