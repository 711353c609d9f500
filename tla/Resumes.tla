-------------------------------- MODULE Resumes --------------------------------
(***************************************************************************)
(* The resume versions of services/resumesService.ts: rows of "resumes"    *)
(* and objects under the prefix resumes/ of the bucket.                    *)
(*                                                                         *)
(* A version is its place in the order of created_at.  The admin asks for  *)
(* an upload URL, the browser PUTs the object as often as it likes while   *)
(* the URL is good, and the confirm looks for the object before it stamps  *)
(* the row; /api/resume serves the newest confirmed version.  No sweep and *)
(* no lifecycle rule looks after these objects.  A call of an admin or a   *)
(* download is a chain of awaits in a slot, and any of them may fail.      *)
(***************************************************************************)
EXTENDS Naturals, Sequences, FiniteSets

CONSTANTS
  MaxVersions,    \* bound: upload URLs asked for
  ResumeCalls     \* bound: calls under way at the same time

ASSUME ResumesAssumption == MaxVersions \in Nat \ {0}

VARIABLES
  resumes,        \* resumes[v]: the row of v: "unborn", "pending", "confirmed", "deleted"
  uploaded,       \* versions whose object is in the bucket
  good,           \* versions whose presigned URL has not expired
  calls,          \* calls[c]: what a call does next, and to which version
  erased          \* for the properties: versions whose object was deleted once

resumeVars == <<resumes, uploaded, good, calls, erased>>

Uploads == 1..MaxVersions
Over == [does |-> <<>>, version |-> 1]

ResumesInit ==
  /\ resumes = [v \in Uploads |-> "unborn"]
  /\ uploaded = {} /\ good = {} /\ erased = {}
  /\ calls = [c \in ResumeCalls |-> Over]

RowStands(v) == resumes[v] \in {"pending", "confirmed"}

\* getNewestConfirmedRow(): what both public routes look up, 0 if there is none.
Numbers == INSTANCE FiniteSetsExt
NewestConfirmed == Numbers!Max({0} \cup {v \in Uploads : resumes[v] = "confirmed"})

-----------------------------------------------------------------------------
(* The upload.                                                             *)

\* createResumeUploadUrl() once the name and the size have passed: the URL is
\* made first, but handed out only when the row is stored.
CreateResumeUrl ==
  /\ \E v \in Uploads :
       /\ resumes[v] = "unborn" /\ \A w \in 1..v - 1 : resumes[w] # "unborn"
       /\ resumes' = [resumes EXCEPT ![v] = "pending"]
       /\ good' = good \cup {v}
  /\ UNCHANGED <<uploaded, calls, erased>>

\* The bucket knows nothing of the rows.
PutResume ==
  /\ \E v \in good : uploaded' = uploaded \cup {v}
  /\ UNCHANGED <<resumes, good, calls, erased>>

UrlExpires ==
  /\ \E v \in good : good' = good \ {v}
  /\ UNCHANGED <<resumes, uploaded, calls, erased>>

-----------------------------------------------------------------------------
(* Calls: the steps each has yet to take.                                  *)

\* deleteResume() after its row was found.
RowFirst == <<"del row", "del object">>                                    \* (mutant)
DeleteSteps == <<"del object", "del row">>

\* confirmResumeUpload() after its row was found; a download after its lookup.
ConfirmSteps == <<"head", "stamp">>
DownloadSteps == <<"get">>

CallStarts(c) ==
  /\ calls[c] = Over
  /\ \/ \E v \in Uploads, steps \in {ConfirmSteps, DeleteSteps} :
          RowStands(v) /\ calls' = [calls EXCEPT ![c] = [does |-> steps, version |-> v]]
     \/ NewestConfirmed # 0 /\ calls' = [calls EXCEPT ![c] = [does |-> DownloadSteps, version |-> NewestConfirmed]]
  /\ UNCHANGED <<resumes, uploaded, good, erased>>

At(c, step) == calls[c] # Over /\ Head(calls[c].does) = step

\* The call goes on to its next step, or has an answer.
Proceeds(c) ==
  calls' = [calls EXCEPT ![c] =
              IF Len(@.does) = 1 THEN Over ELSE [does |-> Tail(@.does), version |-> @.version]]
Ended(c) == calls' = [calls EXCEPT ![c] = Over]

\* The HEAD of the confirm; without an object it is a 404.
AnyHead(v) == TRUE                                                         \* (mutant)
HeadFinds(v) == v \in uploaded

Heads(c) ==
  /\ At(c, "head")
  /\ IF HeadFinds(calls[c].version) THEN Proceeds(c) ELSE Ended(c)
  /\ UNCHANGED <<resumes, uploaded, good, erased>>

\* An UPDATE of a row that is gone changes nothing (the answer is a 500 then).
Stamps(c) ==
  /\ At(c, "stamp") /\ Proceeds(c)
  /\ resumes' = [resumes EXCEPT ![calls[c].version] = IF RowStands(calls[c].version) THEN "confirmed" ELSE @]
  /\ UNCHANGED <<uploaded, good, erased>>

DeletesObject(c) ==
  /\ At(c, "del object") /\ Proceeds(c)
  /\ uploaded' = uploaded \ {calls[c].version}
  /\ erased' = erased \cup {calls[c].version}
  /\ UNCHANGED <<resumes, good>>

DeletesRow(c) ==
  /\ At(c, "del row") /\ Proceeds(c)
  /\ resumes' = [resumes EXCEPT ![calls[c].version] = "deleted"]
  /\ UNCHANGED <<uploaded, good, erased>>

\* The PDF, or a 404.
Downloaded(c) ==
  /\ At(c, "get") /\ Proceeds(c)
  /\ UNCHANGED <<resumes, uploaded, good, erased>>

\* The database or S3 fails: a 500, and what was done so far stays.
CallFails(c) ==
  /\ calls[c] # Over /\ Ended(c)
  /\ UNCHANGED <<resumes, uploaded, good, erased>>

ResumesNext ==
  \/ CreateResumeUrl \/ PutResume \/ UrlExpires
  \/ \E c \in ResumeCalls :
       \/ CallStarts(c) \/ Heads(c) \/ Stamps(c) \/ DeletesObject(c)
       \/ DeletesRow(c) \/ Downloaded(c) \/ CallFails(c)

ResumesSpec == ResumesInit /\ [][ResumesNext]_resumeVars

-----------------------------------------------------------------------------
(* Properties.                                                             *)

\* The version that /api/resume links to, and the one a download is about to
\* read, have their object, however late and however often they were confirmed;
\* only a delete that has got as far as the object takes it away (and one that
\* then fails leaves the link broken until it is repeated).
ServedIsThere ==
  \A v \in ({NewestConfirmed} \ {0}) \cup {calls[c].version : c \in {d \in ResumeCalls : At(d, "get")}} :
    v \in uploaded \cup erased

\* A delete that fails half way, or two that run together, never leave an object
\* without the row it could be deleted by: an object without a row is a PUT
\* that came after the delete, with a URL that was still good.
NothingLeftBehind ==
  \A v \in uploaded : ~RowStands(v) => v \in erased
=============================================================================
