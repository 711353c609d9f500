-------------------------------- MODULE Posts --------------------------------
(***************************************************************************)
(* services/postsService.ts, with the blogs of services/blogsService.ts    *)
(* that a post can belong to: admin clients edit drafts under the          *)
(* precondition expected_updated_at, publish and unpublish posts, and a    *)
(* reader of the public site follows the cursors of GET /api/posts.        *)
(*                                                                         *)
(* An update, a publish and an unpublish are transactions that lock the    *)
(* row, look at it and then write what they decided; a creation            *)
(* looks and inserts without one.  In between, requests for other posts    *)
(* and blogs run, and what the tables' constraints refuse is rolled back.  *)
(* A request that is refused changes nothing and is not a step.            *)
(*                                                                         *)
(* Of a body, only what it holds and whether the canonical schema admits   *)
(* it; title, excerpt, tags and cover are like the draft, but public at    *)
(* once.  The stamp is updated_at, in the milliseconds clients see, which  *)
(* is only ever compared for equality (now() is when a transaction began,  *)
(* so later writes may have earlier stamps); bound: no two requests within *)
(* one millisecond.                                                        *)
(***************************************************************************)
EXTENDS Naturals, FiniteSets

CONSTANTS
  Ids,          \* posts, in the order of their uuids
  Slugs, Blogs,
  Bodies, Complete,   \* what a draft may hold; what the schema admits
  FirstDrafts,  \* bound: what a post is created with
  Dates,        \* values of published_at
  Limit,        \* the reader's ?limit=
  Clients,      \* bound: admin clients (browser tabs, API keys)
  None, Gone,   \* nothing; a post that was deleted: its id never comes back
  MaxWrites     \* bound: requests that write a post

ASSUME PostsAssumption ==
  /\ Ids \subseteq Nat /\ IsFiniteSet(Ids) /\ Dates \subseteq Nat
  /\ Complete \subseteq Bodies /\ FirstDrafts \subseteq Bodies
  /\ None \notin Dates \cup Bodies \cup Blogs \cup Slugs \cup (Dates \X Ids) /\ Gone # None
  /\ Limit \in Nat \ {0} /\ MaxWrites \in Nat

VARIABLES
  post,         \* post[i]: the row
  blogs,        \* the blogs there are
  copy,         \* copy[c]: the row client c was given last: [id, row]
  job,          \* job[c]: a request that has looked and not yet written
  clock,        \* requests so far
  walk          \* the reader's way through the pages

vars == <<post, blogs, copy, job, clock, walk>>

Rows(S) == {i \in Ids : S[i] \notin {None, Gone}}
There == Rows(post)

\* What the public endpoints show.
Public(S) == {i \in Rows(S) : S[i].at # None /\ S[i].body # None}

\* filter: the ?blog= of the walk.
Listed(S, filter) == {i \in Public(S) : filter \in {None, S[i].blog}}

Columns == {"slug", "blog", "draft", "body", "at"}

Home == [on |-> FALSE, filter |-> None, cursor |-> None, seen |-> {}, steady |-> {}]

\* Initially one post at most is a draft, or was edited or unpublished since
\* it was published; bound: the others are as they were published, and what was
\* edited since shares their date.
AsPublished(row) == row.body = row.draft /\ row.at # None

Init ==
  /\ post \in [Ids -> {None} \cup [slug : Slugs, blog : {None}, draft : Bodies,
                                   body : Complete \cup {None}, at : Dates \cup {None},
                                   stamp : {0}]]
  /\ \A i, j \in There : post[i].slug = post[j].slug => i = j
  /\ \A i, j \in There : i = j \/ AsPublished(post[i]) \/ AsPublished(post[j])
  /\ \A i, j \in There : AsPublished(post[i]) \/ post[i].at \in {None, post[j].at}
  /\ blogs = Blogs
  /\ copy = [c \in Clients |-> None] /\ job = [c \in Clients |-> None]
  /\ clock = 0 /\ walk = Home

\* The rows change.  For the walk, a post that moves to another date or out
\* of the list is steady no more, and may well be seen again.
SetPosts(new) ==
  /\ post' = new
  /\ walk' = [walk EXCEPT
       !.steady = {i \in @ : i \in Listed(new, walk.filter) /\ new[i].at = post[i].at},
       !.seen   = {i \in @ : i \in Rows(new) /\ new[i].at = post[i].at}]

-----------------------------------------------------------------------------
(* Requests: look, then write.                                             *)

Named(i) == \E c \in Clients : job[c] # None /\ job[c].id = i

\* forUpdate(): the row is locked until the transaction ends.
NobodyHolds(i) == FALSE                                     \* (mutant)
Held(i) == Named(i)

\* UNIQUE (slug), and the foreign key to blogs.
SlugFree(i, slug) == \A j \in There \ {i} : post[j].slug # slug
BlogThere(blog) == blog \in blogs \cup {None}

\* What client c's request has decided: to write the given fields of row.
Looked(c, op, i, row, fields) ==
  /\ job[c] = None
  /\ clock < MaxWrites /\ clock' = clock + 1
  /\ job' = [job EXCEPT ![c] = [op |-> op, id |-> i, row |-> row, fields |-> fields,
                               base |-> IF op = "update" THEN copy[c].row ELSE None]]
  /\ UNCHANGED <<post, blogs, copy, walk>>

\* GET /posts/:id, or the public post with its ETag.
Load(c, i) ==
  /\ job[c] = None /\ i \in There
  /\ copy' = [copy EXCEPT ![c] = [id |-> i, row |-> post[i]]]
  /\ UNCHANGED <<post, blogs, job, clock, walk>>

\* createPost().
CreateLooks(c, i) ==
  \E slug \in Slugs, blog \in blogs \cup {None}, draft \in FirstDrafts, at \in Dates \cup {None} :
    /\ post[i] = None /\ ~Named(i)      \* a fresh uuid
    /\ SlugFree(i, slug)
    /\ Looked(c, "create", i, [slug |-> slug, blog |-> blog, draft |-> draft, body |-> None,
                               at |-> at, stamp |-> clock + 1], Columns)

\* updatePost().  Bound: one field at a time, which changes.
AnyCopy(c) == TRUE                                          \* (mutant)
Fresh(c) == copy[c].row.stamp = post[copy[c].id].stamp

UpdateLooks(c) ==
  LET i   == copy[c].id
      row == [post[i] EXCEPT !.stamp = clock + 1]
      Set(new, field) == new # row /\ Looked(c, "update", i, new, {field})
  IN  /\ copy[c] # None /\ i \in There /\ ~Held(i)
      /\ Fresh(c)
      /\ \/ /\ post[i].at = None
            /\ \E slug \in Slugs : SlugFree(i, slug) /\ Set([row EXCEPT !.slug = slug], "slug")
         \/ \E blog \in blogs \cup {None} : Set([row EXCEPT !.blog = blog], "blog")
         \/ \E draft \in Bodies : Set([row EXCEPT !.draft = draft], "draft")
         \/ \E at \in Dates \cup {None} : Set([row EXCEPT !.at = at], "at")

\* publishPost(): a date that is set is kept.
PublishLooks(c, i) ==
  /\ i \in There /\ ~Held(i)
  /\ post[i].draft \in Complete
  /\ \E now \in Dates :
       Looked(c, "publish", i,
              [post[i] EXCEPT !.body = post[i].draft, !.at = IF @ = None THEN now ELSE @,
                              !.stamp = clock + 1], {"body", "at"})

\* unpublishPost().
StampKept(i) == [post[i] EXCEPT !.at = None]                \* (mutant)
Unpublished(i) == [post[i] EXCEPT !.at = None, !.stamp = clock + 1]

UnpublishLooks(c, i) ==
  /\ i \in There /\ ~Held(i)
  /\ Looked(c, "unpublish", i, Unpublished(i), {"at"})

\* The statement that writes; it may fail on a constraint, or find no row.
\* The client is given the row it wrote.
NewRow(j) ==
  IF j.op = "create" THEN j.row
  ELSE [post[j.id] EXCEPT !.slug  = IF "slug"  \in j.fields THEN j.row.slug  ELSE @,
                          !.blog  = IF "blog"  \in j.fields THEN j.row.blog  ELSE @,
                          !.draft = IF "draft" \in j.fields THEN j.row.draft ELSE @,
                          !.body  = IF "body"  \in j.fields THEN j.row.body  ELSE @,
                          !.at    = IF "at"    \in j.fields THEN j.row.at    ELSE @,
                          !.stamp = j.row.stamp]

Admitted(i, row) == SlugFree(i, row.slug) /\ BlogThere(row.blog)

Write(c) ==
  /\ job[c] # None
  /\ LET i == job[c].id
     IN  IF (job[c].op = "create" \/ i \in There) /\ Admitted(i, NewRow(job[c]))
           THEN /\ SetPosts([post EXCEPT ![i] = NewRow(job[c])])
                /\ copy' = [copy EXCEPT ![c] = [id |-> i, row |-> NewRow(job[c])]]
           ELSE UNCHANGED <<post, walk, copy>>
  /\ job' = [job EXCEPT ![c] = None]
  /\ UNCHANGED <<blogs, clock>>

\* The request fails in between, or its process dies.
Abort(c) ==
  /\ job[c] # None
  /\ job' = [job EXCEPT ![c] = None]
  /\ UNCHANGED <<post, blogs, copy, clock, walk>>

\* deletePost(): one statement, which waits for the lock.
DeletePost(i) ==
  /\ i \in There /\ ~Held(i)
  /\ clock < MaxWrites /\ clock' = clock + 1
  /\ SetPosts([post EXCEPT ![i] = Gone])
  /\ UNCHANGED <<blogs, copy, job>>

\* createBlog().  Bound: a blog that was deleted may be the one created.
CreateBlog(b) ==
  /\ b \notin blogs /\ blogs' = blogs \cup {b}
  /\ UNCHANGED <<post, copy, job, clock, walk>>

\* deleteBlog(): ON DELETE SET NULL, which leaves updated_at alone and waits
\* for the rows it has to change.
DeleteBlog(b) ==
  /\ b \in blogs /\ \A i \in There : post[i].blog = b => ~Held(i)
  /\ blogs' = blogs \ {b}
  /\ SetPosts([i \in Ids |-> IF i \in There /\ post[i].blog = b
                               THEN [post[i] EXCEPT !.blog = None] ELSE post[i]])
  /\ UNCHANGED <<copy, job, clock>>

-----------------------------------------------------------------------------
(* GET /api/posts: newest first, by keyset on (published_at, id).          *)

Newer(k, l) == k[1] > l[1] \/ (k[1] = l[1] /\ k[2] > l[2])

Key(i) == <<post[i].at, i>>

\* The rows of one query: strictly beyond the cursor, no more than Limit.
OlderOnly(cursor, k) == cursor[1] > k[1]                    \* (mutant)
Past(cursor, k) == Newer(cursor, k)

Beyond(filter, cursor) ==
  {i \in Listed(post, filter) : cursor = None \/ Past(cursor, Key(i))}
Page(S) == {i \in S : Cardinality({j \in S : Newer(Key(j), Key(i))}) < Limit}
StartWalk ==
  /\ ~walk.on
  /\ \E filter \in blogs \cup {None} :
       walk' = [Home EXCEPT !.on = TRUE, !.filter = filter, !.steady = Listed(post, filter)]
  /\ UNCHANGED <<post, blogs, copy, job, clock>>

\* A further page exists if a row is left over; the walk ends without one.
NextPage ==
  LET rows == Beyond(walk.filter, walk.cursor)
      page == Page(rows)
  IN  /\ walk.on
      /\ \/ rows = page /\ walk' = Home
         \/ /\ rows # page
            /\ \E last \in page :
                 /\ \A i \in page \ {last} : Newer(Key(i), Key(last))
                 /\ walk' = [walk EXCEPT !.cursor = Key(last), !.seen = @ \cup page]
      /\ UNCHANGED <<post, blogs, copy, job, clock>>

-----------------------------------------------------------------------------
Admin(c) ==
  \/ \E i \in Ids : Load(c, i) \/ CreateLooks(c, i) \/ PublishLooks(c, i) \/ UnpublishLooks(c, i)
  \/ UpdateLooks(c) \/ Write(c) \/ Abort(c)

Next ==
  \/ \E c \in Clients : Admin(c)
  \/ \E i \in Ids : DeletePost(i)
  \/ \E b \in Blogs : CreateBlog(b) \/ DeleteBlog(b)
  \/ StartWalk \/ NextPage

Spec == Init /\ [][Next]_vars

-----------------------------------------------------------------------------
(* Properties.                                                             *)

RowTypes == [slug : Slugs, blog : Blogs \cup {None}, draft : Bodies, body : Bodies \cup {None},
             at : Dates \cup {None}, stamp : 0..MaxWrites]
Loaded == [id : Ids, row : RowTypes]

JobTypes == [op : {"create", "update", "publish", "unpublish"}, id : Ids, row : RowTypes,
             fields : SUBSET Columns, base : RowTypes \cup {None}]
WalkTypes == [on : BOOLEAN, filter : Blogs \cup {None}, cursor : (Dates \X Ids) \cup {None},
              seen : SUBSET Ids, steady : SUBSET Ids]

\* The type invariant: slugs are unique and every blog a post names is there,
\* although both were looked up before the write.
TypeOK ==
  /\ post \in [Ids -> RowTypes \cup {None, Gone}]
  /\ \A i, j \in There : post[i].slug = post[j].slug => i = j
  /\ \A i \in There : BlogThere(post[i].blog)
  /\ blogs \subseteq Blogs
  /\ copy \in [Clients -> Loaded \cup {None}]
  /\ job \in [Clients -> JobTypes \cup {None}]
  /\ clock \in 0..MaxWrites
  /\ walk \in WalkTypes

\* Two views of a post agree, but for the blog, which ON DELETE SET NULL
\* clears without a word.
SameBesidesBlog(r, s) ==
  r.slug = s.slug /\ r.draft = s.draft /\ r.body = s.body /\ r.at = s.at

\* updated_at tells one content of a row from another: it is the ETag of the
\* public post ("changes on any edit, publish, or unpublish") and what
\* expected_updated_at is compared with.
StampTellsContent ==
  \A c \in Clients : copy[c] # None /\ copy[c].id \in There =>
    LET row == post[copy[c].id]
    IN  copy[c].row.stamp = row.stamp => SameBesidesBlog(copy[c].row, row)

\* "a mismatch is a 409 with no write": an update only ever replaces the row
\* its client had loaded, whoever else writes between its look and its write.
NoLostEdit ==
  [][\A c \in Clients : job[c] # None /\ job[c].op = "update" /\ job'[c] = None /\ post' # post
       => SameBesidesBlog(job[c].base, post[job[c].id])]_vars

\* Slug immutability: while a post has its date, no request changes its slug,
\* not even one that looked before the post was published.
DatedSlugFixed ==
  [][\A i \in There : i \in Rows(post') /\ post[i].at # None /\ post'[i].at # None
       => post'[i].slug = post[i].slug]_vars

\* "invalid content can reach a draft, never production": what becomes the
\* public body is the draft the row holds at that moment, and complete.
PublishedIsDraft ==
  [][\A i \in There : i \in Rows(post') /\ post'[i].body # post[i].body
       => post'[i].body = post[i].draft /\ post[i].draft \in Complete]_vars

\* Why these hold: a stamp is handed out once, a row that is looked at is
\* locked, and so a decision is still right when it is written.
StampsFresh ==
  /\ \A i \in There : post[i].stamp <= clock
  /\ \A c \in Clients : copy[c] # None => copy[c].row.stamp <= clock
  /\ \A c \in Clients : job[c] # None =>
       /\ job[c].row.stamp <= clock
       /\ \A i \in There : post[i].stamp # job[c].row.stamp
       /\ \A d \in Clients : copy[d] # None => copy[d].row.stamp # job[c].row.stamp
       /\ \A d \in Clients \ {c} : job[d] # None =>
            job[d].row.stamp # job[c].row.stamp /\ job[d].id # job[c].id

RightFor(j, row) ==
  /\ j.op = "update" =>
       /\ SameBesidesBlog(j.base, row)
       /\ "body" \notin j.fields
       /\ "slug" \in j.fields => row.at = None /\ "at" \notin j.fields
  /\ j.op = "publish" =>
       j.fields = {"body", "at"} /\ j.row.body = row.draft /\ row.draft \in Complete
  /\ j.op = "unpublish" => j.fields = {"at"}

Decided ==
  \A c \in Clients : job[c] # None =>
    IF job[c].op = "create" THEN post[job[c].id] = None
    ELSE job[c].id \in There /\ RightFor(job[c], post[job[c].id])

PostsIInv == TypeOK /\ StampTellsContent /\ StampsFresh /\ Decided

\* "pagination is stable even as new posts are published": no page repeats a
\* post, and a walk to the last page has shown every post that was listed
\* under the same date all the while.
PagesAreStable ==
  [][walk.on /\ walk' # walk /\ UNCHANGED post =>
       LET page == Page(Beyond(walk.filter, walk.cursor))
       IN  /\ page \cap walk.seen = {}
           /\ ~walk'.on => walk.steady \subseteq walk.seen \cup page]_vars

\* Why it is so: the cursor parts what was shown from what is still to come,
\* and a post only crosses it with its date.
WalkIInv ==
  /\ walk.seen \subseteq There /\ walk.steady \subseteq Listed(post, walk.filter)
  /\ walk.cursor = None => walk.seen = {}
  /\ \A i \in walk.seen : post[i].at # None /\ ~Past(walk.cursor, Key(i))
  /\ walk.steady \subseteq Beyond(walk.filter, walk.cursor) \cup walk.seen

===============================================================================
