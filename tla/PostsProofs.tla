------------------------------ MODULE PostsProofs ------------------------------
(***************************************************************************)
(* For any number of posts, clients, blogs and requests: a stamp tells one *)
(* content of a row from another, no edit is lost, the slug of a dated     *)
(* post is fixed, and what is published is the complete draft of that      *)
(* moment; and the pages of a walk repeat nothing and leave nothing out.   *)
(* The argument: the lock makes what a request looked at last until it     *)
(* writes (Decided), stamps are handed out once (StampsFresh), and a       *)
(* cursor parts what was shown from what is to come (WalkIInv).            *)
(***************************************************************************)
EXTENDS Posts, FiniteSetTheorems, TLAPS

Ops == {"create", "update", "publish", "unpublish"}

\* What the type invariant says of a row, a request and a copy.
LEMMA Typed ==
  ASSUME TypeOK
  PROVE  /\ \A i \in There : i \in Ids /\ post[i] \in RowTypes
         /\ \A c \in Clients : job[c] # None => job[c] \in JobTypes
         /\ \A c \in Clients : copy[c] # None => copy[c] \in Loaded
         /\ clock \in Nat
BY PostsAssumption DEF TypeOK, There, Rows

LEMMA InitInv == Init => PostsIInv
<1> SUFFICES ASSUME Init PROVE PostsIInv
  OBVIOUS
<1>1. post \in [Ids -> RowTypes \cup {None, Gone}]
  <2> DEFINE Old == [slug : Slugs, blog : {None}, draft : Bodies,
                     body : Complete \cup {None}, at : Dates \cup {None}, stamp : {0}]
  <2>1. Old \subseteq RowTypes
    BY PostsAssumption DEF RowTypes
  <2>2. post \in [Ids -> {None} \cup Old]
    BY DEF Init
  <2> HIDE DEF Old
  <2> QED
    BY <2>1, <2>2
<1>2. \A i \in There : post[i].blog = None /\ post[i].stamp = 0
  BY DEF Init, There, Rows
<1>3. walk \in WalkTypes
  BY DEF Init, Home, WalkTypes
<1>4. TypeOK
  BY <1>1, <1>2, <1>3, PostsAssumption DEF Init, TypeOK, BlogThere
<1>5. StampTellsContent /\ StampsFresh /\ Decided
  BY <1>2 DEF Init, StampTellsContent, StampsFresh, Decided
<1> QED
  BY <1>4, <1>5 DEF PostsIInv

\* A request has looked: what it decided is right, and its stamp is new.
LEMMA LookedInv ==
  ASSUME PostsIInv, NEW c \in Clients, NEW op \in Ops, NEW i \in Ids, NEW row \in RowTypes,
         NEW fields \in SUBSET Columns, Looked(c, op, i, row, fields),
         row.stamp = clock + 1, ~Named(i), op = "update" => copy[c] # None,
         op = "create" => post[i] = None,
         op # "create" => i \in There /\ RightFor(job'[c], post[i])
  PROVE  PostsIInv'
<1> DEFINE base == IF op = "update" THEN copy[c].row ELSE None
           j == [op |-> op, id |-> i, row |-> row, fields |-> fields, base |-> base]
<1>1. /\ job' = [job EXCEPT ![c] = j]
      /\ job[c] = None /\ clock < MaxWrites /\ clock' = clock + 1
      /\ UNCHANGED <<post, blogs, copy, walk>>
  BY DEF Looked
<1>2. base \in RowTypes \cup {None}
  BY Typed DEF PostsIInv, Loaded
<1>3. j \in JobTypes
  BY <1>2 DEF JobTypes, Ops
<1>4. j.op = op /\ j.id = i /\ j.row = row
  OBVIOUS
<1> HIDE DEF j
<1>5. job'[c] = j /\ \A d \in Clients \ {c} : job'[d] = job[d]
  BY <1>1 DEF PostsIInv, TypeOK
<1>6. There' = There
  BY <1>1 DEF There, Rows
<1>7. TypeOK'
  <2>1. job' \in [Clients -> JobTypes \cup {None}]
    BY <1>1, <1>3 DEF PostsIInv, TypeOK
  <2>2. clock' \in 0..MaxWrites
    BY <1>1, PostsAssumption DEF PostsIInv, TypeOK
  <2> QED
    BY <1>1, <1>6, <2>1, <2>2 DEF PostsIInv, TypeOK, BlogThere
<1>8. StampTellsContent'
  BY <1>1, <1>6 DEF PostsIInv, StampTellsContent
<1>9. StampsFresh'
  <2>1. /\ \A k \in There : post[k].stamp \in Nat /\ post[k].stamp <= clock
        /\ \A d \in Clients : copy[d] # None =>
             copy[d].row.stamp \in Nat /\ copy[d].row.stamp <= clock
        /\ \A d \in Clients : job[d] # None =>
             job[d].row.stamp \in Nat /\ job[d].row.stamp <= clock /\ job[d].id # i
    BY Typed, PostsAssumption DEF PostsIInv, StampsFresh, RowTypes, JobTypes, Loaded, Named
  <2>2. clock \in Nat
    BY Typed DEF PostsIInv
  <2>3. /\ \A k \in There' : post'[k].stamp <= clock'
        /\ \A d \in Clients : copy'[d] # None => copy'[d].row.stamp <= clock'
    BY <1>1, <1>6, <2>1, <2>2
  <2>4. ASSUME NEW d \in Clients, job'[d] # None
        PROVE  /\ job'[d].row.stamp <= clock'
               /\ \A k \in There' : post'[k].stamp # job'[d].row.stamp
               /\ \A e \in Clients : copy'[e] # None => copy'[e].row.stamp # job'[d].row.stamp
               /\ \A e \in Clients \ {d} : job'[e] # None =>
                    job'[e].row.stamp # job'[d].row.stamp /\ job'[e].id # job'[d].id
    <3>1. CASE d = c
      BY <3>1, <1>1, <1>4, <1>5, <1>6, <2>1, <2>2
    <3>2. CASE d # c
      BY <3>2, <2>4, <1>1, <1>4, <1>5, <1>6, <2>1, <2>2 DEF PostsIInv, StampsFresh
    <3> QED
      BY <3>1, <3>2
  <2> QED
    BY <2>3, <2>4 DEF StampsFresh
<1>10. Decided'
  <2> SUFFICES ASSUME NEW d \in Clients, job'[d] # None
               PROVE  IF job'[d].op = "create" THEN post'[job'[d].id] = None
                      ELSE /\ job'[d].id \in There'
                           /\ RightFor(job'[d], post'[job'[d].id])
    BY DEF Decided, RightFor
  <2>1. CASE d = c
    BY <2>1, <1>1, <1>4, <1>5, <1>6
  <2>2. CASE d # c
    BY <2>2, <1>1, <1>5, <1>6 DEF PostsIInv, Decided
  <2> QED
    BY <2>1, <2>2
<1> QED
  BY <1>7, <1>8, <1>9, <1>10 DEF PostsIInv

\* What a request that looks has decided, whatever its action.
LEMMA Decides ==
  ASSUME PostsIInv, NEW c \in Clients, NEW op, NEW i, NEW row, NEW fields,
         Looked(c, op, i, row, fields)
  PROVE  /\ job'[c].op = op /\ job'[c].row = row /\ job'[c].fields = fields
         /\ op = "update" => job'[c].base = copy[c].row
         /\ clock + 1 \in 0..MaxWrites
<1>1. job'[c] = [op |-> op, id |-> i, row |-> row, fields |-> fields,
                 base |-> IF op = "update" THEN copy[c].row ELSE None]
  BY DEF Looked, PostsIInv, TypeOK
<1>2. clock + 1 \in 0..MaxWrites
  BY PostsAssumption DEF Looked, PostsIInv, TypeOK
<1> QED
  BY <1>1, <1>2

LEMMA CreateInv ==
  ASSUME PostsIInv, NEW c \in Clients, NEW i \in Ids, CreateLooks(c, i)
  PROVE  PostsIInv'
<1>1. PICK slug \in Slugs, blog \in blogs \cup {None}, draft \in FirstDrafts, at \in Dates \cup {None} :
        Looked(c, "create", i, [slug |-> slug, blog |-> blog, draft |-> draft, body |-> None,
                                at |-> at, stamp |-> clock + 1], Columns)
  BY DEF CreateLooks
<1> DEFINE row == [slug |-> slug, blog |-> blog, draft |-> draft, body |-> None,
                   at |-> at, stamp |-> clock + 1]
<1>2. row \in RowTypes
  BY <1>1, Decides, PostsAssumption DEF RowTypes, PostsIInv, TypeOK
<1>3. row.stamp = clock + 1
  OBVIOUS
<1>4. post[i] = None /\ ~Named(i)
  BY DEF CreateLooks
<1> HIDE DEF row
<1> QED
  BY <1>1, <1>2, <1>3, <1>4, LookedInv DEF Ops, row

LEMMA UpdateInv ==
  ASSUME PostsIInv, NEW c \in Clients, UpdateLooks(c)
  PROVE  PostsIInv'
<1> DEFINE i == copy[c].id
           old == [post[i] EXCEPT !.stamp = clock + 1]
<1>1. i \in There /\ i \in Ids /\ copy[c] # None /\ ~Named(i) /\ post[i] \in RowTypes
  BY Typed DEF UpdateLooks, Held, PostsIInv
<1>2. SameBesidesBlog(copy[c].row, post[i])
  BY <1>1 DEF UpdateLooks, Fresh, PostsIInv, StampTellsContent
<1>3. ASSUME NEW field \in Columns, NEW row \in RowTypes, row.stamp = clock + 1,
             Looked(c, "update", i, row, {field}), field # "body",
             field = "slug" => post[i].at = None
      PROVE  PostsIInv'
  <2>1. RightFor(job'[c], post[i])
    BY <1>2, <1>3, Decides DEF RightFor
  <2> QED
    BY <1>1, <1>3, <2>1, LookedInv DEF Ops
<1>4. clock + 1 \in 0..MaxWrites
  BY Decides DEF UpdateLooks
<1>5. old \in RowTypes /\ old.stamp = clock + 1
  BY <1>1, <1>4 DEF RowTypes
<1> HIDE DEF old
<1>6. CASE \E slug \in Slugs : post[i].at = None /\ Looked(c, "update", i, [old EXCEPT !.slug = slug], {"slug"})
  <2>1. PICK slug \in Slugs : post[i].at = None /\ Looked(c, "update", i, [old EXCEPT !.slug = slug], {"slug"})
    BY <1>6
  <2>2. [old EXCEPT !.slug = slug] \in RowTypes /\ [old EXCEPT !.slug = slug].stamp = clock + 1
    BY <1>5 DEF RowTypes
  <2> QED
    BY <1>3, <2>1, <2>2 DEF Columns
<1>7. CASE \E blog \in blogs \cup {None} : Looked(c, "update", i, [old EXCEPT !.blog = blog], {"blog"})
  <2>1. PICK blog \in Blogs \cup {None} : Looked(c, "update", i, [old EXCEPT !.blog = blog], {"blog"})
    BY <1>7 DEF PostsIInv, TypeOK
  <2>2. [old EXCEPT !.blog = blog] \in RowTypes /\ [old EXCEPT !.blog = blog].stamp = clock + 1
    BY <1>5 DEF RowTypes
  <2> QED
    BY <1>3, <2>1, <2>2 DEF Columns
<1>8. CASE \E draft \in Bodies : Looked(c, "update", i, [old EXCEPT !.draft = draft], {"draft"})
  <2>1. PICK draft \in Bodies : Looked(c, "update", i, [old EXCEPT !.draft = draft], {"draft"})
    BY <1>8
  <2>2. [old EXCEPT !.draft = draft] \in RowTypes /\ [old EXCEPT !.draft = draft].stamp = clock + 1
    BY <1>5 DEF RowTypes
  <2> QED
    BY <1>3, <2>1, <2>2 DEF Columns
<1>9. CASE \E at \in Dates \cup {None} : Looked(c, "update", i, [old EXCEPT !.at = at], {"at"})
  <2>1. PICK at \in Dates \cup {None} : Looked(c, "update", i, [old EXCEPT !.at = at], {"at"})
    BY <1>9
  <2>2. [old EXCEPT !.at = at] \in RowTypes /\ [old EXCEPT !.at = at].stamp = clock + 1
    BY <1>5 DEF RowTypes
  <2> QED
    BY <1>3, <2>1, <2>2 DEF Columns
<1> QED
  BY <1>6, <1>7, <1>8, <1>9 DEF UpdateLooks, old

LEMMA PublishInv ==
  ASSUME PostsIInv, NEW c \in Clients, NEW i \in Ids, PublishLooks(c, i)
  PROVE  PostsIInv'
<1>1. i \in There /\ ~Named(i) /\ post[i] \in RowTypes /\ post[i].draft \in Complete
  BY Typed DEF PublishLooks, Held, PostsIInv
<1> DEFINE Out(now) == [post[i] EXCEPT !.body = post[i].draft,
                                       !.at = IF @ = None THEN now ELSE @, !.stamp = clock + 1]
<1>2. PICK now \in Dates : Looked(c, "publish", i, Out(now), {"body", "at"})
  BY DEF PublishLooks
<1>3. clock + 1 \in 0..MaxWrites
  BY <1>2, Decides
<1>4. Out(now) \in RowTypes /\ Out(now).stamp = clock + 1 /\ Out(now).body = post[i].draft
  BY <1>1, <1>3, PostsAssumption DEF RowTypes
<1> HIDE DEF Out
<1>5. RightFor(job'[c], post[i])
  BY <1>1, <1>2, <1>4, Decides DEF RightFor
<1> QED
  BY <1>1, <1>2, <1>4, <1>5, LookedInv DEF Ops, Columns

LEMMA UnpublishInv ==
  ASSUME PostsIInv, NEW c \in Clients, NEW i \in Ids, UnpublishLooks(c, i)
  PROVE  PostsIInv'
<1>1. i \in There /\ ~Named(i) /\ post[i] \in RowTypes
  BY Typed DEF UnpublishLooks, Held, PostsIInv
<1>2. Looked(c, "unpublish", i, Unpublished(i), {"at"})
  BY DEF UnpublishLooks
<1>3. Unpublished(i) \in RowTypes /\ Unpublished(i).stamp = clock + 1
  BY <1>1, <1>2, Decides DEF RowTypes, Unpublished
<1>4. RightFor(job'[c], post[i])
  BY <1>2, Decides DEF RightFor
<1> QED
  BY <1>1, <1>2, <1>3, <1>4, LookedInv DEF Ops, Columns

\* Whatever the rows become, the walk keeps its type.
LEMMA WalkTyped ==
  ASSUME TypeOK, NEW new, SetPosts(new)
  PROVE  walk' \in WalkTypes
BY DEF TypeOK, WalkTypes, SetPosts

\* The row a request writes: typed if what it wrote over is, and with its stamp.
LEMMA NewRowTyped ==
  ASSUME NEW j \in JobTypes, j.op = "create" \/ post[j.id] \in RowTypes
  PROVE  NewRow(j) \in RowTypes /\ NewRow(j).stamp = j.row.stamp
<1>1. j.row \in RowTypes
  BY DEF JobTypes
<1>2. CASE j.op = "create"
  BY <1>1, <1>2 DEF NewRow
<1>3. CASE j.op # "create"
  <2> DEFINE old == post[j.id]
             With(field, new, kept) == IF field \in j.fields THEN new ELSE kept
             slug == With("slug", j.row.slug, old.slug)
             blog == With("blog", j.row.blog, old.blog)
             draft == With("draft", j.row.draft, old.draft)
             body == With("body", j.row.body, old.body)
             at == With("at", j.row.at, old.at)
  <2>1. old \in RowTypes
    BY <1>3
  <2>2. /\ slug \in Slugs /\ blog \in Blogs \cup {None} /\ draft \in Bodies
        /\ body \in Bodies \cup {None} /\ at \in Dates \cup {None}
        /\ j.row.stamp \in 0..MaxWrites
    BY <1>1, <2>1 DEF RowTypes
  <2>3. NewRow(j) = [old EXCEPT !.slug = slug, !.blog = blog, !.draft = draft,
                                !.body = body, !.at = at, !.stamp = j.row.stamp]
    BY <1>3, <2>1 DEF NewRow, RowTypes
  <2> HIDE DEF old, slug, blog, draft, body, at
  <2> QED
    BY <2>1, <2>2, <2>3 DEF RowTypes
<1> QED
  BY <1>2, <1>3

\* A request ends without having written.
LEMMA EndInv ==
  ASSUME PostsIInv, NEW c \in Clients, job' = [job EXCEPT ![c] = None],
         UNCHANGED <<post, blogs, copy, clock, walk>>
  PROVE  PostsIInv'
<1>1. job' \in [Clients -> JobTypes \cup {None}]
  BY DEF PostsIInv, TypeOK
<1>2. \A d \in Clients : job'[d] # None => job'[d] = job[d] /\ job[d] # None
  BY DEF PostsIInv, TypeOK
<1>3. There' = There
  BY DEF There, Rows
<1>4. TypeOK'
  BY <1>1, <1>3 DEF PostsIInv, TypeOK, BlogThere
<1>5. StampTellsContent'
  BY <1>3 DEF PostsIInv, StampTellsContent
<1>6. StampsFresh'
  BY <1>2, <1>3 DEF PostsIInv, StampsFresh
<1>7. Decided'
  BY <1>2, <1>3 DEF PostsIInv, Decided, RightFor
<1> QED
  BY <1>4, <1>5, <1>6, <1>7 DEF PostsIInv

\* A row is written: unique slug, blog there, and a stamp nobody has seen.
LEMMA WrittenInv ==
  ASSUME PostsIInv, NEW c \in Clients, job[c] # None, NEW i, i = job[c].id,
         NEW row, row = NewRow(job[c]), job[c].op = "create" \/ i \in There,
         Admitted(i, row), SetPosts([post EXCEPT ![i] = row]),
         copy' = [copy EXCEPT ![c] = [id |-> i, row |-> row]],
         job' = [job EXCEPT ![c] = None], UNCHANGED <<blogs, clock>>
  PROVE  PostsIInv'
<1>1. job[c] \in JobTypes /\ i \in Ids
  BY Typed DEF PostsIInv, JobTypes
<1>2. row \in RowTypes /\ row.stamp = job[c].row.stamp
  BY <1>1, Typed, NewRowTyped DEF PostsIInv
<1>3. /\ post' = [post EXCEPT ![i] = row] /\ post' \in [Ids -> RowTypes \cup {None, Gone}]
      /\ post'[i] = row /\ \A k \in Ids \ {i} : post'[k] = post[k]
  BY <1>1, <1>2 DEF SetPosts, PostsIInv, TypeOK
<1>4. There \subseteq Ids /\ There' \subseteq There \cup {i} /\ \A k \in There \ {i} : k \in There'
  BY <1>3 DEF There, Rows
<1>5. \A d \in Clients : job'[d] # None => d # c /\ job'[d] = job[d] /\ job[d] # None
  BY DEF PostsIInv, TypeOK
<1>6. /\ copy'[c] = [id |-> i, row |-> row]
      /\ \A d \in Clients \ {c} : copy'[d] = copy[d]
  BY DEF PostsIInv, TypeOK
<1>7. TypeOK'
  <2>1. \A k, l \in There' : post'[k].slug = post'[l].slug => k = l
    BY <1>3, <1>4 DEF PostsIInv, TypeOK, Admitted, SlugFree
  <2>2. \A k \in There' : post'[k].blog \in blogs' \cup {None}
    BY <1>3, <1>4 DEF PostsIInv, TypeOK, Admitted, BlogThere
  <2>3. copy' \in [Clients -> Loaded \cup {None}]
    BY <1>1, <1>2 DEF PostsIInv, TypeOK, Loaded
  <2>4. job' \in [Clients -> JobTypes \cup {None}]
    BY DEF PostsIInv, TypeOK
  <2>5. walk' \in WalkTypes
    BY WalkTyped DEF PostsIInv
  <2> QED
    BY <1>3, <2>1, <2>2, <2>3, <2>4, <2>5 DEF PostsIInv, TypeOK, BlogThere
<1>8. StampTellsContent'
  <2> SUFFICES ASSUME NEW d \in Clients, copy'[d] # None, copy'[d].id \in There',
                      copy'[d].row.stamp = post'[copy'[d].id].stamp
               PROVE  SameBesidesBlog(copy'[d].row, post'[copy'[d].id])
    BY DEF StampTellsContent, SameBesidesBlog
  <2>0. post'[i].stamp = job[c].row.stamp
    BY <1>2, <1>3
  <2>1. CASE d = c
    <3>1. copy'[d].id = i /\ copy'[d].row = row
      BY <2>1, <1>6
    <3> QED
      BY <3>1, <1>3 DEF SameBesidesBlog
  <2>2. CASE d # c /\ copy[d].id = i
    BY <2>0, <2>2, <1>6 DEF PostsIInv, StampsFresh
  <2>3. CASE d # c /\ copy[d].id # i
    <3>1. copy'[d] = copy[d] /\ copy[d].id \in There /\ copy[d].id \in Ids
      BY <2>3, <1>4, <1>6
    <3>2. post'[copy[d].id] = post[copy[d].id]
      BY <2>3, <3>1, <1>3
    <3> QED
      BY <3>1, <3>2 DEF PostsIInv, StampTellsContent
  <2> QED
    BY <2>1, <2>2, <2>3
<1>9. StampsFresh'
  <2>1. \A k \in There' : post'[k].stamp <= clock
    BY <1>2, <1>3, <1>4 DEF PostsIInv, StampsFresh
  <2>2. \A d \in Clients : copy'[d] # None => copy'[d].row.stamp <= clock
    BY <1>2, <1>6 DEF PostsIInv, StampsFresh
  <2>3. ASSUME NEW d \in Clients, job'[d] # None
        PROVE  /\ job[d].row.stamp <= clock
               /\ \A k \in There' : post'[k].stamp # job[d].row.stamp
               /\ \A e \in Clients : copy'[e] # None => copy'[e].row.stamp # job[d].row.stamp
               /\ \A e \in Clients \ {d} : job'[e] # None =>
                    job[e].row.stamp # job[d].row.stamp /\ job[e].id # job[d].id
    BY <2>3, <1>2, <1>3, <1>4, <1>5, <1>6 DEF PostsIInv, StampsFresh
  <2> QED
    BY <1>5, <2>1, <2>2, <2>3 DEF StampsFresh
<1>10. Decided'
  <2> SUFFICES ASSUME NEW d \in Clients, job'[d] # None
               PROVE  IF job'[d].op = "create" THEN post'[job'[d].id] = None
                      ELSE /\ job'[d].id \in There'
                           /\ RightFor(job'[d], post'[job'[d].id])
    BY DEF Decided, RightFor
  <2>1. job'[d] = job[d] /\ job[d] # None /\ job[d].id # i /\ job[d].id \in Ids
    BY <1>5, Typed DEF PostsIInv, StampsFresh, JobTypes
  <2> QED
    BY <1>3, <1>4, <2>1 DEF PostsIInv, Decided
<1> QED
  BY <1>7, <1>8, <1>9, <1>10 DEF PostsIInv

LEMMA WriteInv ==
  ASSUME PostsIInv, NEW c \in Clients, Write(c)
  PROVE  PostsIInv'
<1> DEFINE i == job[c].id
           ok == (job[c].op = "create" \/ i \in There) /\ Admitted(i, NewRow(job[c]))
<1>1. CASE ok
  BY <1>1, WrittenInv DEF Write
<1>2. CASE ~ok
  BY <1>2, EndInv DEF Write
<1> QED
  BY <1>1, <1>2

LEMMA LoadInv ==
  ASSUME PostsIInv, NEW c \in Clients, NEW i \in Ids, Load(c, i)
  PROVE  PostsIInv'
<1>1. /\ i \in There /\ post[i] \in RowTypes /\ There' = There
      /\ UNCHANGED <<post, blogs, job, clock, walk>>
  BY Typed DEF Load, PostsIInv, There, Rows
<1>2. /\ copy'[c] = [id |-> i, row |-> post[i]] /\ copy'[c].id = i /\ copy'[c].row = post[i]
      /\ \A d \in Clients \ {c} : copy'[d] = copy[d]
  BY DEF Load, PostsIInv, TypeOK
<1>3. TypeOK'
  <2>1. copy' \in [Clients -> Loaded \cup {None}]
    BY <1>1 DEF Load, PostsIInv, TypeOK, Loaded
  <2> QED
    BY <1>1, <2>1 DEF PostsIInv, TypeOK, BlogThere
<1>4. StampTellsContent'
  <2> SUFFICES ASSUME NEW d \in Clients, copy'[d] # None, copy'[d].id \in There,
                      copy'[d].row.stamp = post[copy'[d].id].stamp
               PROVE  SameBesidesBlog(copy'[d].row, post[copy'[d].id])
    BY <1>1 DEF StampTellsContent, SameBesidesBlog
  <2>1. CASE d = c
    BY <2>1, <1>2 DEF SameBesidesBlog
  <2>2. CASE d # c
    BY <2>2, <1>2 DEF PostsIInv, StampTellsContent
  <2> QED
    BY <2>1, <2>2
<1>5. StampsFresh'
  <2>1. \A d \in Clients : copy'[d] # None => copy'[d].row.stamp <= clock
    BY <1>1, <1>2 DEF PostsIInv, StampsFresh
  <2>2. \A d, e \in Clients : job[d] # None /\ copy'[e] # None =>
          copy'[e].row.stamp # job[d].row.stamp
    BY <1>1, <1>2 DEF PostsIInv, StampsFresh
  <2> QED
    BY <1>1, <2>1, <2>2 DEF PostsIInv, StampsFresh
<1>6. Decided'
  BY <1>1 DEF PostsIInv, Decided, RightFor
<1> QED
  BY <1>3, <1>4, <1>5, <1>6 DEF PostsIInv

\* The rows nobody holds change without their stamps: all is as it was, if the
\* other columns are (deleteBlog), or the row is gone (deletePost).
LEMMA ChangedInv ==
  ASSUME PostsIInv, SetPosts(post'), UNCHANGED <<copy, job>>,
         clock' \in 0..MaxWrites, clock <= clock', blogs' \subseteq Blogs,
         post' \in [Ids -> RowTypes \cup {None, Gone}], There' \subseteq There,
         \A i \in There' : /\ SameBesidesBlog(post'[i], post[i])
                           /\ post'[i].stamp = post[i].stamp
                           /\ post'[i].blog \in blogs' \cup {None},
         \A i \in Ids : post[i] = None => post'[i] = None,
         \A i \in There : Named(i) => i \in There'
  PROVE  PostsIInv'
<1>1. TypeOK'
  <2>1. \A i, j \in There' : post'[i].slug = post'[j].slug => i = j
    BY DEF PostsIInv, TypeOK, SameBesidesBlog
  <2>2. walk' \in WalkTypes
    BY WalkTyped DEF PostsIInv
  <2> QED
    BY <2>1, <2>2 DEF PostsIInv, TypeOK, BlogThere
<1>2. StampTellsContent'
  BY DEF PostsIInv, StampTellsContent, SameBesidesBlog
<1>3. StampsFresh'
  <2>1. clock \in Nat /\ clock' \in Nat
    BY Typed DEF PostsIInv
  <2>2. /\ \A i \in There : post[i].stamp \in Nat
        /\ \A c \in Clients : copy[c] # None => copy[c].row.stamp \in Nat
        /\ \A c \in Clients : job[c] # None => job[c].row.stamp \in Nat
    BY Typed, PostsAssumption DEF PostsIInv, RowTypes, Loaded, JobTypes
  <2> QED
    BY <2>1, <2>2 DEF PostsIInv, StampsFresh
<1>4. Decided'
  <2> SUFFICES ASSUME NEW c \in Clients, job[c] # None
               PROVE  IF job[c].op = "create" THEN post'[job[c].id] = None
                      ELSE /\ job[c].id \in There'
                           /\ RightFor(job[c], post'[job[c].id])
    BY DEF Decided, RightFor
  <2>1. job[c].id \in Ids
    BY Typed DEF PostsIInv, JobTypes
  <2>2. CASE job[c].op = "create"
    BY <2>1, <2>2 DEF PostsIInv, Decided
  <2>3. CASE job[c].op # "create"
    <3>1. job[c].id \in There /\ RightFor(job[c], post[job[c].id])
      BY <2>3 DEF PostsIInv, Decided
    <3>2. job[c].id \in There' /\ SameBesidesBlog(post'[job[c].id], post[job[c].id])
      BY <3>1 DEF Named
    <3> QED
      BY <2>3, <3>1, <3>2 DEF RightFor, SameBesidesBlog
  <2> QED
    BY <2>2, <2>3
<1> QED
  BY <1>1, <1>2, <1>3, <1>4 DEF PostsIInv

LEMMA DeletePostInv ==
  ASSUME PostsIInv, NEW i \in Ids, DeletePost(i)
  PROVE  PostsIInv'
<1>1. /\ i \in There /\ ~Named(i) /\ clock < MaxWrites /\ clock' = clock + 1
      /\ SetPosts([post EXCEPT ![i] = Gone]) /\ UNCHANGED <<blogs, copy, job>>
  BY DEF DeletePost, Held
<1>2. /\ post' = [post EXCEPT ![i] = Gone] /\ post' \in [Ids -> RowTypes \cup {None, Gone}]
      /\ post'[i] = Gone /\ \A k \in Ids \ {i} : post'[k] = post[k]
  BY <1>1 DEF SetPosts, PostsIInv, TypeOK
<1>3. There' = There \ {i} /\ There \subseteq Ids
  BY <1>2 DEF There, Rows
<1>4. clock' \in 0..MaxWrites /\ clock <= clock' /\ blogs' \subseteq Blogs
  BY <1>1, PostsAssumption DEF PostsIInv, TypeOK
<1>5. \A k \in There' : /\ SameBesidesBlog(post'[k], post[k])
                        /\ post'[k].stamp = post[k].stamp
                        /\ post'[k].blog \in blogs' \cup {None}
  BY <1>1, <1>2, <1>3 DEF SameBesidesBlog, PostsIInv, TypeOK, BlogThere
<1>6. \A k \in Ids : post[k] = None => post'[k] = None
  BY <1>1, <1>2 DEF There, Rows
<1> QED
  BY <1>1, <1>2, <1>3, <1>4, <1>5, <1>6, ChangedInv

\* What deleteBlog() does to the rows.
LEMMA BlogCleared ==
  ASSUME TypeOK, NEW b \in Blogs, DeleteBlog(b)
  PROVE  /\ post' \in [Ids -> RowTypes \cup {None, Gone}]
         /\ There' \subseteq There
         /\ \A i \in Ids \ There : post'[i] = post[i]
         /\ \A i \in There : /\ SameBesidesBlog(post'[i], post[i])
                             /\ post'[i].stamp = post[i].stamp
                             /\ post'[i].blog \in blogs' \cup {None}
                             /\ post[i].blog # b => post'[i] = post[i]
<1> DEFINE cleared(i) == [post[i] EXCEPT !.blog = None]
<1>1. post' = [i \in Ids |-> IF i \in There /\ post[i].blog = b THEN cleared(i) ELSE post[i]]
  BY DEF DeleteBlog, SetPosts
<1>2. \A i \in There : i \in Ids /\ post[i] \in RowTypes
  BY Typed
<1>3. \A i \in There : /\ cleared(i) \in RowTypes /\ cleared(i).blog = None
                       /\ SameBesidesBlog(cleared(i), post[i])
                       /\ cleared(i).stamp = post[i].stamp
  BY <1>2 DEF RowTypes, SameBesidesBlog
<1> HIDE DEF cleared
<1>4. post' \in [Ids -> RowTypes \cup {None, Gone}]
  BY <1>1, <1>3 DEF TypeOK
<1>5. \A i \in Ids \ There : post'[i] = post[i]
  BY <1>1
<1>6. There' \subseteq There
  BY <1>5 DEF There, Rows
<1>7. ASSUME NEW i \in There
      PROVE  /\ SameBesidesBlog(post'[i], post[i])
             /\ post'[i].stamp = post[i].stamp
             /\ post'[i].blog \in blogs' \cup {None}
             /\ post[i].blog # b => post'[i] = post[i]
  <2>1. CASE post[i].blog = b
    <3>1. post'[i] = cleared(i)
      BY <1>1, <1>2, <2>1
    <3> QED
      BY <1>3, <2>1, <3>1
  <2>2. CASE post[i].blog # b
    <3>1. post'[i] = post[i]
      BY <1>1, <1>2, <2>2
    <3>2. post[i].blog \in (blogs \ {b}) \cup {None}
      BY <2>2 DEF TypeOK, BlogThere
    <3> QED
      BY <3>1, <3>2 DEF SameBesidesBlog, DeleteBlog
  <2> QED
    BY <2>1, <2>2
<1> QED
  BY <1>4, <1>5, <1>6, <1>7

LEMMA DeleteBlogInv ==
  ASSUME PostsIInv, NEW b \in Blogs, DeleteBlog(b)
  PROVE  PostsIInv'
<1>1. TypeOK
  BY DEF PostsIInv
<1>2. /\ SetPosts(post') /\ UNCHANGED <<copy, job>> /\ clock' = clock /\ blogs' \subseteq Blogs
  BY <1>1 DEF DeleteBlog, SetPosts, TypeOK
<1>3. clock' \in 0..MaxWrites /\ clock <= clock'
  BY <1>1, <1>2, PostsAssumption DEF TypeOK
<1>4. \A i \in Ids : post[i] = None => post'[i] = None
  BY <1>1, BlogCleared DEF There, Rows
<1>5. ASSUME NEW i \in There, Named(i) PROVE i \in There'
  <2>1. post'[i] = post[i]
    BY <1>1, <1>5, BlogCleared DEF DeleteBlog, Held
  <2> QED
    BY <2>1 DEF There, Rows
<1> QED
  BY <1>1, <1>2, <1>3, <1>4, <1>5, BlogCleared, ChangedInv

LEMMA CreateBlogInv ==
  ASSUME PostsIInv, NEW b \in Blogs, CreateBlog(b)
  PROVE  PostsIInv'
<1>1. There' = There /\ blogs \subseteq blogs' /\ blogs' \subseteq Blogs
  BY DEF CreateBlog, PostsIInv, TypeOK, There, Rows
<1>2. TypeOK'
  BY <1>1 DEF CreateBlog, PostsIInv, TypeOK, BlogThere
<1>3. StampTellsContent' /\ StampsFresh'
  BY <1>1 DEF CreateBlog, PostsIInv, StampTellsContent, StampsFresh
<1>4. Decided'
  BY <1>1 DEF CreateBlog, PostsIInv, Decided, RightFor
<1> QED
  BY <1>2, <1>3, <1>4 DEF PostsIInv

\* The reader changes nothing but the walk.
LEMMA WalkInv ==
  ASSUME PostsIInv, UNCHANGED <<post, blogs, copy, job, clock>>, walk' \in WalkTypes
  PROVE  PostsIInv'
<1>1. There' = There
  BY DEF There, Rows
<1>2. TypeOK'
  BY <1>1 DEF PostsIInv, TypeOK, BlogThere
<1>3. StampTellsContent' /\ StampsFresh'
  BY <1>1 DEF PostsIInv, StampTellsContent, StampsFresh
<1>4. Decided'
  BY <1>1 DEF PostsIInv, Decided, RightFor
<1> QED
  BY <1>2, <1>3, <1>4 DEF PostsIInv

LEMMA ListedTyped ==
  ASSUME TypeOK, NEW filter
  PROVE  Listed(post, filter) \subseteq Ids /\ \A i \in Listed(post, filter) : post[i].at \in Dates
BY Typed DEF Listed, Public, There, Rows, RowTypes

LEMMA StartWalkInv ==
  ASSUME PostsIInv, StartWalk
  PROVE  PostsIInv'
<1>1. PICK filter \in Blogs \cup {None} :
        walk' = [Home EXCEPT !.on = TRUE, !.filter = filter, !.steady = Listed(post, filter)]
  BY DEF StartWalk, PostsIInv, TypeOK
<1>2. walk' \in WalkTypes
  BY <1>1, ListedTyped DEF PostsIInv, WalkTypes, Home
<1> QED
  BY <1>2, WalkInv DEF StartWalk

LEMMA NextPageInv ==
  ASSUME PostsIInv, NextPage
  PROVE  PostsIInv'
<1> DEFINE page == Page(Beyond(walk.filter, walk.cursor))
<1>1. CASE walk' = Home
  BY <1>1, WalkInv DEF NextPage, WalkTypes, Home
<1>2. CASE \E last \in page : walk' = [walk EXCEPT !.cursor = Key(last), !.seen = @ \cup page]
  <2>1. PICK last \in page : walk' = [walk EXCEPT !.cursor = Key(last), !.seen = @ \cup page]
    BY <1>2
  <2>2. page \subseteq Listed(post, walk.filter)
    BY DEF Page, Beyond
  <2>3. page \subseteq Ids /\ Key(last) \in Dates \X Ids
    BY <2>1, <2>2, ListedTyped DEF Key, PostsIInv
  <2> HIDE DEF page
  <2>4. walk' \in WalkTypes
    BY <2>1, <2>3 DEF PostsIInv, TypeOK, WalkTypes
  <2> QED
    BY <2>4, WalkInv DEF NextPage
<1> QED
  BY <1>1, <1>2 DEF NextPage

LEMMA NextInv == PostsIInv /\ [Next]_vars => PostsIInv'
<1> SUFFICES ASSUME PostsIInv, [Next]_vars PROVE PostsIInv'
  OBVIOUS
<1>1. ASSUME NEW c \in Clients, Admin(c) PROVE PostsIInv'
  <2>1. ASSUME NEW i \in Ids, Load(c, i) PROVE PostsIInv'
    BY <2>1, LoadInv
  <2>2. ASSUME NEW i \in Ids, CreateLooks(c, i) PROVE PostsIInv'
    BY <2>2, CreateInv
  <2>3. ASSUME NEW i \in Ids, PublishLooks(c, i) PROVE PostsIInv'
    BY <2>3, PublishInv
  <2>4. ASSUME NEW i \in Ids, UnpublishLooks(c, i) PROVE PostsIInv'
    BY <2>4, UnpublishInv
  <2>5. CASE UpdateLooks(c)
    BY <2>5, UpdateInv
  <2>6. CASE Write(c)
    BY <2>6, WriteInv
  <2>7. CASE Abort(c)
    BY <2>7, EndInv DEF Abort
  <2> QED
    BY <1>1, <2>1, <2>2, <2>3, <2>4, <2>5, <2>6, <2>7 DEF Admin
<1>2. ASSUME NEW i \in Ids, DeletePost(i) PROVE PostsIInv'
  BY <1>2, DeletePostInv
<1>3. ASSUME NEW b \in Blogs, CreateBlog(b) \/ DeleteBlog(b) PROVE PostsIInv'
  BY <1>3, CreateBlogInv, DeleteBlogInv
<1>4. CASE StartWalk
  BY <1>4, StartWalkInv
<1>5. CASE NextPage
  BY <1>5, NextPageInv
<1>6. CASE UNCHANGED vars
  BY <1>6, WalkInv DEF vars, PostsIInv, TypeOK
<1> QED
  BY <1>1, <1>2, <1>3, <1>4, <1>5, <1>6 DEF Next

LEMMA Invariant == Spec => []PostsIInv
<1> QED
  BY InitInv, NextInv, PTL DEF Spec

\* Slugs are unique, blogs are there, and the stamp a client holds tells it
\* whether the row is still the one it was given.
THEOREM PostsSafety == Spec => [](TypeOK /\ StampTellsContent)
<1>1. PostsIInv => TypeOK /\ StampTellsContent
  BY DEF PostsIInv
<1> QED
  BY <1>1, Invariant, PTL

-----------------------------------------------------------------------------
(* What a step may do to a row that is there.                              *)

LEMMA RowsChange ==
  ASSUME PostsIInv, Next, post' # post
  PROVE  \/ \E c \in Clients : /\ job[c] # None /\ job' = [job EXCEPT ![c] = None]
                               /\ job[c].op = "create" \/ job[c].id \in There
                               /\ post' = [post EXCEPT ![job[c].id] = NewRow(job[c])]
         \/ \E i \in Ids : post' = [post EXCEPT ![i] = Gone] /\ job' = job
         \/ \E b \in Blogs : DeleteBlog(b)
<1>1. ASSUME NEW c \in Clients, Admin(c) PROVE Write(c)
  BY <1>1 DEF Admin, Load, CreateLooks, UpdateLooks, PublishLooks, UnpublishLooks, Looked, Abort
<1>2. ASSUME NEW c \in Clients, Write(c)
      PROVE  /\ job[c] # None /\ job' = [job EXCEPT ![c] = None]
             /\ job[c].op = "create" \/ job[c].id \in There
             /\ post' = [post EXCEPT ![job[c].id] = NewRow(job[c])]
  BY <1>2 DEF Write, SetPosts
<1>3. ASSUME NEW i \in Ids, DeletePost(i)
      PROVE  post' = [post EXCEPT ![i] = Gone] /\ job' = job
  BY <1>3 DEF DeletePost, SetPosts
<1>4. ~StartWalk /\ ~NextPage /\ \A b \in Blogs : ~CreateBlog(b)
  BY DEF StartWalk, NextPage, CreateBlog
<1> QED
  BY <1>1, <1>2, <1>3, <1>4 DEF Next

\* A row that stays, and changes otherwise than by losing its blog, is written
\* by the request that had it, over the row that request looked at.
LEMMA Overwritten ==
  ASSUME PostsIInv, Next, NEW i \in There, i \in Rows(post'),
         ~SameBesidesBlog(post'[i], post[i])
  PROVE  \E c \in Clients : /\ job[c] \in JobTypes /\ job[c].id = i /\ job[c].op # "create"
                            /\ RightFor(job[c], post[i])
                            /\ post'[i] = NewRow(job[c])
<1>1. post' # post /\ i \in Ids
  BY DEF SameBesidesBlog, There, Rows
<1>2. ASSUME NEW b \in Blogs, DeleteBlog(b) PROVE FALSE
  BY <1>2, BlogCleared DEF PostsIInv
<1>3. ASSUME NEW k \in Ids, post' = [post EXCEPT ![k] = Gone] PROVE FALSE
  <2>1. k = i => post'[i] = Gone
    BY <1>1, <1>3 DEF PostsIInv, TypeOK
  <2>2. k # i => post'[i] = post[i]
    BY <1>1, <1>3 DEF PostsIInv, TypeOK
  <2> QED
    BY <2>1, <2>2 DEF Rows, SameBesidesBlog
<1>4. PICK c \in Clients : /\ job[c] # None
                           /\ job[c].op = "create" \/ job[c].id \in There
                           /\ post' = [post EXCEPT ![job[c].id] = NewRow(job[c])]
  BY <1>1, <1>2, <1>3, RowsChange
<1>5. job[c].id = i
  <2>1. job[c].id # i => post'[i] = post[i]
    BY <1>1, <1>4 DEF PostsIInv, TypeOK
  <2> QED
    BY <2>1 DEF SameBesidesBlog
<1>6. post'[i] = NewRow(job[c]) /\ job[c] \in JobTypes
  BY <1>1, <1>4, <1>5, Typed DEF PostsIInv, TypeOK
<1>7. job[c].op # "create" /\ RightFor(job[c], post[i])
  BY <1>4, <1>5 DEF PostsIInv, Decided, There, Rows
<1> QED
  BY <1>5, <1>6, <1>7

\* The columns of the row that is written.
LEMMA Columnwise ==
  ASSUME NEW j \in JobTypes, j.op # "create", post[j.id] \in RowTypes
  PROVE  /\ NewRow(j).slug = IF "slug" \in j.fields THEN j.row.slug ELSE post[j.id].slug
         /\ NewRow(j).body = IF "body" \in j.fields THEN j.row.body ELSE post[j.id].body
         /\ NewRow(j).at = IF "at" \in j.fields THEN j.row.at ELSE post[j.id].at
BY DEF NewRow, RowTypes

\* No edit is lost: what an update replaces is the row its client had loaded.
THEOREM NoEditIsLost == Spec => NoLostEdit
<1>1. ASSUME PostsIInv, Next, NEW c \in Clients, job[c] # None, job[c].op = "update",
             job'[c] = None, post' # post
      PROVE  SameBesidesBlog(job[c].base, post[job[c].id])
  BY <1>1 DEF PostsIInv, Decided, RightFor
<1>2. PostsIInv /\ [Next]_vars =>
        [\A c \in Clients : job[c] # None /\ job[c].op = "update" /\ job'[c] = None /\ post' # post
         => SameBesidesBlog(job[c].base, post[job[c].id])]_vars
  BY <1>1
<1> QED
  BY <1>2, Invariant, PTL DEF Spec, NoLostEdit

\* While a post has its date, its slug does not change.
THEOREM SlugsStay == Spec => DatedSlugFixed
<1>1. ASSUME PostsIInv, Next, NEW i \in There, i \in Rows(post'),
             post[i].at # None, post'[i].at # None
      PROVE  post'[i].slug = post[i].slug
  <2>1. CASE SameBesidesBlog(post'[i], post[i])
    BY <2>1 DEF SameBesidesBlog
  <2>2. CASE ~SameBesidesBlog(post'[i], post[i])
    <3>1. PICK c \in Clients : /\ job[c] \in JobTypes /\ job[c].id = i /\ job[c].op # "create"
                               /\ RightFor(job[c], post[i])
                               /\ post'[i] = NewRow(job[c])
      BY <1>1, <2>2, Overwritten
    <3>2. "slug" \notin job[c].fields
      BY <1>1, <3>1 DEF RightFor, JobTypes
    <3>3. post[i] \in RowTypes
      BY <1>1, Typed DEF PostsIInv
    <3> QED
      BY <3>1, <3>2, <3>3, Columnwise
  <2> QED
    BY <2>1, <2>2
<1>2. PostsIInv /\ [Next]_vars =>
        [\A i \in There : i \in Rows(post') /\ post[i].at # None /\ post'[i].at # None
         => post'[i].slug = post[i].slug]_vars
  BY <1>1
<1> QED
  BY <1>2, Invariant, PTL DEF Spec, DatedSlugFixed

\* What becomes the public body is the complete draft the row holds then.
THEOREM OnlyDraftsArePublished == Spec => PublishedIsDraft
<1>1. ASSUME PostsIInv, Next, NEW i \in There, i \in Rows(post'), post'[i].body # post[i].body
      PROVE  post'[i].body = post[i].draft /\ post[i].draft \in Complete
  <2>1. ~SameBesidesBlog(post'[i], post[i])
    BY <1>1 DEF SameBesidesBlog
  <2>2. PICK c \in Clients : /\ job[c] \in JobTypes /\ job[c].id = i /\ job[c].op # "create"
                             /\ RightFor(job[c], post[i])
                             /\ post'[i] = NewRow(job[c])
    BY <1>1, <2>1, Overwritten
  <2>3. post[i] \in RowTypes
    BY <1>1, Typed DEF PostsIInv
  <2>4. "body" \in job[c].fields
    BY <1>1, <2>2, <2>3, Columnwise
  <2>5. job[c].op = "publish"
    BY <2>2, <2>4 DEF RightFor, JobTypes
  <2> QED
    BY <2>2, <2>3, <2>4, <2>5, Columnwise DEF RightFor
<1>2. PostsIInv /\ [Next]_vars =>
        [\A i \in There : i \in Rows(post') /\ post'[i].body # post[i].body
         => post'[i].body = post[i].draft /\ post[i].draft \in Complete]_vars
  BY <1>1
<1> QED
  BY <1>2, Invariant, PTL DEF Spec, PublishedIsDraft

-----------------------------------------------------------------------------
(* The walk: the cursor parts the posts.                                   *)

\* Keys are ordered, strictly and linearly.
LEMMA KeyOrder ==
  ASSUME NEW k \in Nat \X Nat, NEW l \in Nat \X Nat
  PROVE  /\ ~(Newer(k, l) /\ Newer(l, k))
         /\ k = l \/ Newer(k, l) \/ Newer(l, k)
         /\ \A m \in Nat \X Nat : Newer(k, l) /\ Newer(l, m) => Newer(k, m)
BY DEF Newer

\* The posts that a walk lists are there and have keys; so has its cursor.
LEMMA Keys ==
  ASSUME TypeOK
  PROVE  /\ \A filter : /\ Listed(post, filter) \subseteq There
                        /\ \A i \in Listed(post, filter) : post[i].at # None
         /\ \A i \in There : /\ i \in Ids
                             /\ post[i].at # None => Key(i) \in Nat \X Nat /\ Key(i)[2] = i
         /\ walk.cursor # None => walk.cursor \in Nat \X Nat
<1>1. \A i \in There : i \in Ids /\ post[i].at \in Dates \cup {None}
  BY Typed DEF RowTypes
<1>2. \A i \in There : post[i].at # None => Key(i) \in Nat \X Nat /\ Key(i)[2] = i
  BY <1>1, PostsAssumption DEF Key
<1>3. walk.cursor # None => walk.cursor \in Nat \X Nat
  BY PostsAssumption DEF TypeOK, WalkTypes
<1> QED
  BY <1>1, <1>2, <1>3 DEF Listed, Public, There

\* The rows change: what is still shown or steady has its key of before.
LEMMA SetPostsWalk ==
  ASSUME TypeOK, WalkIInv, NEW new, SetPosts(new)
  PROVE  WalkIInv'
<1>1. /\ post' = new /\ walk'.filter = walk.filter /\ walk'.cursor = walk.cursor
      /\ walk'.steady = {i \in walk.steady : i \in Listed(new, walk.filter) /\ new[i].at = post[i].at}
      /\ walk'.seen = {i \in walk.seen : i \in Rows(new) /\ new[i].at = post[i].at}
  BY DEF SetPosts, TypeOK, WalkTypes
<1>2. \A i \in walk'.seen \cup walk'.steady : Key(i)' = Key(i)
  BY <1>1 DEF Key
<1>3. walk'.seen \subseteq There' /\ walk'.steady \subseteq Listed(post, walk.filter)'
  BY <1>1 DEF There
<1>4. walk'.cursor = None => walk'.seen = {}
  BY <1>1 DEF WalkIInv
<1>5. \A i \in walk'.seen : post'[i].at # None /\ ~Past(walk'.cursor, Key(i)')
  BY <1>1, <1>2 DEF WalkIInv
<1>6. \A i \in walk'.steady : i \in Beyond(walk.filter, walk.cursor)' \/ i \in walk'.seen
  <2> SUFFICES ASSUME NEW i \in walk'.steady, i \notin walk'.seen
               PROVE  i \in Beyond(walk.filter, walk.cursor)'
    OBVIOUS
  <2>1. i \in Listed(new, walk.filter) /\ new[i].at = post[i].at /\ i \in walk.steady
    BY <1>1
  <2>2. i \in Beyond(walk.filter, walk.cursor)
    BY <1>1, <2>1 DEF WalkIInv, Listed, Public
  <2>3. walk'.cursor = None \/ Past(walk'.cursor, Key(i)')
    BY <1>1, <1>2, <2>2 DEF Beyond
  <2> QED
    BY <1>1, <2>1, <2>3 DEF Beyond
<1> QED
  BY <1>1, <1>3, <1>4, <1>5, <1>6 DEF WalkIInv, Past

\* What is newer than the last of a page is on the page.
LEMMA NewerOnPage ==
  ASSUME NEW S \in SUBSET Ids, \A i \in S : Key(i) \in Nat \X Nat,
         NEW last \in Page(S), NEW i \in S, Newer(Key(i), Key(last))
  PROVE  i \in Page(S)
<1> DEFINE Ahead(k) == {j \in S : Newer(Key(j), Key(k))}
<1>1. Ahead(i) \subseteq Ahead(last)
  BY KeyOrder DEF Page
<1>2. IsFiniteSet(Ahead(last)) /\ IsFiniteSet(Ahead(i))
  BY FS_Subset, PostsAssumption
<1>3. /\ Cardinality(Ahead(i)) <= Cardinality(Ahead(last))
      /\ Cardinality(Ahead(i)) \in Nat /\ Cardinality(Ahead(last)) \in Nat
  BY <1>1, <1>2, FS_Subset, FS_CardinalityType
<1>4. Cardinality(Ahead(last)) < Limit
  BY DEF Page
<1>5. Cardinality(Ahead(i)) < Limit
  BY <1>3, <1>4, PostsAssumption
<1> QED
  BY <1>5 DEF Page

LEMMA NextPageWalk ==
  ASSUME TypeOK, WalkIInv, NextPage
  PROVE  WalkIInv'
<1> DEFINE rows == Beyond(walk.filter, walk.cursor)
           page == Page(rows)
<1>0. UNCHANGED post
  BY DEF NextPage
<1>1. CASE walk' = Home
  BY <1>1 DEF Home, WalkIInv
<1>2. CASE \E last \in page :
             /\ \A i \in page \ {last} : Newer(Key(i), Key(last))
             /\ walk' = [walk EXCEPT !.cursor = Key(last), !.seen = @ \cup page]
  <2>1. PICK last \in page :
          /\ \A i \in page \ {last} : Newer(Key(i), Key(last))
          /\ walk' = [walk EXCEPT !.cursor = Key(last), !.seen = @ \cup page]
    BY <1>2
  <2>2. /\ walk'.filter = walk.filter /\ walk'.cursor = Key(last)
        /\ walk'.steady = walk.steady /\ walk'.seen = walk.seen \cup page
    BY <2>1 DEF TypeOK, WalkTypes
  <2>3. /\ rows \subseteq Listed(post, walk.filter) /\ page \subseteq rows
        /\ rows \subseteq There /\ rows \subseteq Ids
        /\ \A i \in rows : post[i].at # None /\ Key(i) \in Nat \X Nat
        /\ \A i \in rows : walk.cursor = None \/ Newer(walk.cursor, Key(i))
    BY Keys DEF Page, Beyond, Past
  <2>4. last \in page /\ last \in rows /\ Key(last) \in Nat \X Nat /\ Key(last) # None
    <3>1. last \in page /\ last \in rows /\ Key(last) \in Nat \X Nat
      BY <2>1, <2>3
    <3>2. post[last].at \in Dates /\ last \in Ids
      BY <2>3, <3>1, ListedTyped
    <3>3. Key(last) # None
      BY <3>2, PostsAssumption DEF Key
    <3> QED
      BY <3>1, <3>3
  <2>5. \A i \in walk.seen : post[i].at # None /\ Key(i) \in Nat \X Nat /\ i \in There
    BY Keys DEF WalkIInv
  <2>6. ASSUME NEW i \in walk'.seen
        PROVE  post[i].at # None /\ ~Past(Key(last), Key(i)) /\ i \in There
    <3>1. CASE i \in page
      BY <3>1, <2>1, <2>3, <2>4, KeyOrder DEF Past
    <3>2. CASE i \in walk.seen
      <4>1. walk.cursor \in Nat \X Nat /\ ~Newer(walk.cursor, Key(i))
        BY <3>2, Keys DEF WalkIInv, Past
      <4>2. Newer(walk.cursor, Key(last))
        BY <2>3, <2>4, <3>2 DEF WalkIInv
      <4> QED
        BY <3>2, <2>4, <2>5, <4>1, <4>2, KeyOrder DEF Past
    <3> QED
      BY <2>2, <3>1, <3>2
  <2>7. ASSUME NEW i \in walk.steady, i \notin walk'.seen
        PROVE  i \in Listed(post, walk.filter) /\ Past(Key(last), Key(i))
    <3>1. i \in rows /\ i \notin page
      BY <2>2, <2>7 DEF WalkIInv
    <3>2. ~Newer(Key(i), Key(last))
      BY <2>3, <2>4, <3>1, NewerOnPage
    <3>3. Key(i) # Key(last)
      BY <2>3, <2>4, <3>1, Keys
    <3> QED
      BY <2>3, <2>4, <3>1, <3>2, <3>3, KeyOrder DEF Past
  <2> HIDE DEF rows, page
  <2>8. \A i \in walk'.seen \cup walk'.steady : Key(i)' = Key(i)
    BY <1>0 DEF Key
  <2>9. There' = There /\ Listed(post, walk.filter)' = Listed(post, walk.filter)
    BY <1>0, <2>2 DEF There, Listed
  <2>10. ASSUME NEW i \in walk'.steady, i \notin walk'.seen
         PROVE  i \in Beyond(walk.filter, walk.cursor)'
    <3>1. i \in Listed(post, walk.filter) /\ Past(walk'.cursor, Key(i))
      BY <2>2, <2>7, <2>10
    <3>2. i \in Listed(post, walk.filter)' /\ Past(walk'.cursor, Key(i)')
      BY <2>8, <2>9, <2>10, <3>1
    <3> QED
      BY <3>2 DEF Beyond, Past
  <2>11. /\ walk'.seen \subseteq There' /\ walk'.steady \subseteq Listed(post, walk.filter)'
         /\ walk'.cursor # None
    BY <2>2, <2>4, <2>6, <2>9 DEF WalkIInv
  <2>12. \A i \in walk'.seen : post'[i].at # None /\ ~Past(walk'.cursor, Key(i)')
    BY <1>0, <2>2, <2>6, <2>8
  <2> QED
    BY <2>10, <2>11, <2>12 DEF WalkIInv, Past
<1> QED
  BY <1>1, <1>2 DEF NextPage

\* Every step either sets the rows, or leaves them and moves the reader, or
\* leaves both.
LEMMA WalkSteps ==
  ASSUME TypeOK, Next
  PROVE  (\E new : SetPosts(new)) \/ StartWalk \/ NextPage \/ UNCHANGED <<post, walk>>
<1>1. ASSUME NEW c \in Clients, Admin(c)
      PROVE  (\E new : SetPosts(new)) \/ UNCHANGED <<post, walk>>
  BY <1>1 DEF Admin, Load, CreateLooks, PublishLooks, UnpublishLooks, UpdateLooks, Looked, Write, Abort
<1> QED
  BY <1>1 DEF Next, DeletePost, CreateBlog, DeleteBlog

LEMMA WalkNext == TypeOK /\ WalkIInv /\ [Next]_vars => WalkIInv'
<1> SUFFICES ASSUME TypeOK, WalkIInv, [Next]_vars PROVE WalkIInv'
  OBVIOUS
<1>1. CASE \E new : SetPosts(new)
  BY <1>1, SetPostsWalk
<1>2. CASE StartWalk
  <2>1. PICK filter \in blogs \cup {None} :
          walk' = [Home EXCEPT !.on = TRUE, !.filter = filter, !.steady = Listed(post, filter)]
    BY <1>2 DEF StartWalk
  <2>2. /\ walk'.filter = filter /\ walk'.steady = Listed(post, filter)
        /\ walk'.cursor = None /\ walk'.seen = {} /\ UNCHANGED post
    BY <1>2, <2>1 DEF Home, StartWalk
  <2> QED
    BY <2>2 DEF WalkIInv, Beyond, Listed
<1>3. CASE NextPage
  BY <1>3, NextPageWalk
<1>4. CASE UNCHANGED <<post, walk>>
  BY <1>4 DEF WalkIInv, There, Listed, Beyond, Key
<1> QED
  BY <1>1, <1>2, <1>3, <1>4, WalkSteps DEF vars

LEMMA WalkInvariant == Spec => [](TypeOK /\ WalkIInv)
<1>1. Init => WalkIInv
  BY DEF Init, WalkIInv, Home
<1>2. PostsIInv => TypeOK
  BY DEF PostsIInv
<1> QED
  BY <1>1, <1>2, WalkNext, Invariant, PTL DEF Spec

\* No page repeats a post, and a walk to its end has shown every post that was
\* listed under one date all the while, whatever was written in between.
THEOREM PagesStay == Spec => PagesAreStable
<1>1. ASSUME TypeOK, WalkIInv, Next, walk.on
      PROVE  LET page == Page(Beyond(walk.filter, walk.cursor))
             IN  /\ page \cap walk.seen = {}
                 /\ ~walk'.on => walk.steady \subseteq walk.seen \cup page
  <2> DEFINE rows == Beyond(walk.filter, walk.cursor)
             page == Page(rows)
  <2>1. page \subseteq rows /\ \A i \in rows : walk.cursor = None \/ Past(walk.cursor, Key(i))
    BY DEF Page, Beyond
  <2>2. ASSUME ~walk'.on PROVE rows = page
    <3>1. ~(\E new : SetPosts(new)) /\ ~StartWalk /\ walk' # walk
      BY <1>1, <2>2 DEF SetPosts, StartWalk, TypeOK, WalkTypes
    <3>2. NextPage
      BY <1>1, <3>1, WalkSteps
    <3> HIDE DEF page
    <3> QED
      BY <1>1, <2>2, <3>2 DEF NextPage, page, TypeOK, WalkTypes
  <2>3. walk.steady \subseteq rows \cup walk.seen
    BY <1>1 DEF WalkIInv
  <2>4. page \cap walk.seen = {}
    <3> HIDE DEF rows, page
    <3> QED
      BY <1>1, <2>1 DEF WalkIInv
  <2> QED
    BY <2>2, <2>3, <2>4
<1>2. TypeOK /\ WalkIInv /\ [Next]_vars =>
        [walk.on /\ walk' # walk /\ UNCHANGED post =>
           LET page == Page(Beyond(walk.filter, walk.cursor))
           IN  /\ page \cap walk.seen = {}
               /\ ~walk'.on => walk.steady \subseteq walk.seen \cup page]_vars
  BY <1>1
<1> QED
  BY <1>2, WalkInvariant, PTL DEF Spec, PagesAreStable
===============================================================================
