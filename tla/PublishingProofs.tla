--------------------------- MODULE PublishingProofs ---------------------------
(***************************************************************************)
(* Proofs about Publishing, for any number of rows, of publishes and       *)
(* restores under way, and any retention: the history of versions is whole *)
(* and append-only, what is live is valid and shows nothing that was       *)
(* hidden all the while, and a restore leaves drafts that publish as the   *)
(* version it made live.                                                   *)
(***************************************************************************)
EXTENDS Publishing, FiniteSetTheorems, TLAPS

-------------------------------------------------------------------------------
(* The history.                                                            *)

\* The versions in it are the newest ones, and it is a function.
Whole ==
  /\ Latest \in Nat \ {0}
  /\ DOMAIN versions = {v \in 1..Latest : v + VersionRetention > Latest}
  /\ versions = [v \in DOMAIN versions |-> versions[v]]

LEMMA NewestOf ==
  ASSUME NEW f, NEW n \in Nat \ {0}, DOMAIN f = {v \in 1..n : v + VersionRetention > n}
  PROVE  (CHOOSE v \in DOMAIN f : \A u \in DOMAIN f : u <= v) = n
<1>1. n \in DOMAIN f /\ \A u \in DOMAIN f : u \in Nat /\ u <= n
  BY PublishingAssumption
<1>2. \A m \in DOMAIN f : (\A u \in DOMAIN f : u <= m) => m = n
  BY <1>1
<1>3. QED
  BY <1>1, <1>2

LEMMA AboveIn ==
  ASSUME NEW a \in Int, NEW n \in Int, NEW u \in Int, a <= u + 1, u <= n
  PROVE  Cardinality({x \in a..n : x > u}) = n - u
<1>1. {x \in a..n : x > u} = (u + 1)..n
  OBVIOUS
<1>2. Cardinality((u + 1)..n) = IF u + 1 > n THEN 0 ELSE n - (u + 1) + 1
  BY FS_Interval
<1>3. Cardinality({x \in a..n : x > u}) = Cardinality((u + 1)..n)
  BY <1>1
<1>4. QED
  BY <1>2, <1>3

(* pruneVersions() by rank keeps the newest VersionRetention versions: the *)
(* number after the newest is kept and pushes the oldest one out, and a    *)
(* number so old that it had been pruned goes at once.                     *)
LEMMA NextNumber ==
  ASSUME Whole, NEW doc
  PROVE  LET v == Latest + 1
             V == Inserted(v, doc)
         IN  /\ DOMAIN V = {u \in 1..v : u + VersionRetention > v}
             /\ V[v] = doc
             /\ \A u \in DOMAIN V : u # v => u \in DOMAIN versions /\ V[u] = versions[u]
<1> DEFINE L == Latest
           v == L + 1
           S == DOMAIN versions \cup {v}
           R == VersionRetention
           a == IF L > R THEN L - R + 1 ELSE 1
<1>1. L \in Nat \ {0} /\ R \in Nat \ {0} /\ a \in Nat
  BY PublishingAssumption DEF Whole
<1>2. S = a..v
  BY <1>1 DEF Whole
<1> HIDE DEF a, L
<1>3. ASSUME NEW u \in S PROVE Cardinality({x \in S : x > u}) < R <=> u + R > v
  <2>1. u \in Int /\ a <= u + 1 /\ u <= v
    BY <1>1, <1>2
  <2>2. Cardinality({x \in a..v : x > u}) = v - u
    BY <1>1, <2>1, AboveIn
  <2>3. {x \in S : x > u} = {x \in a..v : x > u}
    BY <1>2
  <2>4. Cardinality({x \in S : x > u}) = v - u
    BY <2>2, <2>3
  <2>5. QED
    BY <1>1, <2>1, <2>4
<1>4. Retained(S) = {u \in S : u + R > v}
  BY <1>3 DEF Retained
<1>5. Retained(S) = {u \in 1..v : u + R > v}
  BY <1>1, <1>4 DEF Whole, L
<1>6. v \in Retained(S) /\ \A u \in Retained(S) : u # v => u \in DOMAIN versions
  BY <1>1, <1>5, <1>4
<1>7. QED
  BY <1>5, <1>6 DEF Inserted, L

LEMMA PrunedNumber ==
  ASSUME Whole, NEW v \in 1..Latest, Free(v), NEW doc
  PROVE  Inserted(v, doc) = versions
<1> DEFINE L == Latest
           S == DOMAIN versions \cup {v}
           R == VersionRetention
<1>1. L \in Nat \ {0} /\ R \in Nat \ {0} /\ v \in Nat \ {0}
  BY PublishingAssumption DEF Whole
<1>2. v + R <= L /\ DOMAIN versions = (L - R + 1)..L
  BY <1>1 DEF Free, Whole
<1> HIDE DEF L
<1>3. ASSUME NEW u \in DOMAIN versions PROVE Cardinality({x \in S : x > u}) < R
  <2>1. {x \in S : x > u} = {x \in (L - R + 1)..L : x > u}
    BY <1>1, <1>2
  <2>2. Cardinality({x \in (L - R + 1)..L : x > u}) = L - u
    BY <1>1, <1>2, AboveIn
  <2>3. Cardinality({x \in S : x > u}) = L - u
    BY <2>1, <2>2
  <2>4. QED
    BY <1>1, <1>2, <2>3
<1>4. ~(Cardinality({x \in S : x > v}) < R)
  <2>1. {x \in S : x > v} = (L - R + 1)..L
    BY <1>1, <1>2
  <2>2. Cardinality((L - R + 1)..L) = R
    <3>1. L - R + 1 \in Int /\ L \in Int /\ ~(L - R + 1 > L)
      BY <1>1
    <3>2. QED
      BY <1>1, <3>1, FS_Interval
  <2>3. Cardinality({x \in S : x > v}) = R
    BY <2>1, <2>2
  <2>4. QED
    BY <1>1, <2>3
<1>5. v \notin DOMAIN versions
  BY DEF Free
<1>6. Retained(S) = DOMAIN versions
  BY <1>3, <1>4 DEF Retained
<1>7. Inserted(v, doc) = [u \in DOMAIN versions |-> versions[u]]
  BY <1>5, <1>6 DEF Inserted
<1>8. QED
  BY <1>7 DEF Whole

-------------------------------------------------------------------------------
(* Drafts and documents.                                                   *)

PagesOK(pg) ==
  /\ pg \in RowsOf(Pages, PageRows)
  /\ \A p, q \in There(pg) : pg[p].home /\ pg[q].home => p = q

\* The foreign keys of the drafts.
DraftsOK(pg, sc, it) ==
  /\ PagesOK(pg)
  /\ sc \in RowsOf(Sections, SectionRows) /\ it \in RowsOf(Sections, ItemRows)
  /\ \A s \in There(sc) : sc[s].page \in There(pg)
  /\ There(it) \subseteq There(sc)

\* A document hangs together as the drafts do: one entry for a row, and every
\* entry with the one it belongs to.
DocOK(d) ==
  /\ d \in Documents
  /\ \A e, f \in d.pages : e[1] = f[1] \/ (e[2] /\ f[2]) => e = f
  /\ \A e, f \in d.secs : e[1] = f[1] => e = f
  /\ \A e, f \in d.items : e[1] = f[1] => e = f
  /\ \A e \in d.secs : \E x \in d.pages : x[1] = e[2]
  /\ \A e \in d.items : \E x \in d.secs : x[1] = e[1]

\* What ProductionIsValid says of one version.
Good(d) ==
  /\ d.pages # {}
  /\ \A e \in d.items : e[3]
  /\ \A e \in d.items, x \in d.secs : x[1] = e[2] => \E y \in d.items : y[1] = e[2]

\* A section or an item at a time.
LEMMA RowTypes ==
  /\ \A pg \in RowsOf(Pages, PageRows) : \A p \in There(pg) :
       p \in Pages /\ pg[p] \in PageRows
  /\ \A sc \in RowsOf(Sections, SectionRows) : \A s \in There(sc) :
       s \in Sections /\ sc[s] \in SectionRows
  /\ \A it \in RowsOf(Sections, ItemRows) : \A s \in There(it) :
       s \in Sections /\ it[s] \in ItemRows
BY DEF RowsOf, There

(* What publish() serializes hangs together, whatever it read of sections  *)
(* and items: a section or an item without its parent is left out.         *)
LEMMA SerializeDoc ==
  ASSUME NEW pg, PagesOK(pg), NEW sc \in RowsOf(Sections, SectionRows),
         NEW it \in RowsOf(Sections, ItemRows)
  PROVE  DocOK(Serialize(pg, sc, it))
<1> DEFINE d == Serialize(pg, sc, it)
           ps == Shown(pg)
           ss == {s \in Shown(sc) : sc[s].page \in ps}
           is == {s \in Shown(it) : s \in ss}
<1>1. /\ d.pages = {<<p, pg[p].home>> : p \in ps}
      /\ d.secs = {<<s, sc[s].page>> : s \in ss}
      /\ d.items = {<<s, it[s].ref, it[s].valid>> : s \in is}
  BY DEF Serialize
<1>2. \A p \in ps : p \in Pages /\ pg[p] \in PageRows /\ p \in There(pg)
  BY RowTypes DEF PagesOK, Shown, Visible
<1>3. \A s \in ss : s \in Sections /\ sc[s] \in SectionRows /\ sc[s].page \in ps
  BY RowTypes DEF Shown, Visible
<1>4. \A s \in is : s \in Sections /\ it[s] \in ItemRows /\ s \in ss
  BY RowTypes DEF Shown, Visible
<1>5. d \in Documents
  <2>1. d.pages \subseteq Pages \X BOOLEAN
    BY <1>1, <1>2 DEF PageRows
  <2>2. d.secs \subseteq Sections \X Pages
    BY <1>1, <1>3 DEF SectionRows
  <2>3. d.items \subseteq Sections \X (Skills \cup {None}) \X BOOLEAN
    BY <1>1, <1>4 DEF ItemRows
  <2>4. d = [pages |-> d.pages, secs |-> d.secs, items |-> d.items]
    BY DEF Serialize
  <2>5. QED
    BY <2>1, <2>2, <2>3, <2>4 DEF Documents
<1> HIDE DEF d, ps, ss, is
<1>6. \A e, f \in d.pages : e[1] = f[1] \/ (e[2] /\ f[2]) => e = f
  BY <1>1, <1>2 DEF PagesOK
<1>7. \A e, f \in d.secs : e[1] = f[1] => e = f
  BY <1>1
<1>8. \A e, f \in d.items : e[1] = f[1] => e = f
  BY <1>1
<1>9. \A e \in d.secs : \E x \in d.pages : x[1] = e[2]
  <2> SUFFICES ASSUME NEW s \in ss PROVE \E x \in d.pages : x[1] = sc[s].page
    BY <1>1
  <2>1. <<sc[s].page, pg[sc[s].page].home>> \in d.pages
    BY <1>1, <1>3
  <2>2. QED
    BY <2>1
<1>10. \A e \in d.items : \E x \in d.secs : x[1] = e[1]
  <2> SUFFICES ASSUME NEW s \in is PROVE \E x \in d.secs : x[1] = s
    BY <1>1
  <2>1. <<s, sc[s].page>> \in d.secs
    BY <1>1, <1>4
  <2>2. QED
    BY <2>1
<1>11. QED
  BY <1>5, <1>6, <1>7, <1>8, <1>9, <1>10 DEF DocOK, d

(* What validatePages() and validateWorkingSet() admit is good to publish: *)
(* a visible skill whose section is in the document is in it too.          *)
LEMMA SerializeGood ==
  ASSUME NEW pg, PagesOK(pg), NEW sc \in RowsOf(Sections, SectionRows),
         NEW it \in RowsOf(Sections, ItemRows), Visible(pg) # {}, RowsValid(pg, sc, it)
  PROVE  Good(Serialize(pg, sc, it))
<1> DEFINE d == Serialize(pg, sc, it)
           ps == Shown(pg)
           ss == {s \in Shown(sc) : sc[s].page \in ps}
           is == {s \in Shown(it) : s \in ss}
<1>1. /\ d.pages = {<<p, pg[p].home>> : p \in ps}
      /\ d.secs = {<<s, sc[s].page>> : s \in ss}
      /\ d.items = {<<s, it[s].ref, it[s].valid>> : s \in is}
  BY DEF Serialize
<1>2. d.pages # {}
  <2>1. PICK p \in ps : TRUE
    BY DEF Shown
  <2>2. <<p, pg[p].home>> \in d.pages
    BY <1>1, <2>1
  <2>3. QED
    BY <2>2
<1>3. \A s \in is : /\ s \in There(it) \cap There(sc) /\ sc[s].page \in There(pg)
                    /\ s \in ss
  BY DEF Shown, Visible
<1>4. \A s \in is : it[s].valid /\ (it[s].ref = None \/ it[s].ref \in VisibleSkills(sc, it))
  BY <1>3 DEF RowsValid
<1>5. \A s \in VisibleSkills(sc, it) : s \in ss => s \in is
  BY DEF VisibleSkills, Shown
<1>6. \A s \in ss : s # None
  BY RowTypes, PublishingAssumption DEF Shown, Visible
<1> HIDE DEF d, ps, ss, is
<1>7. \A e \in d.items : e[3]
  BY <1>1, <1>4
<1>8. \A e \in d.items, x \in d.secs : x[1] = e[2] => \E y \in d.items : y[1] = e[2]
  <2> SUFFICES ASSUME NEW s \in is, NEW t \in ss, t = it[s].ref
               PROVE  \E y \in d.items : y[1] = t
    BY <1>1
  <2>1. t \in is
    BY <1>4, <1>5, <1>6
  <2>2. <<t, it[t].ref, it[t].valid>> \in d.items
    BY <1>1, <2>1
  <2>3. QED
    BY <2>2
<1>9. QED
  BY <1>2, <1>7, <1>8 DEF Good, d

LEMMA Entries ==
  ASSUME NEW d \in Documents
  PROVE  /\ d = [pages |-> d.pages, secs |-> d.secs, items |-> d.items]
         /\ \A e \in d.pages : e = <<e[1], e[2]>> /\ e[1] \in Pages /\ e[2] \in BOOLEAN
         /\ \A e \in d.secs : e = <<e[1], e[2]>> /\ e[1] \in Sections /\ e[2] \in Pages
         /\ \A e \in d.items : /\ e = <<e[1], e[2], e[3]>> /\ e[1] \in Sections
                               /\ e[2] \in Skills \cup {None} /\ e[3] \in BOOLEAN
BY DEF Documents

(* restoreVersion() gives every entry its row back, and makes no other.    *)
LEMMA RebuiltRows ==
  ASSUME NEW d, DocOK(d)
  PROVE  LET pg == RebuiltPages(d)
             sc == RebuiltSections(d)
             it == RebuiltItems(d)
         IN  /\ pg \in RowsOf(Pages, PageRows) /\ sc \in RowsOf(Sections, SectionRows)
             /\ it \in RowsOf(Sections, ItemRows)
             /\ \A e \in d.pages : pg[e[1]] = [home |-> e[2], hidden |-> FALSE]
             /\ \A e \in d.secs : sc[e[1]] = [page |-> e[2], hidden |-> FALSE]
             /\ \A e \in d.items : it[e[1]] = [ref |-> e[2], valid |-> e[3], hidden |-> FALSE]
             /\ Visible(pg) = {e[1] : e \in d.pages} /\ There(pg) = Visible(pg)
             /\ Visible(sc) = {e[1] : e \in d.secs} /\ There(sc) = Visible(sc)
             /\ Visible(it) = {e[1] : e \in d.items} /\ There(it) = Visible(it)
<1> DEFINE pg == RebuiltPages(d)
           sc == RebuiltSections(d)
           it == RebuiltItems(d)
<1>1. d \in Documents /\ None \notin PageRows /\ None \notin SectionRows /\ None \notin ItemRows
  BY PublishingAssumption DEF DocOK
<1>2. /\ \A e \in d.pages : pg[e[1]] = [home |-> e[2], hidden |-> FALSE]
      /\ \A p \in Pages : pg[p] = None \/ \E e \in d.pages : e[1] = p
      /\ DOMAIN pg = Pages
  <2>1. ASSUME NEW e \in d.pages PROVE pg[e[1]] = [home |-> e[2], hidden |-> FALSE]
    <3>1. e = <<e[1], e[2]>> /\ e[1] \in Pages /\ e[2] \in BOOLEAN
      BY <1>1, Entries
    <3>2. <<e[1], TRUE>> \in d.pages <=> e[2] = TRUE
      <4>1. ASSUME NEW f \in d.pages, f = <<e[1], TRUE>> PROVE e[2] = TRUE
        <5>1. f[1] = e[1] /\ f[2] = TRUE
          BY <4>1
        <5>2. e = f
          BY <5>1 DEF DocOK
        <5>3. QED
          BY <5>1, <5>2
      <4>2. QED
        BY <3>1, <4>1
    <3>3. pg[e[1]] = [home |-> <<e[1], TRUE>> \in d.pages, hidden |-> FALSE]
      BY <3>1 DEF RebuiltPages
    <3>4. (<<e[1], TRUE>> \in d.pages) = e[2]
      BY <3>1, <3>2
    <3>5. QED
      BY <3>3, <3>4
  <2>2. QED
    BY <2>1 DEF RebuiltPages
<1>3. /\ \A e \in d.secs : sc[e[1]] = [page |-> e[2], hidden |-> FALSE]
      /\ \A s \in Sections : sc[s] = None \/ \E e \in d.secs : e[1] = s
      /\ DOMAIN sc = Sections
  <2>1. ASSUME NEW e \in d.secs PROVE sc[e[1]] = [page |-> e[2], hidden |-> FALSE]
    <3>1. e[1] \in Sections
      BY <1>1, Entries
    <3>2. e = CHOOSE f \in d.secs : f[1] = e[1]
      BY DEF DocOK
    <3>3. QED
      BY <3>1, <3>2 DEF RebuiltSections
  <2>2. QED
    BY <2>1 DEF RebuiltSections
<1>4. /\ \A e \in d.items : it[e[1]] = [ref |-> e[2], valid |-> e[3], hidden |-> FALSE]
      /\ \A s \in Sections : it[s] = None \/ \E e \in d.items : e[1] = s
      /\ DOMAIN it = Sections
  <2>1. ASSUME NEW e \in d.items
        PROVE  it[e[1]] = [ref |-> e[2], valid |-> e[3], hidden |-> FALSE]
    <3>1. e[1] \in Sections
      BY <1>1, Entries
    <3>2. e = CHOOSE f \in d.items : f[1] = e[1]
      BY DEF DocOK
    <3>3. QED
      BY <3>1, <3>2 DEF RebuiltItems
  <2>2. QED
    BY <2>1 DEF RebuiltItems
<1> HIDE DEF pg, sc, it
<1>5. /\ \A e \in d.pages : pg[e[1]] \in PageRows /\ ~pg[e[1]].hidden
      /\ \A e \in d.secs : sc[e[1]] \in SectionRows /\ ~sc[e[1]].hidden
      /\ \A e \in d.items : it[e[1]] \in ItemRows /\ ~it[e[1]].hidden
  <2>1. ASSUME NEW e \in d.pages PROVE pg[e[1]] \in PageRows /\ ~pg[e[1]].hidden
    <3>1. e[2] \in BOOLEAN /\ pg[e[1]] = [home |-> e[2], hidden |-> FALSE]
      BY <1>1, <1>2, Entries
    <3>2. QED
      BY <3>1 DEF PageRows
  <2>2. ASSUME NEW e \in d.secs PROVE sc[e[1]] \in SectionRows /\ ~sc[e[1]].hidden
    <3>1. e[2] \in Pages /\ sc[e[1]] = [page |-> e[2], hidden |-> FALSE]
      BY <1>1, <1>3, Entries
    <3>2. QED
      BY <3>1 DEF SectionRows
  <2>3. ASSUME NEW e \in d.items PROVE it[e[1]] \in ItemRows /\ ~it[e[1]].hidden
    <3>1. /\ e[2] \in Skills \cup {None} /\ e[3] \in BOOLEAN
          /\ it[e[1]] = [ref |-> e[2], valid |-> e[3], hidden |-> FALSE]
      BY <1>1, <1>4, Entries
    <3>2. QED
      BY <3>1 DEF ItemRows
  <2>4. QED
    BY <2>1, <2>2, <2>3
<1>6. /\ \A p \in Pages : pg[p] \in PageRows \cup {None}
      /\ \A s \in Sections : sc[s] \in SectionRows \cup {None} /\ it[s] \in ItemRows \cup {None}
  BY <1>2, <1>3, <1>4, <1>5
<1>7. /\ pg \in RowsOf(Pages, PageRows) /\ sc \in RowsOf(Sections, SectionRows)
      /\ it \in RowsOf(Sections, ItemRows)
  <2>1. /\ pg = [p \in Pages |-> pg[p]] /\ sc = [s \in Sections |-> sc[s]]
        /\ it = [s \in Sections |-> it[s]]
    BY DEF pg, sc, it, RebuiltPages, RebuiltSections, RebuiltItems
  <2>2. QED
    BY <1>6, <2>1 DEF RowsOf
<1>8. Visible(pg) = {e[1] : e \in d.pages} /\ There(pg) = Visible(pg)
  BY <1>1, <1>2, <1>5, Entries DEF Visible, There
<1>9. Visible(sc) = {e[1] : e \in d.secs} /\ There(sc) = Visible(sc)
  BY <1>1, <1>3, <1>5, Entries DEF Visible, There
<1>10. Visible(it) = {e[1] : e \in d.items} /\ There(it) = Visible(it)
  BY <1>1, <1>4, <1>5, Entries DEF Visible, There
<1>11. QED
  BY <1>2, <1>3, <1>4, <1>7, <1>8, <1>9, <1>10 DEF pg, sc, it

LEMMA RebuiltDrafts ==
  ASSUME NEW d, DocOK(d)
  PROVE  DraftsOK(RebuiltPages(d), RebuiltSections(d), RebuiltItems(d))
<1> DEFINE pg == RebuiltPages(d)
           sc == RebuiltSections(d)
           it == RebuiltItems(d)
<1>1. /\ pg \in RowsOf(Pages, PageRows) /\ sc \in RowsOf(Sections, SectionRows)
      /\ it \in RowsOf(Sections, ItemRows)
      /\ \A e \in d.pages : pg[e[1]] = [home |-> e[2], hidden |-> FALSE]
      /\ \A e \in d.secs : sc[e[1]] = [page |-> e[2], hidden |-> FALSE]
      /\ There(pg) = {e[1] : e \in d.pages} /\ There(sc) = {e[1] : e \in d.secs}
      /\ There(it) = {e[1] : e \in d.items}
  BY RebuiltRows
<1> HIDE DEF pg, sc, it
<1>2. \A p, q \in There(pg) : pg[p].home /\ pg[q].home => p = q
  <2> SUFFICES ASSUME NEW p \in There(pg), NEW q \in There(pg), pg[p].home, pg[q].home
               PROVE  p = q
    OBVIOUS
  <2>1. PICK e \in d.pages : p = e[1]
    BY <1>1
  <2>2. PICK f \in d.pages : q = f[1]
    BY <1>1
  <2>3. pg[p].home = e[2] /\ pg[q].home = f[2]
    <3>1. /\ pg[e[1]] = [home |-> e[2], hidden |-> FALSE]
          /\ pg[f[1]] = [home |-> f[2], hidden |-> FALSE]
      BY <1>1
    <3>2. pg[e[1]].home = e[2]
      BY <3>1
    <3>3. pg[f[1]].home = f[2]
      BY <3>1
    <3>4. QED
      BY <2>1, <2>2, <3>2, <3>3
  <2>4. QED
    BY <2>1, <2>2, <2>3 DEF DocOK
<1>3. \A s \in There(sc) : sc[s].page \in There(pg)
  <2> SUFFICES ASSUME NEW s \in There(sc) PROVE sc[s].page \in There(pg)
    OBVIOUS
  <2>1. PICK e \in d.secs : s = e[1]
    BY <1>1
  <2>2. sc[s].page = e[2]
    <3>1. sc[e[1]] = [page |-> e[2], hidden |-> FALSE]
      BY <1>1
    <3>2. QED
      BY <2>1, <3>1
  <2>3. PICK x \in d.pages : x[1] = e[2]
    BY DEF DocOK
  <2>4. QED
    BY <1>1, <2>2, <2>3
<1>4. There(it) \subseteq There(sc)
  BY <1>1 DEF DocOK
<1>5. QED
  BY <1>1, <1>2, <1>3, <1>4 DEF DraftsOK, PagesOK, pg, sc, it

(* Publishing right after a restore publishes what was restored.           *)
LEMMA RebuiltSame ==
  ASSUME NEW d, DocOK(d)
  PROVE  Serialize(RebuiltPages(d), RebuiltSections(d), RebuiltItems(d)) = d
<1> DEFINE pg == RebuiltPages(d)
           sc == RebuiltSections(d)
           it == RebuiltItems(d)
           ss == {s \in Shown(sc) : sc[s].page \in Shown(pg)}
           is == {s \in Shown(it) : s \in ss}
<1>1. /\ \A e \in d.pages : pg[e[1]] = [home |-> e[2], hidden |-> FALSE]
      /\ \A e \in d.secs : sc[e[1]] = [page |-> e[2], hidden |-> FALSE]
      /\ \A e \in d.items : it[e[1]] = [ref |-> e[2], valid |-> e[3], hidden |-> FALSE]
      /\ Shown(pg) = {e[1] : e \in d.pages} /\ Shown(sc) = {e[1] : e \in d.secs}
      /\ Shown(it) = {e[1] : e \in d.items}
  BY RebuiltRows DEF Shown
<1>2. Serialize(pg, sc, it) = [pages |-> {<<p, pg[p].home>> : p \in Shown(pg)},
                               secs  |-> {<<s, sc[s].page>> : s \in ss},
                               items |-> {<<s, it[s].ref, it[s].valid>> : s \in is}]
  BY DEF Serialize
<1> HIDE DEF pg, sc, it
<1>3. d \in Documents
  BY DEF DocOK
<1>4. ss = Shown(sc)
  <2> SUFFICES ASSUME NEW s \in Shown(sc) PROVE sc[s].page \in Shown(pg)
    OBVIOUS
  <2>1. PICK e \in d.secs : s = e[1]
    BY <1>1
  <2>2. sc[s].page = e[2]
    <3>1. sc[e[1]] = [page |-> e[2], hidden |-> FALSE]
      BY <1>1
    <3>2. QED
      BY <2>1, <3>1
  <2>3. PICK x \in d.pages : x[1] = e[2]
    BY DEF DocOK
  <2>4. QED
    BY <1>1, <2>2, <2>3
<1>5. is = Shown(it)
  BY <1>1, <1>4 DEF DocOK
<1> HIDE DEF ss, is
<1>6. {<<p, pg[p].home>> : p \in Shown(pg)} = {<<e[1], e[2]>> : e \in d.pages}
  <2>1. ASSUME NEW e \in d.pages PROVE pg[e[1]].home = e[2]
    <3>1. pg[e[1]] = [home |-> e[2], hidden |-> FALSE]
      BY <1>1
    <3>2. QED
      BY <3>1
  <2>2. {<<p, pg[p].home>> : p \in Shown(pg)} = {<<e[1], pg[e[1]].home>> : e \in d.pages}
    BY <1>1
  <2>3. QED
    BY <2>1, <2>2
<1>7. {<<s, sc[s].page>> : s \in ss} = {<<e[1], e[2]>> : e \in d.secs}
  <2>1. ASSUME NEW e \in d.secs PROVE sc[e[1]].page = e[2]
    <3>1. sc[e[1]] = [page |-> e[2], hidden |-> FALSE]
      BY <1>1
    <3>2. QED
      BY <3>1
  <2>2. {<<s, sc[s].page>> : s \in ss} = {<<e[1], sc[e[1]].page>> : e \in d.secs}
    BY <1>1, <1>4
  <2>3. QED
    BY <2>1, <2>2
<1>8. {<<s, it[s].ref, it[s].valid>> : s \in is} = {<<e[1], e[2], e[3]>> : e \in d.items}
  <2>1. ASSUME NEW e \in d.items PROVE it[e[1]].ref = e[2] /\ it[e[1]].valid = e[3]
    <3>1. it[e[1]] = [ref |-> e[2], valid |-> e[3], hidden |-> FALSE]
      BY <1>1
    <3>2. QED
      BY <3>1
  <2>2. {<<s, it[s].ref, it[s].valid>> : s \in is}
          = {<<e[1], it[e[1]].ref, it[e[1]].valid>> : e \in d.items}
    BY <1>1, <1>5
  <2>3. QED
    BY <2>1, <2>2
<1>9. /\ {<<e[1], e[2]>> : e \in d.pages} = d.pages
      /\ {<<e[1], e[2]>> : e \in d.secs} = d.secs
      /\ {<<e[1], e[2], e[3]>> : e \in d.items} = d.items
  BY <1>3, Entries
<1>10. QED
  BY <1>2, <1>3, <1>6, <1>7, <1>8, <1>9, Entries DEF pg, sc, it

-------------------------------------------------------------------------------
(* The inductive invariant.                                                *)

\* What a publish or a restore has in hand, n being the newest version: pages
\* that were checked, documents fit to go live, and a number that may be taken
\* by now, or pruned, but not beyond the next one.
StageOf(j, n) ==
  /\ j.pc \in {"sections", "items"} => PagesOK(j.pages) /\ Visible(j.pages) # {}
  /\ j.pc = "items" => j.secs \in RowsOf(Sections, SectionRows)
  /\ j.pc \in {"number", "insert", "rebuild"} => DocOK(j.doc) /\ Good(j.doc)
  /\ j.pc \in {"insert", "rebuild"} => j.version \in 1..(n + 1)

\* What has been hidden since a publish began, H, is in nothing it has read.
Masked(j, H) ==
  /\ j.pc \in {"sections", "items"} => \A p : <<"page", p>> \in H => p \notin Visible(j.pages)
  /\ j.pc = "items" => \A s : <<"section", s>> \in H => s \notin Visible(j.secs)
  /\ j.pc \in {"number", "insert"} =>
       /\ \A e \in j.doc.items : <<"item", e[1]>> \notin H
       /\ \A e \in j.doc.secs : <<"section", e[1]>> \notin H
       /\ \A e \in j.doc.pages : <<"page", e[1]>> \notin H

HistoryOK ==
  /\ Whole /\ DOMAIN versions \subseteq 1..MaxVersion
  /\ \A v \in DOMAIN versions : DocOK(versions[v]) /\ Good(versions[v])

PublishIInv ==
  /\ DraftsOK(page, sec, item)
  /\ HistoryOK
  /\ edits \in 0..MaxEdits /\ overtaken \subseteq Workers
  /\ job \in [Workers -> JobTypes]
  /\ steady \in [Workers -> SUBSET Covers(page, sec, item)]
  /\ \A w \in Workers : StageOf(job[w], Latest) /\ Masked(job[w], steady[w])

LEMMA IdleJob == Idle \in JobTypes /\ (\A n : StageOf(Idle, n)) /\ \A H : Masked(Idle, H)
BY DEF Idle, JobTypes, StageOf, Masked

LEMMA PublishInit == Init => PublishIInv
<1> SUFFICES ASSUME Init PROVE PublishIInv
  OBVIOUS
<1>1. PICK home \in Pages, at \in [Sections -> Pages],
           uses \in [Sections \ Skills -> Skills \cup {None}], h \in Hideable :
        /\ page = [p \in Pages |-> [home |-> p = home, hidden |-> h = <<"page", p>>]]
        /\ sec = [s \in Sections |-> [page |-> at[s], hidden |-> h = <<"section", s>>]]
        /\ item = [s \in Sections |-> [ref |-> IF s \in Skills THEN None ELSE uses[s],
                                       valid |-> TRUE, hidden |-> h = <<"item", s>>]]
        /\ PagesValid(page) /\ RowsValid(page, sec, item)
        /\ versions = [v \in {1} |-> Serialize(page, sec, item)]
        /\ job = [w \in Workers |-> Idle]
        /\ edits = MaxEdits
        /\ steady = [w \in Workers |-> {}] /\ overtaken = {}
  BY Zenon DEF Init
<1>2. /\ PagesValid(page) /\ RowsValid(page, sec, item)
      /\ versions = [v \in {1} |-> Serialize(page, sec, item)]
      /\ job = [w \in Workers |-> Idle] /\ steady = [w \in Workers |-> {}]
      /\ edits = MaxEdits /\ overtaken = {}
  BY <1>1
<1>3. \A p \in Pages : page[p] \in PageRows /\ (page[p].home <=> p = home)
  BY <1>1 DEF PageRows
<1>4. \A s \in Sections : sec[s] \in SectionRows /\ sec[s].page \in Pages
  BY <1>1 DEF SectionRows
<1>5. \A s \in Sections : item[s] \in ItemRows
  BY <1>1 DEF ItemRows
<1>6. page \in RowsOf(Pages, PageRows) /\ There(page) = Pages
  BY <1>1, <1>3, PublishingAssumption DEF RowsOf, There
<1>7. sec \in RowsOf(Sections, SectionRows) /\ There(sec) = Sections
  BY <1>1, <1>4, PublishingAssumption DEF RowsOf, There
<1>8. item \in RowsOf(Sections, ItemRows) /\ There(item) = Sections
  BY <1>1, <1>5, PublishingAssumption DEF RowsOf, There
<1>9. DraftsOK(page, sec, item)
  BY <1>3, <1>4, <1>6, <1>7, <1>8 DEF DraftsOK, PagesOK
<1>10. HistoryOK
  <2>1. DOMAIN versions = {1} /\ versions[1] = Serialize(page, sec, item)
    BY <1>2
  <2>2. Latest = 1
    BY <2>1 DEF Latest
  <2>3. Whole
    BY <1>2, <2>1, <2>2, PublishingAssumption DEF Whole
  <2>4. DocOK(versions[1]) /\ Good(versions[1])
    BY <1>2, <1>7, <1>8, <1>9, <2>1, SerializeDoc, SerializeGood DEF DraftsOK, PagesValid
  <2>5. QED
    BY <2>1, <2>3, <2>4, PublishingAssumption DEF HistoryOK
<1>11. QED
  BY <1>2, <1>9, <1>10, IdleJob, PublishingAssumption DEF PublishIInv

(* One job moves, and nothing else but its history.                        *)
LEMMA JobMoves ==
  ASSUME PublishIInv, NEW w \in Workers, NEW j \in JobTypes, Goto(w, j),
         UNCHANGED <<drafts, versions, edits>>, overtaken' \subseteq overtaken,
         NEW H \in SUBSET Covers(page, sec, item), steady' = [steady EXCEPT ![w] = H],
         StageOf(j, Latest), Masked(j, H)
  PROVE  PublishIInv'
<1>1. UNCHANGED <<page, sec, item, versions, edits>>
  BY DEF drafts
<1>2. DraftsOK(page, sec, item)' /\ Covers(page, sec, item)' = Covers(page, sec, item)
  BY <1>1 DEF PublishIInv
<1>3. Latest' = Latest /\ HistoryOK'
  BY <1>1 DEF Latest, HistoryOK, Whole, PublishIInv
<1>4. job' \in [Workers -> JobTypes] /\ steady' \in [Workers -> SUBSET Covers(page, sec, item)]
  BY DEF PublishIInv, Goto
<1>5. \A x \in Workers : StageOf(job'[x], Latest) /\ Masked(job'[x], steady'[x])
  BY DEF PublishIInv, Goto
<1>6. QED
  BY <1>1, <1>2, <1>3, <1>4, <1>5 DEF PublishIInv

LEMMA Ends ==
  ASSUME PublishIInv, NEW w \in Workers, Over(w), UNCHANGED <<drafts, versions, edits>>
  PROVE  PublishIInv'
BY IdleJob, JobMoves DEF Over

(* A version is inserted: it is the next one, or it is gone at once.       *)
LEMMA Inserts ==
  ASSUME HistoryOK, NEW v \in 1..(Latest + 1), v <= MaxVersion, Free(v),
         NEW d, DocOK(d), Good(d), versions' = Inserted(v, d)
  PROVE  /\ HistoryOK' /\ Latest' \in Nat /\ Latest' >= Latest
         /\ \/ versions' = versions
            \/ /\ v = Latest + 1 /\ Latest' = v /\ versions'[v] = d
               /\ \A u \in DOMAIN versions' :
                    u # v => u \in DOMAIN versions /\ versions'[u] = versions[u]
<1>1. Latest \in Nat \ {0} /\ MaxVersion \in Nat \ {0} /\ VersionRetention \in Nat \ {0}
  BY PublishingAssumption DEF HistoryOK, Whole
<1>2. CASE v \in 1..Latest
  <2>1. versions' = versions
    BY <1>2, PrunedNumber DEF HistoryOK
  <2>2. Latest' = Latest
    BY <2>1 DEF Latest
  <2>3. HistoryOK'
    BY <2>1, <2>2 DEF HistoryOK, Whole
  <2>4. QED
    BY <1>1, <2>1, <2>2, <2>3
<1>3. CASE v = Latest + 1
  <2>1. /\ DOMAIN versions' = {u \in 1..v : u + VersionRetention > v}
        /\ versions'[v] = d
        /\ \A u \in DOMAIN versions' : u # v => u \in DOMAIN versions /\ versions'[u] = versions[u]
    BY <1>3, NextNumber DEF HistoryOK
  <2>2. v \in Nat \ {0}
    BY <1>1, <1>3
  <2>3. Latest' = v
    BY <2>1, <2>2, NewestOf DEF Latest
  <2>4. versions' = [u \in DOMAIN versions' |-> versions'[u]]
    BY DEF Inserted
  <2>5. Whole'
    BY <2>1, <2>2, <2>3, <2>4 DEF Whole
  <2>6. DOMAIN versions' \subseteq 1..MaxVersion
    BY <1>1, <2>1, <2>2
  <2>7. \A u \in DOMAIN versions' : DocOK(versions'[u]) /\ Good(versions'[u])
    BY <2>1 DEF HistoryOK
  <2>8. HistoryOK'
    BY <2>5, <2>6, <2>7 DEF HistoryOK
  <2>9. QED
    BY <1>1, <1>3, <2>1, <2>3, <2>8
<1>4. QED
  BY <1>1, <1>2, <1>3

-------------------------------------------------------------------------------
(* The owner's edits keep the foreign keys.                                *)

LEMMA MaskedLess ==
  ASSUME NEW j, NEW H, NEW G \in SUBSET H, Masked(j, H) PROVE Masked(j, G)
BY DEF Masked

LEMMA EditStep ==
  ASSUME PublishIInv, NEW pg, NEW sc, NEW it, Edit(pg, sc, it), DraftsOK(pg, sc, it)
  PROVE  PublishIInv'
<1>1. /\ page' = pg /\ sec' = sc /\ item' = it /\ versions' = versions /\ job' = job
      /\ overtaken' = overtaken /\ edits' \in 0..MaxEdits
      /\ steady' = [w \in Workers |-> steady[w] \cap Covers(pg, sc, it)]
  BY PublishingAssumption DEF Edit, SetDrafts, PublishIInv
<1>2. DraftsOK(page, sec, item)' /\ Covers(page, sec, item)' = Covers(pg, sc, it)
  BY <1>1
<1>3. Latest' = Latest /\ HistoryOK'
  BY <1>1 DEF Latest, HistoryOK, Whole, PublishIInv
<1>4. steady' \in [Workers -> SUBSET Covers(pg, sc, it)]
  BY <1>1
<1>5. \A w \in Workers : StageOf(job[w], Latest) /\ Masked(job[w], steady'[w])
  BY <1>1, MaskedLess DEF PublishIInv
<1>6. QED
  BY <1>1, <1>2, <1>3, <1>4, <1>5 DEF PublishIInv

LEMMA PutPageStep ==
  ASSUME PublishIInv, NEW p \in Pages, PutPage(p) PROVE PublishIInv'
<1>1. PICK home \in BOOLEAN, hidden \in BOOLEAN :
        /\ home => \A q \in There(page) \ {p} : ~page[q].home
        /\ Edit([page EXCEPT ![p] = [home |-> home, hidden |-> hidden]], sec, item)
  BY DEF PutPage
<1> DEFINE r == [home |-> home, hidden |-> hidden]
           pg == [page EXCEPT ![p] = r]
<1>2. r \in PageRows /\ r # None /\ r.home = home
  BY PublishingAssumption DEF PageRows
<1>3. DraftsOK(page, sec, item)
  BY DEF PublishIInv
<1> HIDE DEF r
<1>4. pg \in RowsOf(Pages, PageRows) /\ There(pg) = There(page) \cup {p}
  BY <1>2, <1>3 DEF DraftsOK, PagesOK, RowsOf, There
<1>5. \A q \in There(pg) : pg[q] = IF q = p THEN r ELSE page[q]
  BY <1>3, <1>4 DEF DraftsOK, PagesOK, RowsOf, There
<1>6. \A q, x \in There(pg) : pg[q].home /\ pg[x].home => q = x
  BY <1>1, <1>2, <1>3, <1>4, <1>5 DEF DraftsOK, PagesOK
<1>7. DraftsOK(pg, sec, item)
  BY <1>3, <1>4, <1>6 DEF DraftsOK, PagesOK
<1>8. QED
  BY <1>1, <1>7, EditStep DEF r

LEMMA DeletePageStep ==
  ASSUME PublishIInv, NEW p \in Pages, DeletePage(p) PROVE PublishIInv'
<1> DEFINE pg == [page EXCEPT ![p] = None]
           sc == SectionsWithout(p)
           it == ItemsWithin(sc)
<1>1. Edit(pg, sc, it) /\ DraftsOK(page, sec, item)
  BY DEF DeletePage, PublishIInv
<1>2. /\ pg \in RowsOf(Pages, PageRows) /\ There(pg) = There(page) \ {p}
      /\ \A q \in There(pg) : pg[q] = page[q]
  BY <1>1 DEF DraftsOK, PagesOK, RowsOf, There
<1>3. /\ sc \in RowsOf(Sections, SectionRows) /\ There(sc) \subseteq There(sec)
      /\ \A s \in There(sc) : sc[s] = sec[s] /\ sec[s].page # p
  BY <1>1 DEF DraftsOK, RowsOf, There, SectionsWithout
<1>4. it \in RowsOf(Sections, ItemRows) /\ There(it) \subseteq There(sc)
  BY <1>1, <1>3 DEF DraftsOK, RowsOf, There, ItemsWithin
<1>5. PagesOK(pg)
  BY <1>1, <1>2 DEF DraftsOK, PagesOK
<1>6. DraftsOK(pg, sc, it)
  BY <1>1, <1>2, <1>3, <1>4, <1>5 DEF DraftsOK
<1>7. QED
  BY <1>1, <1>6, EditStep

LEMMA PutSectionStep ==
  ASSUME PublishIInv, NEW s \in Sections, PutSection(s) PROVE PublishIInv'
<1>1. PICK p \in There(page), hidden \in BOOLEAN :
        Edit(page, [sec EXCEPT ![s] = [page |-> p, hidden |-> hidden]], item)
  BY DEF PutSection
<1> DEFINE r == [page |-> p, hidden |-> hidden]
           sc == [sec EXCEPT ![s] = r]
<1>2. DraftsOK(page, sec, item)
  BY DEF PublishIInv
<1>3. r \in SectionRows /\ r # None /\ r.page = p
  BY <1>2, PublishingAssumption DEF SectionRows, DraftsOK, PagesOK, RowsOf, There
<1> HIDE DEF r
<1>4. /\ sc \in RowsOf(Sections, SectionRows) /\ There(sc) = There(sec) \cup {s}
      /\ \A t \in There(sc) : sc[t] = IF t = s THEN r ELSE sec[t]
  BY <1>2, <1>3 DEF DraftsOK, RowsOf, There
<1>5. DraftsOK(page, sc, item)
  BY <1>2, <1>3, <1>4 DEF DraftsOK
<1>6. QED
  BY <1>1, <1>5, EditStep DEF r

LEMMA DeleteSectionStep ==
  ASSUME PublishIInv, NEW s \in Sections, DeleteSection(s) PROVE PublishIInv'
<1> DEFINE sc == [sec EXCEPT ![s] = None]
           it == [item EXCEPT ![s] = None]
<1>1. Edit(page, sc, it) /\ DraftsOK(page, sec, item)
  BY DEF DeleteSection, PublishIInv
<1>2. /\ sc \in RowsOf(Sections, SectionRows) /\ There(sc) = There(sec) \ {s}
      /\ \A t \in There(sc) : sc[t] = sec[t]
  BY <1>1 DEF DraftsOK, RowsOf, There
<1>3. it \in RowsOf(Sections, ItemRows) /\ There(it) = There(item) \ {s}
  BY <1>1 DEF DraftsOK, RowsOf, There
<1>4. DraftsOK(page, sc, it)
  BY <1>1, <1>2, <1>3 DEF DraftsOK
<1>5. QED
  BY <1>1, <1>4, EditStep

LEMMA PutItemStep ==
  ASSUME PublishIInv, NEW s \in Sections, PutItem(s) PROVE PublishIInv'
<1>1. PICK ref \in (IF s \in Skills THEN {None} ELSE Skills \cup {None}),
           valid \in BOOLEAN, hidden \in BOOLEAN :
        Edit(page, sec, [item EXCEPT ![s] = [ref |-> ref, valid |-> valid, hidden |-> hidden]])
  BY DEF PutItem
<1> DEFINE r == [ref |-> ref, valid |-> valid, hidden |-> hidden]
           it == [item EXCEPT ![s] = r]
<1>2. DraftsOK(page, sec, item) /\ s \in There(sec)
  BY DEF PublishIInv, PutItem, DraftsOK, RowsOf, There
<1>3. r \in ItemRows /\ r # None
  BY PublishingAssumption DEF ItemRows
<1> HIDE DEF r
<1>4. it \in RowsOf(Sections, ItemRows) /\ There(it) = There(item) \cup {s}
  BY <1>2, <1>3 DEF DraftsOK, RowsOf, There
<1>5. DraftsOK(page, sec, it)
  BY <1>2, <1>4 DEF DraftsOK
<1>6. QED
  BY <1>1, <1>5, EditStep DEF r

LEMMA DeleteItemStep ==
  ASSUME PublishIInv, NEW s \in Sections, DeleteItem(s) PROVE PublishIInv'
<1> DEFINE it == [item EXCEPT ![s] = None]
<1>1. Edit(page, sec, it) /\ DraftsOK(page, sec, item)
  BY DEF DeleteItem, PublishIInv
<1>2. it \in RowsOf(Sections, ItemRows) /\ There(it) = There(item) \ {s}
  BY <1>1 DEF DraftsOK, RowsOf, There
<1>3. DraftsOK(page, sec, it)
  BY <1>1, <1>2 DEF DraftsOK
<1>4. QED
  BY <1>1, <1>3, EditStep

-------------------------------------------------------------------------------
(* publish() and restoreVersion().                                         *)

\* A row is covered, or visible, or not there.
LEMMA CoveredIsHidden ==
  ASSUME NEW pg, NEW sc, NEW it
  PROVE  /\ \A p : <<"page", p>> \in Covers(pg, sc, it) => p \notin Visible(pg)
         /\ \A s : <<"section", s>> \in Covers(pg, sc, it) => s \notin Visible(sc)
         /\ \A s : <<"item", s>> \in Covers(pg, sc, it) => s \notin Visible(it)
BY DEF Covers

LEMMA ReadPagesStep ==
  ASSUME PublishIInv, NEW w \in Workers, ReadPages(w) PROVE PublishIInv'
<1> DEFINE j == [Idle EXCEPT !.pc = "sections", !.pages = page]
           H == Covers(page, sec, item)
<1>1. PagesOK(page)
  BY DEF PublishIInv, DraftsOK
<1>2. j \in JobTypes /\ j.pc = "sections" /\ j.pages = page
  BY <1>1 DEF Idle, JobTypes, PagesOK
<1>3. StageOf(j, Latest)
  BY <1>1, <1>2 DEF StageOf, ReadPages, PagesValid
<1>4. Masked(j, H)
  BY <1>2, CoveredIsHidden DEF Masked
<1>5. QED
  BY <1>2, <1>3, <1>4, JobMoves DEF ReadPages

LEMMA ReadSectionsStep ==
  ASSUME PublishIInv, NEW w \in Workers, ReadSections(w) PROVE PublishIInv'
<1> DEFINE j == [job[w] EXCEPT !.pc = "items", !.secs = sec]
           H == steady[w]
<1>1. /\ job[w] \in JobTypes /\ StageOf(job[w], Latest) /\ Masked(job[w], H)
      /\ job[w].pc = "sections" /\ sec \in RowsOf(Sections, SectionRows)
      /\ H \in SUBSET Covers(page, sec, item)
  BY DEF PublishIInv, DraftsOK, ReadSections
<1>2. j \in JobTypes /\ j.pc = "items" /\ j.pages = job[w].pages /\ j.secs = sec
  BY <1>1 DEF JobTypes
<1>3. StageOf(j, Latest)
  BY <1>1, <1>2 DEF StageOf
<1>4. Masked(j, H)
  BY <1>1, <1>2, CoveredIsHidden DEF Masked
<1>5. steady' = [steady EXCEPT ![w] = H] /\ overtaken' \subseteq overtaken
  BY DEF ReadSections, PublishIInv
<1>6. QED
  BY <1>1, <1>2, <1>3, <1>4, <1>5, JobMoves DEF ReadSections

LEMMA ReadItemsStep ==
  ASSUME PublishIInv, NEW w \in Workers, ReadItems(w) PROVE PublishIInv'
<1> DEFINE d == Serialize(job[w].pages, job[w].secs, item)
           j == [Idle EXCEPT !.pc = "number", !.doc = d]
           H == steady[w]
<1>1. /\ PagesOK(job[w].pages) /\ Visible(job[w].pages) # {}
      /\ job[w].secs \in RowsOf(Sections, SectionRows)
      /\ item \in RowsOf(Sections, ItemRows) /\ Masked(job[w], H)
      /\ H \in SUBSET Covers(page, sec, item) /\ job[w].pc = "items"
  BY DEF PublishIInv, DraftsOK, ReadItems, StageOf
<1>2. CASE RowsValid(job[w].pages, job[w].secs, item)
  <2>1. DocOK(d) /\ Good(d)
    BY <1>1, <1>2, SerializeDoc, SerializeGood
  <2>2. j \in JobTypes /\ j.pc = "number" /\ j.doc = d
    BY <2>1 DEF Idle, JobTypes, DocOK
  <2>3. StageOf(j, Latest)
    BY <2>1, <2>2 DEF StageOf
  <2>4. /\ \A e \in d.pages : e[1] \in Visible(job[w].pages)
        /\ \A e \in d.secs : e[1] \in Visible(job[w].secs)
        /\ \A e \in d.items : e[1] \in Visible(item)
    BY DEF Serialize, Shown
  <2>5. Masked(j, H)
    BY <1>1, <2>2, <2>4, CoveredIsHidden DEF Masked
  <2>6. /\ Goto(w, j) /\ UNCHANGED <<drafts, versions, edits>>
        /\ steady' = [steady EXCEPT ![w] = H] /\ overtaken' \subseteq overtaken
    BY <1>2 DEF ReadItems, PublishIInv
  <2>7. QED
    BY <1>1, <2>2, <2>3, <2>5, <2>6, JobMoves
<1>3. CASE ~RowsValid(job[w].pages, job[w].secs, item)
  BY <1>3, Ends DEF ReadItems
<1>4. QED
  BY <1>2, <1>3

LEMMA NumberPublishStep ==
  ASSUME PublishIInv, NEW w \in Workers, NumberPublish(w) PROVE PublishIInv'
<1> DEFINE j == [job[w] EXCEPT !.pc = "insert", !.version = Latest + 1]
           H == steady[w]
<1>1. /\ job[w] \in JobTypes /\ StageOf(job[w], Latest) /\ Masked(job[w], H)
      /\ job[w].pc = "number" /\ Latest \in Nat \ {0}
      /\ H \in SUBSET Covers(page, sec, item)
  BY DEF PublishIInv, NumberPublish, HistoryOK, Whole
<1>2. j \in JobTypes /\ j.pc = "insert" /\ j.doc = job[w].doc /\ j.version = Latest + 1
  <2>1. Latest + 1 \in Nat
    BY <1>1
  <2>2. QED
    BY <1>1, <2>1 DEF JobTypes
<1>3. StageOf(j, Latest)
  BY <1>1, <1>2 DEF StageOf
<1>4. Masked(j, H)
  BY <1>1, <1>2 DEF Masked
<1>5. steady' = [steady EXCEPT ![w] = H] /\ overtaken' \subseteq overtaken
  BY DEF NumberPublish, PublishIInv
<1>6. QED
  BY <1>1, <1>2, <1>3, <1>4, <1>5, JobMoves DEF NumberPublish

LEMMA ReadSourceStep ==
  ASSUME PublishIInv, NEW w \in Workers, ReadSource(w) PROVE PublishIInv'
<1>1. PICK v \in DOMAIN versions :
        Goto(w, [Idle EXCEPT !.pc = "rebuild", !.doc = versions[v], !.version = Latest + 1])
  BY DEF ReadSource
<1> DEFINE j == [Idle EXCEPT !.pc = "rebuild", !.doc = versions[v], !.version = Latest + 1]
           H == steady[w]
<1>2. /\ DocOK(versions[v]) /\ Good(versions[v]) /\ Latest \in Nat \ {0}
      /\ H \in SUBSET Covers(page, sec, item)
  BY DEF PublishIInv, HistoryOK, Whole
<1>3. /\ j \in JobTypes /\ j.pc = "rebuild" /\ j.doc = versions[v]
      /\ j.version = Latest + 1
  <2>1. Latest + 1 \in Nat
    BY <1>2
  <2>2. QED
    BY <1>2, <2>1 DEF JobTypes, Idle, DocOK
<1>4. StageOf(j, Latest) /\ Masked(j, H)
  BY <1>2, <1>3 DEF StageOf, Masked
<1>5. steady' = [steady EXCEPT ![w] = H] /\ overtaken' \subseteq overtaken
  BY DEF ReadSource, PublishIInv
<1>6. QED
  BY <1>1, <1>2, <1>3, <1>4, <1>5, JobMoves DEF ReadSource

(* A job that is not at its insert holds on to what it has when a version  *)
(* is made: its number only gets older.                                    *)
LEMMA StageLater ==
  ASSUME NEW j, NEW n \in Nat, NEW m \in Nat, m >= n, StageOf(j, n) PROVE StageOf(j, m)
BY DEF StageOf

\* What an insert that goes through does to the history.
LEMMA JobInserts ==
  ASSUME PublishIInv, NEW w \in Workers, job[w].pc \in {"insert", "rebuild"},
         job[w].version <= MaxVersion, Free(job[w].version),
         versions' = Inserted(job[w].version, job[w].doc)
  PROVE  /\ HistoryOK' /\ Latest \in Nat /\ Latest' \in Nat /\ Latest' >= Latest
         /\ \/ versions' = versions
            \/ /\ job[w].version = Latest + 1 /\ Latest' = job[w].version
               /\ versions'[job[w].version] = job[w].doc
               /\ \A u \in DOMAIN versions' : u # job[w].version =>
                    u \in DOMAIN versions /\ versions'[u] = versions[u]
<1>1. /\ HistoryOK /\ job[w].version \in 1..(Latest + 1)
      /\ DocOK(job[w].doc) /\ Good(job[w].doc) /\ Latest \in Nat
  BY DEF PublishIInv, StageOf, HistoryOK, Whole
<1>2. QED
  BY <1>1, Inserts

LEMMA InsertPublishStep ==
  ASSUME PublishIInv, NEW w \in Workers, InsertPublish(w) PROVE PublishIInv'
<1>1. CASE ~Free(job[w].version)
  BY <1>1, Ends DEF InsertPublish
<1>2. CASE Free(job[w].version)
  <2>1. HistoryOK' /\ Latest \in Nat /\ Latest' \in Nat /\ Latest' >= Latest
    BY <1>2, JobInserts DEF InsertPublish
  <2>2. UNCHANGED <<page, sec, item, edits>> /\ overtaken' \subseteq Workers
    BY DEF InsertPublish, drafts, Over, PublishIInv
  <2>3. DraftsOK(page, sec, item)' /\ Covers(page, sec, item)' = Covers(page, sec, item)
    BY <2>2 DEF PublishIInv
  <2>4. /\ job' = [job EXCEPT ![w] = Idle] /\ steady' = [steady EXCEPT ![w] = {}]
        /\ job \in [Workers -> JobTypes]
        /\ steady \in [Workers -> SUBSET Covers(page, sec, item)]
    BY DEF InsertPublish, Over, Goto, PublishIInv
  <2>5. job' \in [Workers -> JobTypes] /\ steady' \in [Workers -> SUBSET Covers(page, sec, item)]
    BY <2>4, IdleJob
  <2>6. ASSUME NEW x \in Workers PROVE StageOf(job'[x], Latest') /\ Masked(job'[x], steady'[x])
    <3>1. CASE x = w
      BY <2>4, <3>1, IdleJob
    <3>2. CASE x # w
      <4>1. StageOf(job[x], Latest) /\ Masked(job[x], steady[x])
        BY DEF PublishIInv
      <4>2. QED
        BY <2>1, <2>4, <3>2, <4>1, StageLater
    <3>3. QED
      BY <3>1, <3>2
  <2>7. edits' \in 0..MaxEdits
    BY <2>2 DEF PublishIInv
  <2>8. QED
    BY <2>1, <2>2, <2>3, <2>5, <2>6, <2>7 DEF PublishIInv
<1>3. QED
  BY <1>1, <1>2

LEMMA RebuildStep ==
  ASSUME PublishIInv, NEW w \in Workers, Rebuild(w) PROVE PublishIInv'
<1> DEFINE d == job[w].doc
           pg == RebuiltPages(d)
           sc == RebuiltSections(d)
           it == RebuiltItems(d)
<1>1. /\ job' = [job EXCEPT ![w] = Idle] /\ job \in [Workers -> JobTypes]
      /\ edits' \in 0..MaxEdits /\ job[w].pc = "rebuild"
  BY DEF Rebuild, Goto, PublishIInv
<1>2. CASE ~Free(job[w].version)
  <2>1. UNCHANGED <<drafts, versions, edits>> /\ overtaken' \subseteq overtaken
    BY <1>2 DEF Rebuild
  <2>2. /\ steady' = [steady EXCEPT ![w] = steady[w]]
        /\ steady[w] \in SUBSET Covers(page, sec, item)
    BY <1>2 DEF Rebuild, PublishIInv
  <2>3. QED
    BY <2>1, <2>2, IdleJob, JobMoves DEF Rebuild
<1>3. CASE Free(job[w].version)
  <2>1. HistoryOK' /\ Latest \in Nat /\ Latest' \in Nat /\ Latest' >= Latest
    BY <1>3, JobInserts DEF Rebuild
  <2>2. /\ page' = pg /\ sec' = sc /\ item' = it
        /\ steady' = [x \in Workers |-> steady[x] \cap Covers(pg, sc, it)]
        /\ overtaken' \subseteq Workers
    BY <1>3 DEF Rebuild, SetDrafts, PublishIInv
  <2>3. DocOK(d)
    BY <1>1 DEF PublishIInv, StageOf
  <2>4. DraftsOK(page, sec, item)'
    BY <2>2, <2>3, RebuiltDrafts
  <2> HIDE DEF pg, sc, it
  <2>5. Covers(page, sec, item)' = Covers(pg, sc, it)
    BY <2>2
  <2>6. steady' \in [Workers -> SUBSET Covers(pg, sc, it)]
    BY <2>2
  <2>7. job' \in [Workers -> JobTypes]
    BY <1>1, IdleJob
  <2>8. ASSUME NEW x \in Workers PROVE StageOf(job'[x], Latest') /\ Masked(job'[x], steady'[x])
    <3>1. CASE x = w
      BY <1>1, <3>1, IdleJob
    <3>2. CASE x # w
      <4>1. StageOf(job[x], Latest) /\ Masked(job[x], steady[x]) /\ job'[x] = job[x]
        BY <1>1, <3>2 DEF PublishIInv
      <4>2. steady'[x] \in SUBSET steady[x]
        BY <2>2
      <4>3. QED
        BY <2>1, <4>1, <4>2, StageLater, MaskedLess
    <3>3. QED
      BY <3>1, <3>2
  <2>9. QED
    BY <1>1, <2>1, <2>2, <2>4, <2>5, <2>6, <2>7, <2>8 DEF PublishIInv
<1>4. QED
  BY <1>2, <1>3

LEMMA NextIInv == PublishIInv /\ [Next]_vars => PublishIInv'
<1> SUFFICES ASSUME PublishIInv, [Next]_vars PROVE PublishIInv'
  OBVIOUS
<1>1. CASE Owner
  BY <1>1, PutPageStep, DeletePageStep, PutSectionStep, DeleteSectionStep, PutItemStep,
     DeleteItemStep DEF Owner
<1>2. ASSUME NEW w \in Workers, Publisher(w) PROVE PublishIInv'
  <2>1. CASE Abort(w)
    BY <2>1, Ends DEF Abort
  <2>2. QED
    BY <1>2, <2>1, ReadPagesStep, ReadSectionsStep, ReadItemsStep, NumberPublishStep,
       InsertPublishStep, ReadSourceStep, RebuildStep DEF Publisher
<1>3. CASE UNCHANGED vars
  <2>1. UNCHANGED <<page, sec, item, versions, job, edits, steady, overtaken>>
    BY <1>3 DEF vars, drafts
  <2>2. Latest' = Latest /\ HistoryOK'
    BY <2>1 DEF Latest, HistoryOK, Whole, PublishIInv
  <2>3. DraftsOK(page, sec, item)' /\ Covers(page, sec, item)' = Covers(page, sec, item)
    BY <2>1 DEF PublishIInv
  <2>4. QED
    BY <2>1, <2>2, <2>3 DEF PublishIInv
<1>4. QED
  BY <1>1, <1>2, <1>3 DEF Next

LEMMA PublishInvariant == Spec => []PublishIInv
BY PublishInit, NextIInv, PTL DEF Spec

-------------------------------------------------------------------------------
(* What follows.                                                           *)

\* However edits, publishes and restores interleave, the versions retained are
\* the newest, with no number missing, and every one of them is fit to show.
THEOREM PublishingSafety == Spec => [](TypeOK /\ HistoryIsWhole /\ ProductionIsValid)
<1>1. PublishIInv => TypeOK
  BY DEF PublishIInv, HistoryOK, DraftsOK, PagesOK, DocOK, TypeOK
<1>2. PublishIInv => HistoryIsWhole
  <2> SUFFICES ASSUME PublishIInv PROVE HistoryIsWhole
    OBVIOUS
  <2>1. Whole /\ Latest \in DOMAIN versions
    BY PublishingAssumption DEF PublishIInv, HistoryOK, Whole
  <2>2. QED
    BY <2>1 DEF Whole, HistoryIsWhole
<1>3. PublishIInv => ProductionIsValid
  BY DEF PublishIInv, HistoryOK, Good, ProductionIsValid
<1>4. QED
  BY <1>1, <1>2, <1>3, PublishInvariant, PTL

\* What the public reads, the newest version or any that could be restored, has
\* passed the validation, whatever drafts were read and written meanwhile.
THEOREM ShownIsValid == Spec => []ProductionIsValid
BY PublishingSafety, PTL

\* A step makes one version at most, and it is the job's own.
LEMMA OneInserts ==
  ASSUME PublishIInv, [Next]_vars
  PROVE  \/ versions' = versions
         \/ \E w \in Workers :
              /\ InsertPublish(w) \/ Rebuild(w)
              /\ job[w].pc \in {"insert", "rebuild"} /\ job[w].version <= MaxVersion
              /\ Free(job[w].version) /\ versions' = Inserted(job[w].version, job[w].doc)
<1>1. CASE Owner
  BY <1>1 DEF Owner, PutPage, DeletePage, PutSection, DeleteSection, PutItem, DeleteItem, Edit
<1>2. ASSUME NEW w \in Workers, Publisher(w)
      PROVE  \/ versions' = versions
             \/ /\ InsertPublish(w) \/ Rebuild(w)
                /\ job[w].pc \in {"insert", "rebuild"} /\ job[w].version <= MaxVersion
                /\ Free(job[w].version) /\ versions' = Inserted(job[w].version, job[w].doc)
  BY <1>2 DEF Publisher, ReadPages, ReadSections, ReadItems, NumberPublish, InsertPublish,
     ReadSource, Rebuild, Abort
<1>3. CASE UNCHANGED vars
  BY <1>3 DEF vars
<1>4. QED
  BY <1>1, <1>2, <1>3 DEF Next

\* A version is never rewritten, and what is live is only replaced by a newer
\* one: the number a publish took may be stale, its insert then fails or is
\* pruned at once.
THEOREM HistoryAppendOnly == Spec => VersionsAppendOnly
<1> DEFINE Step == /\ \A v \in DOMAIN versions \cap DOMAIN versions' : versions'[v] = versions[v]
                   /\ \A v \in DOMAIN versions' \ DOMAIN versions : v > Latest
                   /\ Latest' >= Latest
<1>1. PublishIInv /\ [Next]_vars => [Step]_vars
  <2> SUFFICES ASSUME PublishIInv, [Next]_vars PROVE Step
    OBVIOUS
  <2>1. CASE versions' = versions
    <3>1. Latest' = Latest
      BY <2>1 DEF Latest
    <3>2. Latest \in Nat
      BY DEF PublishIInv, HistoryOK, Whole
    <3>3. QED
      BY <2>1, <3>1, <3>2
  <2>2. ASSUME NEW w \in Workers, job[w].pc \in {"insert", "rebuild"},
               job[w].version <= MaxVersion, Free(job[w].version),
               versions' = Inserted(job[w].version, job[w].doc)
        PROVE  Step
    <3>1. CASE versions' = versions
      BY <2>1, <3>1
    <3>2. QED
      BY <2>2, <3>1, JobInserts DEF Free
  <2>3. QED
    BY <2>1, <2>2, OneInserts
<1>2. QED
  BY <1>1, PublishInvariant, PTL DEF Spec, VersionsAppendOnly

\* Who makes a version: the job that ends in this step.
LEMMA JobEnds ==
  ASSUME PublishIInv, [Next]_vars, NEW w \in Workers,
         job[w].pc \in {"insert", "rebuild"}, job'[w] = Idle, versions' # versions
  PROVE  /\ InsertPublish(w) \/ Rebuild(w)
         /\ Latest' = job[w].version /\ versions'[job[w].version] = job[w].doc
         /\ \A u \in DOMAIN versions' : u # job[w].version => u \in DOMAIN versions
<1>1. PICK x \in Workers :
        /\ InsertPublish(x) \/ Rebuild(x)
        /\ job[x].pc \in {"insert", "rebuild"} /\ job[x].version <= MaxVersion
        /\ Free(job[x].version) /\ versions' = Inserted(job[x].version, job[x].doc)
  BY OneInserts
<1>2. x = w
  <2>1. job' = [job EXCEPT ![x] = Idle] /\ job \in [Workers -> JobTypes]
    BY <1>1 DEF InsertPublish, Rebuild, Over, Goto, PublishIInv
  <2>2. job[w] # Idle
    BY DEF Idle
  <2>3. QED
    BY <2>1, <2>2
<1>3. QED
  BY <1>1, <1>2, JobInserts

\* However the drafts are edited between its three reads and its insert, a
\* publish shows nothing that one flag has hidden all the while.
THEOREM HiddenIsPrivate == Spec => HiddenStaysPrivate
<1> DEFINE Kept(d, w) == /\ \A e \in d.items : <<"item", e[1]>> \notin steady[w]
                         /\ \A e \in d.secs : <<"section", e[1]>> \notin steady[w]
                         /\ \A e \in d.pages : <<"page", e[1]>> \notin steady[w]
<1>1. ASSUME PublishIInv, [Next]_vars, NEW w \in Workers, Publishes(w),
             NEW v \in DOMAIN versions' \ DOMAIN versions, job'[w] = Idle, job[w].pc = "insert"
      PROVE  Kept(versions'[v], w)
  <2>1. versions' # versions
    OBVIOUS
  <2>2. v = job[w].version /\ versions'[v] = job[w].doc
    BY <1>1, <2>1, JobEnds
  <2>3. Masked(job[w], steady[w])
    BY <1>1 DEF PublishIInv
  <2>4. Kept(job[w].doc, w)
    BY <1>1, <2>3 DEF Masked
  <2>5. QED
    BY <2>2, <2>4
<1>2. PublishIInv /\ [Next]_vars
        => [\A w \in Workers : Publishes(w) =>
              \A v \in DOMAIN versions' \ DOMAIN versions : LET d == versions'[v] IN
                job'[w] = Idle /\ job[w].pc = "insert" => Kept(d, w)]_vars
  BY <1>1
<1>3. QED
  BY <1>2, PublishInvariant, PTL DEF Spec, HiddenStaysPrivate

\* The drafts a restore rebuilds publish as the version it made live.
THEOREM RestoreIsWhole == Spec => RestoreIsRepublishable
<1>1. ASSUME PublishIInv, [Next]_vars, NEW w \in Workers,
             job[w].pc = "rebuild", job'[w] = Idle, versions' # versions
      PROVE  Serialize(page', sec', item') = versions'[Latest']
  <2>1. /\ InsertPublish(w) \/ Rebuild(w)
        /\ versions'[Latest'] = job[w].doc
    BY <1>1, JobEnds
  <2>2. /\ page' = RebuiltPages(job[w].doc) /\ sec' = RebuiltSections(job[w].doc)
        /\ item' = RebuiltItems(job[w].doc)
    BY <1>1, <2>1 DEF InsertPublish, Rebuild, SetDrafts
  <2>3. DocOK(job[w].doc)
    BY <1>1 DEF PublishIInv, StageOf
  <2>4. QED
    BY <2>1, <2>2, <2>3, RebuiltSame
<1>2. PublishIInv /\ [Next]_vars
        => [\A w \in Workers :
              job[w].pc = "rebuild" /\ job'[w] = Idle /\ versions' # versions
                => Serialize(page', sec', item') = versions'[Latest']]_vars
  BY <1>1
<1>3. QED
  BY <1>2, PublishInvariant, PTL DEF Spec, RestoreIsRepublishable

===============================================================================
