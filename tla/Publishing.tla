------------------------------ MODULE Publishing ------------------------------
(***************************************************************************)
(* services/publishService.ts with the working set it reads                *)
(* (sectionsService.ts, pagesService.ts): the owner edits drafts, publish  *)
(* snapshots what is visible as a new version, restore makes an old        *)
(* version live again and rebuilds the drafts from it.                     *)
(*                                                                         *)
(* publish() reads pages, sections and items by queries of their own, and  *)
(* only then opens the transaction that numbers and inserts the version;   *)
(* edits, restores and other publishes run between these steps.            *)
(*                                                                         *)
(* Kept of a row: what publish looks at.  Of the slugs, only whether it is *)
(* "home"; of a payload, whether the schema admits it and the skill it     *)
(* refers to.  Positions are left out, and a section has at most one item, *)
(* known by the section's name; the item of a section of Skills is a skill.*)
(***************************************************************************)
EXTENDS Naturals, FiniteSets

CONSTANTS
  Pages, Sections,  \* row ids
  Skills,           \* the sections of type "skills"; the others are portfolios
  Workers,          \* bound: publishes and restores under way at the same time
  None,
  VersionRetention, \* VERSION_RETENTION
  MaxVersion,       \* bound: versions ever made
  MaxEdits          \* bound: edits by the owner

\* What is kept of a row.
PageRows    == [home : BOOLEAN, hidden : BOOLEAN]
SectionRows == [page : Pages, hidden : BOOLEAN]
ItemRows    == [ref : Skills \cup {None}, valid : BOOLEAN, hidden : BOOLEAN]

ASSUME PublishingAssumption ==
  /\ Skills \subseteq Sections
  /\ None \notin Pages \cup Sections \cup PageRows \cup SectionRows \cup ItemRows
  /\ VersionRetention \in Nat \ {0} /\ MaxVersion \in Nat \ {0} /\ MaxEdits \in Nat

VARIABLES
  page, sec, item,  \* the drafts: rows of pages, sections, section_items
  versions,         \* page_versions: the document of each retained version
  job,              \* job[w]: the publish or restore worker w runs
  edits,            \* what is left of MaxEdits
  steady,           \* history: steady[w], the rows hidden since w's publish began
  overtaken         \* history: publishes that read drafts a restore has replaced

drafts == <<page, sec, item>>
vars   == <<drafts, versions, job, edits, steady, overtaken>>

There(row) == {x \in DOMAIN row : row[x] # None}
Visible(row) == {x \in There(row) : ~row[x].hidden}
Latest == CHOOSE v \in DOMAIN versions : \A u \in DOMAIN versions : u <= v

-----------------------------------------------------------------------------
(* Documents.                                                              *)

\* What the loop of publish() and validateWorkingSet() serialize: rows of
\* visible pages that are themselves visible.
HiddenToo(row) == There(row)                                \* (mutant)
Shown(row) == Visible(row)

Serialize(pg, sc, it) ==
  LET ps == Shown(pg)
      ss == {s \in Shown(sc) : sc[s].page \in ps}
      is == {s \in Shown(it) : s \in ss}
  IN  [pages |-> {<<p, pg[p].home>> : p \in ps},
       secs  |-> {<<s, sc[s].page>> : s \in ss},
       items |-> {<<s, it[s].ref, it[s].valid>> : s \in is}]

\* validatePages().
PagesValid(pg) == Visible(pg) # {} /\ \E p \in There(pg) : pg[p].home

\* collectVisibleSkillItemIds(): skills of any page, also of a hidden one.
VisibleSkills(sc, it) == Visible(it) \cap Skills \cap Visible(sc)

\* validateWorkingSet(), over every page's sections: hidden rows are checked
\* like the others.
OnlyShownChecked(pg, sc, it) ==                             \* (mutant)
  \A s \in There(it) \cap There(sc) :
    sc[s].page \in Visible(pg) =>
      /\ it[s].valid \/ it[s].hidden \/ s \in Skills
      /\ it[s].ref = None \/ it[s].ref \in VisibleSkills(sc, it)
RowsValid(pg, sc, it) ==
  \A s \in There(it) \cap There(sc) :
    sc[s].page \in There(pg) =>
      /\ it[s].valid
      /\ it[s].ref = None \/ it[s].ref \in VisibleSkills(sc, it)

\* restoreVersion(): the rows rebuilt from a document, none of them hidden.
RebuiltPages(d) ==
  [p \in Pages |-> IF \E e \in d.pages : e[1] = p
                     THEN [home |-> <<p, TRUE>> \in d.pages, hidden |-> FALSE] ELSE None]
RebuiltSections(d) ==
  [s \in Sections |-> IF \E e \in d.secs : e[1] = s
                        THEN [page |-> (CHOOSE e \in d.secs : e[1] = s)[2], hidden |-> FALSE]
                        ELSE None]
ItemsKept(d) == item                                        \* (mutant)
RebuiltItems(d) ==
  [s \in Sections |->
     IF \E e \in d.items : e[1] = s
       THEN LET e == CHOOSE e \in d.items : e[1] = s
            IN  [ref |-> e[2], valid |-> e[3], hidden |-> FALSE]
       ELSE None]

-----------------------------------------------------------------------------
(* Initially every row is there, and published; one row at most is hidden. *)

Hideable == {None} \cup ({"page"} \X Pages) \cup ({"section", "item"} \X Sections)

Idle == [pc |-> "idle", pages |-> None, secs |-> None, doc |-> None, version |-> 0]

Init ==
  \E home \in Pages, at \in [Sections -> Pages], uses \in [Sections \ Skills -> Skills \cup {None}],
     h \in Hideable :
  /\ page = [p \in Pages |-> [home |-> p = home, hidden |-> h = <<"page", p>>]]
  /\ sec = [s \in Sections |-> [page |-> at[s], hidden |-> h = <<"section", s>>]]
  /\ item = [s \in Sections |-> [ref |-> IF s \in Skills THEN None ELSE uses[s],
                                valid |-> TRUE, hidden |-> h = <<"item", s>>]]
  /\ PagesValid(page) /\ RowsValid(page, sec, item)
  /\ versions = [v \in {1} |-> Serialize(page, sec, item)]
  /\ job = [w \in Workers |-> Idle]
  /\ edits = MaxEdits
  /\ steady = [w \in Workers |-> {}] /\ overtaken = {}

\* The rows that hide something, in drafts pg, sc, it.
Covers(pg, sc, it) ==
  ({"page"} \X (There(pg) \ Visible(pg)))
    \cup ({"section"} \X (There(sc) \ Visible(sc)))
    \cup ({"item"} \X (There(it) \ Visible(it)))

\* The drafts change; what is no longer hidden is steady no more.
SetDrafts(pg, sc, it) ==
  /\ page' = pg /\ sec' = sc /\ item' = it
  /\ steady' = [w \in Workers |-> steady[w] \cap Covers(pg, sc, it)]

-----------------------------------------------------------------------------
(* The owner's edits: one row each, what hangs on a deleted row included.  *)
(* Bound: an update sets is_hidden or something else, not both at once.    *)

Edit(pg, sc, it) ==
  /\ <<pg, sc, it>> # drafts
  /\ edits > 0 /\ edits' = edits - 1
  /\ SetDrafts(pg, sc, it)
  /\ UNCHANGED <<versions, job, overtaken>>

\* createPage(), updatePage(): slugs are unique.
PutPage(p) ==
  \E home, hidden \in BOOLEAN :
    /\ IF page[p] = None THEN ~hidden ELSE page[p].home = home \/ page[p].hidden = hidden
    /\ home => \A q \in There(page) \ {p} : ~page[q].home
    /\ Edit([page EXCEPT ![p] = [home |-> home, hidden |-> hidden]], sec, item)

\* deletePage(), deleteSection(): ON DELETE CASCADE.
SectionsWithout(p) ==
  [s \in Sections |-> IF sec[s] # None /\ sec[s].page = p THEN None ELSE sec[s]]
ItemsWithin(sc) == [s \in Sections |-> IF sc[s] = None THEN None ELSE item[s]]

DeletePage(p) ==
  /\ page[p] # None
  /\ Edit([page EXCEPT ![p] = None], SectionsWithout(p), ItemsWithin(SectionsWithout(p)))

\* createSection(), updateSection(), which may move it to another page.
PutSection(s) ==
  \E p \in There(page), hidden \in BOOLEAN :
    /\ sec[s] # None => (sec[s].page = p \/ sec[s].hidden = hidden)
    /\ Edit(page, [sec EXCEPT ![s] = [page |-> p, hidden |-> hidden]], item)

DeleteSection(s) ==
  /\ sec[s] # None
  /\ Edit(page, [sec EXCEPT ![s] = None], [item EXCEPT ![s] = None])

\* createItem(), updateItem(): a draft may be invalid and refer to anything.
PutItem(s) ==
  /\ sec[s] # None
  /\ \E ref \in (IF s \in Skills THEN {None} ELSE Skills \cup {None}), valid, hidden \in BOOLEAN :
       /\ item[s] # None => (item[s].hidden = hidden \/ <<item[s].ref, item[s].valid>> = <<ref, valid>>)
       /\ Edit(page, sec, [item EXCEPT ![s] = [ref |-> ref, valid |-> valid, hidden |-> hidden]])

DeleteItem(s) ==
  /\ item[s] # None
  /\ Edit(page, sec, [item EXCEPT ![s] = None])

Owner ==
  \/ \E p \in Pages : PutPage(p) \/ DeletePage(p)
  \/ \E s \in Sections : PutSection(s) \/ DeleteSection(s) \/ PutItem(s) \/ DeleteItem(s)

-----------------------------------------------------------------------------
(* publish().                                                              *)

Goto(w, j) == job' = [job EXCEPT ![w] = j]

\* A publish is over, and its history with it.
Over(w) ==
  /\ Goto(w, Idle)
  /\ steady' = [steady EXCEPT ![w] = {}]
  /\ overtaken' = overtaken \ {w}

\* listPages() and validatePages().
ReadPages(w) ==
  /\ job[w] = Idle
  /\ PagesValid(page)
  /\ Goto(w, [Idle EXCEPT !.pc = "sections", !.pages = page])
  /\ steady' = [steady EXCEPT ![w] = Covers(page, sec, item)]
  /\ UNCHANGED <<drafts, versions, edits, overtaken>>

\* getWorkingSet(): the sections, ...
ReadSections(w) ==
  /\ job[w].pc = "sections"
  /\ Goto(w, [job[w] EXCEPT !.pc = "items", !.secs = sec])
  /\ UNCHANGED <<drafts, versions, edits, steady, overtaken>>

\* ... then the items; they are validated, or the publish is refused.
ReadItems(w) ==
  /\ job[w].pc = "items"
  /\ LET j == job[w]
     IN  IF RowsValid(j.pages, j.secs, item)
           THEN /\ Goto(w, [Idle EXCEPT !.pc = "number",
                                        !.doc = Serialize(j.pages, j.secs, item)])
                /\ UNCHANGED <<steady, overtaken>>
           ELSE Over(w)
  /\ UNCHANGED <<drafts, versions, edits>>

\* The transaction: maxVersion(), ...
NumberPublish(w) ==
  /\ job[w].pc = "number"
  /\ Goto(w, [job[w] EXCEPT !.pc = "insert", !.version = Latest + 1])
  /\ UNCHANGED <<drafts, versions, edits, steady, overtaken>>

\* ... the insert, which fails if another transaction took the number, and
\* pruneVersions().
Free(v) == v \notin DOMAIN versions

OneTooMany(S) == {v \in S : Cardinality({u \in S : u > v}) <= VersionRetention}   \* (mutant)
Retained(S) == {v \in S : Cardinality({u \in S : u > v}) < VersionRetention}

Inserted(v, doc) ==
  [u \in Retained(DOMAIN versions \cup {v}) |-> IF u = v THEN doc ELSE versions[u]]

InsertPublish(w) ==
  /\ job[w].pc = "insert" /\ job[w].version <= MaxVersion
  /\ IF Free(job[w].version)
       THEN versions' = Inserted(job[w].version, job[w].doc)
       ELSE UNCHANGED versions
  /\ Over(w)
  /\ UNCHANGED <<drafts, edits>>

-----------------------------------------------------------------------------
(* restoreVersion(): one transaction.                                      *)

ReadSource(w) ==
  /\ job[w] = Idle
  /\ \E v \in DOMAIN versions :
       Goto(w, [Idle EXCEPT !.pc = "rebuild", !.doc = versions[v], !.version = Latest + 1])
  /\ UNCHANGED <<drafts, versions, edits, steady, overtaken>>

Publishes(w) == job[w].pc \in {"sections", "items", "number", "insert"}

Rebuild(w) ==
  LET d == job[w].doc
  IN  /\ job[w].pc = "rebuild" /\ job[w].version <= MaxVersion
      /\ IF Free(job[w].version)
           THEN /\ versions' = Inserted(job[w].version, d)
                /\ SetDrafts(RebuiltPages(d), RebuiltSections(d), RebuiltItems(d))
                /\ overtaken' = overtaken \cup {v \in Workers : Publishes(v)}
           ELSE UNCHANGED <<drafts, versions, steady, overtaken>>
      /\ Goto(w, Idle)
      /\ UNCHANGED edits

\* A query fails, a slug or post referred to does not exist, the process dies.
Abort(w) ==
  /\ job[w] # Idle
  /\ Over(w)
  /\ UNCHANGED <<drafts, versions, edits>>

Publisher(w) ==
  \/ ReadPages(w) \/ ReadSections(w) \/ ReadItems(w) \/ NumberPublish(w) \/ InsertPublish(w)
  \/ ReadSource(w) \/ Rebuild(w) \/ Abort(w)

Next == Owner \/ \E w \in Workers : Publisher(w)

Spec == Init /\ [][Next]_vars

-----------------------------------------------------------------------------
(* Properties.                                                             *)

Documents == [pages : SUBSET (Pages \X BOOLEAN), secs : SUBSET (Sections \X Pages),
              items : SUBSET (Sections \X (Skills \cup {None}) \X BOOLEAN)]
RowsOf(S, R) == [S -> R \cup {None}]
JobTypes == [pc : {"idle", "sections", "items", "number", "insert", "rebuild"},
             pages : RowsOf(Pages, PageRows) \cup {None},
             secs : RowsOf(Sections, SectionRows) \cup {None},
             doc : Documents \cup {None}, version : Nat]

\* The type invariant; the drafts hang together as the foreign keys and the
\* unique slugs say, after a restore too.
TypeOK ==
  /\ page \in RowsOf(Pages, PageRows)
  /\ sec \in RowsOf(Sections, SectionRows)
  /\ item \in RowsOf(Sections, ItemRows)
  /\ \A p, q \in There(page) : page[p].home /\ page[q].home => p = q
  /\ \A s \in There(sec) : sec[s].page \in There(page)
  /\ There(item) \subseteq There(sec)
  /\ DOMAIN versions \subseteq 1..MaxVersion
  /\ \A v \in DOMAIN versions : versions[v] \in Documents
  /\ job \in [Workers -> JobTypes]
  /\ edits \in 0..MaxEdits /\ overtaken \subseteq Workers

\* Publishes and restores that race each other leave a history with no gap
\* and no fork: the newest versions, as many as are retained.
HistoryIsWhole ==
  /\ DOMAIN versions # {}
  /\ DOMAIN versions = {v \in 1..Latest : v + VersionRetention > Latest}

\* A version once made is never rewritten, and what is live is never replaced
\* by a version with a lower number.
VersionsAppendOnly ==
  [][/\ \A v \in DOMAIN versions \cap DOMAIN versions' : versions'[v] = versions[v]
     /\ \A v \in DOMAIN versions' \ DOMAIN versions : v > Latest
     /\ Latest' >= Latest]_vars

\* "Invalid content can reach a draft but must never reach production": no
\* version holds a payload the schema refuses, and a skill that is referred
\* to is in the document if its section is.
ProductionIsValid ==
  \A v \in DOMAIN versions : LET d == versions[v] IN
    /\ d.pages # {}
    /\ \A e \in d.items : e[3]
    /\ \A e \in d.items, x \in d.secs : x[1] = e[2] => \E y \in d.items : y[1] = e[2]

\* What one is_hidden flag has covered since publish() was called is not in
\* the document, however the drafts are edited in the meantime.
HiddenStaysPrivate ==
  [][\A w \in Workers : Publishes(w) =>
       \A v \in DOMAIN versions' \ DOMAIN versions : LET d == versions'[v] IN
         job'[w] = Idle /\ job[w].pc = "insert" =>
           /\ \A e \in d.items : <<"item", e[1]>> \notin steady[w]
           /\ \A e \in d.secs : <<"section", e[1]>> \notin steady[w]
           /\ \A e \in d.pages : <<"page", e[1]>> \notin steady[w]]_vars

\* The rebuild is whole: publishing right after a restore publishes what the
\* restore made live.
RestoreIsRepublishable ==
  [][\A w \in Workers :
       job[w].pc = "rebuild" /\ job'[w] = Idle /\ versions' # versions
         => Serialize(page', sec', item') = versions'[Latest']]_vars

\* Without the rebuild "the next publish would silently undo the restore": no
\* publish makes content live that is neither what was restored nor what the
\* drafts hold.
RestoreIsNotUndone ==
  [][\A w \in overtaken : job[w].pc = "insert" /\ versions' # versions /\ job'[w] = Idle
       => versions'[Latest'] \in {versions[Latest], Serialize(page, sec, item)}]_vars

===============================================================================
