--------------------------- MODULE EditorProject ---------------------------
(***************************************************************************)
(* An editor tab and the project's page documents.                         *)
(*                                                                         *)
(* The tab holds a working copy of the page index and of every page        *)
(* (shared/store/configStore.ts), an undo history and the project's dirty  *)
(* flag (projectStore.ts).  It saves the index and then each dirty page in *)
(* a request of its own, is told when another writer (an agent over MCP,   *)
(* another tab) changed something (ConfigUpdatedBanner.tsx) and fetches    *)
(* anew when nothing is unsaved (config/utils/editorLiveSync.ts).  The     *)
(* server side is api/config_api.py, whose handlers hold the event loop    *)
(* from beginning to end.                                                  *)
(*                                                                         *)
(* A document is its content: its revision is a hash of that, so it is the *)
(* content here too.  Of a page, the metadata is left out; of the index,   *)
(* the order of its nodes and the shell are one value.                     *)
(***************************************************************************)
EXTENDS Naturals, Sequences, FiniteSets

CONSTANTS
    Pages,       \* page ids
    Bodies,      \* what the author may make of a page, beside Empty
    Shells,      \* what the author may make of the rest of the index
    Empty,       \* a page without widgets
    Missing,     \* no document
    Nowhere,     \* no place in the index
    MaxHistory,  \* MAX_HISTORY
    MaxEdits,    \* bound: steps of the author, each of which may be redone
    MaxOther,    \* bound: changes by other writers
    MaxUpsets    \* bound: requests that fail, events that are lost, and
                 \* fetches beside the live reloads

ASSUME BoundsAssumption ==
    /\ MaxHistory \in Nat \ {0, 1} /\ MaxEdits \in Nat
    /\ MaxOther \in Nat /\ MaxUpsets \in Nat

(* The change that another writer makes the n-th is one nobody made before. *)
Changes == 1..MaxOther
Roots == {"pages", "dialogs"}
Index == "index"
Docs == Pages \cup {Index}
Contents == Bodies \cup {Empty} \cup Changes

ASSUME ConstantsAssumption ==
    /\ Missing \notin Contents /\ Nowhere \notin Roots
    /\ Index \notin Pages /\ Empty \notin Bodies
    /\ (Bodies \cup {Empty} \cup Shells) \cap Changes = {}

VARIABLES
    disk,        \* config.json, and the page documents of both directories
    tab,         \* the working copy
    loaded,      \* loadedPageIds
    dirtyPages,  \* dirtyPageIds
    revs,        \* indexRevision and pageRevisions
    dirty,       \* projectStore.dirty
    past, future,
    save,        \* the saveAll that runs
    sync,        \* the reload that runs (editorLiveSync)
    loose,       \* the fetch on its way that is not a live reload
    news,        \* change events on their way
    banner,      \* the banner that warns of another writer
    turn, edits, upsets, \* what the bounds count
    missed,      \* history variable: a change event was lost, or the banner
                 \* dismissed
    forgotten,   \* history variable: documents of which the tab lost count
    unguarded    \* history variable: documents that came into the tab while
                 \* the history was kept, or after a newer copy, or that
                 \* changed and came back to what the tab knew, or that the
                 \* tab made anew where another writer had changed one

books == <<loaded, dirtyPages, revs>>
history == <<past, future>>
ghosts == <<missed, forgotten, unguarded>>
counts == <<turn, edits, upsets>>
vars == <<disk, tab, books, dirty, history, save, sync, loose, news, banner,
          counts, ghosts>>

-----------------------------------------------------------------------------
(* The documents.                                                          *)

IndexOf(x) == [place |-> x.place, shell |-> x.shell]
Placed(x, root) == {p \in Pages : x.place[p] = root}
InTree(x) == {p \in Pages : x.place[p] # Nowhere}
OtherRoot(root) == CHOOSE r \in Roots : r # root

(* The document of a page, wherever it lies.                               *)
Document(d, p) ==
    IF \E r \in Roots : d.doc[r][p] # Missing
    THEN d.doc[CHOOSE r \in Roots : d.doc[r][p] # Missing][p]
    ELSE Missing

Served(d, p) == IF d.place[p] = Nowhere THEN Missing ELSE d.doc[d.place[p]][p]

(* What GET /config answers: the index with the content of its pages, and  *)
(* the revisions.                                                          *)
Answer ==
    [copy |-> [place |-> disk.place, shell |-> disk.shell,
               body |-> [p \in Pages |-> IF Served(disk, p) = Missing
                                         THEN Empty ELSE Served(disk, p)],
               seen |-> disk.stamp],
     revs |-> [index |-> IndexOf(disk), page |-> [p \in Pages |-> Served(disk, p)]]]

(* What a copy, or the disk, makes of a document.                          *)
Content(copy, d) ==
    IF d = Index THEN IndexOf(copy)
    ELSE IF copy.place[d] = Nowhere THEN Missing ELSE copy.body[d]
Stored(d) == Content(Answer.copy, d)
OnDisk(d) == IF d = Index THEN IndexOf(disk) ELSE Document(disk, d)

-----------------------------------------------------------------------------
(* The tab's books.                                                        *)

Hydrated(copy, root) == {p \in Placed(copy, root) : copy.body[p] # Empty}

(* setPages, then setDialogs: each counts the pages of its root that come  *)
(* with content, and keeps of the set what lies in the other root.         *)
Reckoned(set, copy) ==
    (((set \cap Placed(tab, "dialogs")) \cup Hydrated(copy, "pages"))
        \cap Placed(copy, "pages"))
    \cup Hydrated(copy, "dialogs")

NoSave == [phase |-> "idle"]
Saving == save.phase # "idle"
NoFetch == [phase |-> "idle"]

(* Pages whose change waits for, or travels with, the save that runs.      *)
InFlight == IF save.phase \in {"index", "pages"} THEN save.want ELSE {}

TouchedMutant ==
    /\ dirty' = TRUE
    /\ save' = IF Saving THEN [save EXCEPT !.stale = TRUE] ELSE save
    /\ UNCHANGED sync

ClearHistoryMutant == future' = <<>> /\ UNCHANGED past

(* _dirtySeq moves: a save or a reload that runs will see that.            *)
Touched ==
    /\ dirty' = TRUE
    /\ save' = IF Saving THEN [save EXCEPT !.stale = TRUE] ELSE save
    /\ sync' = IF sync.phase = "asked" THEN [sync EXCEPT !.stale = TRUE] ELSE sync

PushSnapshot ==
    LET kept == IF Len(past) >= MaxHistory
                THEN SubSeq(past, Len(past) - MaxHistory + 2, Len(past)) ELSE past
    IN /\ past' = Append(kept, tab)
       /\ future' = <<>>

(* projectThrottledSnapshotAndDirty: an edit that follows another within   *)
(* half a second goes into its undo step.                                  *)
ThrottledSnapshot == PushSnapshot \/ (edits > 0 /\ UNCHANGED history)

ClearHistory == past' = <<>> /\ future' = <<>>
-----------------------------------------------------------------------------
(* The tab was loaded before the first step, from a project with every     *)
(* page in the Pages tree.                                                 *)
Init ==
    /\ \E body \in [Pages -> {Empty} \cup Bodies], shell \in Shells :
           disk = [place |-> [p \in Pages |-> "pages"], shell |-> shell,
                   doc |-> [r \in Roots |-> [p \in Pages |->
                               IF r = "pages" THEN body[p] ELSE Missing]],
                   stamp |-> [d \in Docs |-> 0]]
    /\ tab = Answer.copy
    /\ loaded = {p \in Pages : tab.body[p] # Empty}
    /\ dirtyPages = {}
    /\ revs = Answer.revs
    /\ dirty = FALSE
    /\ past = <<>> /\ future = <<>>
    /\ save = NoSave /\ sync = NoFetch /\ loose = NoFetch
    /\ news = 0 /\ banner = FALSE
    /\ turn = 0 /\ edits = 0 /\ upsets = 0
    /\ missed = FALSE /\ forgotten = {} /\ unguarded = {}

-----------------------------------------------------------------------------
(* The author.                                                             *)

Changing ==
    /\ Touched
    /\ UNCHANGED <<disk, revs, loose, news, banner, turn, upsets, missed, unguarded>>

Edits == edits < MaxEdits /\ edits' = edits + 1 /\ Changing

(* A change of widgets or metadata on a page: the page is dirty.  A page   *)
(* that is not loaded shows no widgets; one may be put into it all the same.*)
EditPage(p, body) ==
    /\ tab.place[p] # Nowhere
    /\ body # tab.body[p]
    /\ Edits
    /\ ThrottledSnapshot
    /\ tab' = [tab EXCEPT !.body[p] = body]
    /\ dirtyPages' = dirtyPages \cup {p}
    /\ forgotten' = forgotten \cup ({p} \cap InFlight) \cup ({p} \ loaded)
    /\ UNCHANGED loaded

MoveWidgetMutant(p, q, left, arrived) ==
    /\ p # q /\ tab.place[p] # Nowhere /\ tab.place[q] # Nowhere
    /\ tab.body[p] # Empty /\ arrived # Empty
    /\ Edits
    /\ PushSnapshot
    /\ tab' = [tab EXCEPT !.body[p] = left, !.body[q] = arrived]
    /\ dirtyPages' = dirtyPages \cup {q}
    /\ forgotten' = forgotten \cup ({p, q} \cap InFlight) \cup ({p, q} \ loaded)
    /\ UNCHANGED loaded

(* One widget moves from a page to another: both are dirty.  (What is left *)
(* and what arrives are any contents.)                                     *)
MoveWidget(p, q, left, arrived) ==
    /\ p # q /\ tab.place[p] # Nowhere /\ tab.place[q] # Nowhere
    /\ tab.body[p] # Empty /\ arrived # Empty
    /\ Edits
    /\ PushSnapshot
    /\ tab' = [tab EXCEPT !.body[p] = left, !.body[q] = arrived]
    /\ dirtyPages' = dirtyPages \cup {p, q}
    /\ forgotten' = forgotten \cup ({p, q} \cap InFlight) \cup ({p, q} \ loaded)
    /\ UNCHANGED loaded

(* The shell, the order of the pages, a group.                             *)
EditIndex(shell) ==
    /\ Edits
    /\ ThrottledSnapshot
    /\ tab' = [tab EXCEPT !.shell = shell]
    /\ UNCHANGED <<loaded, dirtyPages, forgotten>>

AddPage(p, root, body) ==
    /\ tab.place[p] = Nowhere
    /\ Edits
    /\ PushSnapshot
    /\ tab' = [tab EXCEPT !.place[p] = root, !.body[p] = body]
    /\ loaded' = loaded \cup {p}
    /\ dirtyPages' = dirtyPages \cup {p}
    /\ forgotten' = forgotten \cup ({p} \cap InFlight)

DeletePage(p) ==
    /\ tab.place[p] # Nowhere
    /\ Edits
    /\ PushSnapshot
    /\ tab' = [tab EXCEPT !.place[p] = Nowhere, !.body[p] = Empty]
    /\ loaded' = loaded \ {p}
    /\ dirtyPages' = dirtyPages \ {p}
    /\ UNCHANGED forgotten

MovePage(p, root) ==
    /\ tab.place[p] = OtherRoot(root)
    /\ Edits
    /\ PushSnapshot
    /\ tab' = [tab EXCEPT !.place[p] = root]
    /\ UNCHANGED <<loaded, dirtyPages, forgotten>>

(* restoreSnapshot.  A page that is empty in the snapshot leaves the books, *)
(* whatever the server holds of it.                                        *)
Restore(copy) ==
    /\ tab' = copy
    /\ loaded' = Reckoned(loaded, copy)
    /\ dirtyPages' = Reckoned(dirtyPages, copy)
    /\ forgotten' = forgotten \cup InFlight
                    \cup {p \in InTree(copy) \ Reckoned(dirtyPages, copy) :
                              copy.body[p] = Empty}

Undo ==
    /\ past # <<>>
    /\ Edits
    /\ past' = SubSeq(past, 1, Len(past) - 1)
    /\ future' = <<tab>> \o future
    /\ Restore(past[Len(past)])

Redo ==
    /\ future # <<>>
    /\ Changing /\ UNCHANGED edits
    /\ past' = Append(past, tab)
    /\ future' = Tail(future)
    /\ Restore(Head(future))

Load(answer) ==
    /\ tab' = answer.copy
    /\ loaded' = Reckoned(loaded, answer.copy)
    /\ dirtyPages' = {}
    /\ revs' = answer.revs

(* The banner's buttons: reload the browser page, or go on.                *)
PageReload ==
    /\ banner /\ ~Saving
    /\ tab' = Answer.copy
    /\ loaded' = {p \in InTree(disk) : Answer.copy.body[p] # Empty}
    /\ dirtyPages' = {}
    /\ revs' = Answer.revs
    /\ dirty' = FALSE
    /\ ClearHistory
    /\ save' = NoSave /\ sync' = NoFetch /\ loose' = NoFetch
    /\ news' = 0 /\ banner' = FALSE
    /\ missed' = FALSE /\ forgotten' = {} /\ unguarded' = {}
    /\ UNCHANGED <<disk, counts>>

KeepUnsaved ==
    /\ banner
    /\ banner' = FALSE /\ missed' = TRUE
    /\ UNCHANGED <<disk, tab, books, dirty, history, save, sync, loose, news,
                   counts, forgotten, unguarded>>

Author ==
    \/ \E p \in Pages, body \in Bodies \cup {Empty} : EditPage(p, body)
    \/ \E p, q \in Pages, left \in {Empty}, arrived \in Bodies : MoveWidget(p, q, left, arrived)
    \/ \E shell \in Shells : EditIndex(shell)
    \/ \E p \in Pages, root \in Roots, body \in Bodies \cup {Empty} : AddPage(p, root, body)
    \/ \E p \in Pages : DeletePage(p)
    \/ \E p \in Pages, root \in Roots : MovePage(p, root)
    \/ Undo \/ Redo \/ PageReload \/ KeepUnsaved

-----------------------------------------------------------------------------
(* saveAll: the index, then every page that was dirty when it began, then  *)
(* everything else (translations, drafts, domains: one step that works or  *)
(* does not).                                                              *)

Save ==
    /\ dirty /\ ~Saving
    /\ save' = [phase |-> "index", copy |-> tab, want |-> dirtyPages, revs |-> revs,
                loaded |-> {}, left |-> {}, done |-> {}, refused |-> {}, bad |-> FALSE,
                stale |-> FALSE]
    /\ UNCHANGED <<disk, tab, books, dirty, history, sync, loose, news, banner,
                   counts, ghosts>>

SaveKeeps == UNCHANGED <<tab, dirty, history, sync, loose, news, banner, turn, edits,
                         missed>>

(* How a request may end: it works, it never arrives or is found invalid,  *)
(* or it works and the answer is lost.                                     *)
Outcome(out) ==
    /\ out \in {"ok", "failed", "lost"}
    /\ out # "ok" => upsets < MaxUpsets
    /\ upsets' = IF out = "ok" THEN upsets ELSE upsets + 1

(* put_config writes the index, takes the documents of pages that changed  *)
(* root along and sweeps those the index no longer names.                  *)
Rewritten(copy) ==
    [disk EXCEPT
        !.place = copy.place, !.shell = copy.shell,
        !.doc = [r \in Roots |-> [p \in Pages |->
                    IF copy.place[p] # r THEN Missing
                    ELSE IF disk.doc[r][p] # Missing THEN disk.doc[r][p]
                    ELSE disk.doc[OtherRoot(r)][p]]]]

IndexRefused == save.revs.index # IndexOf(disk)

PutIndex(out) ==
    /\ save.phase = "index"
    /\ Outcome(out)
    /\ ~IndexRefused
    /\ disk' = IF out = "failed" THEN disk ELSE Rewritten(save.copy)
    /\ IF out = "ok"
       THEN /\ revs' = [revs EXCEPT !.index = IndexOf(save.copy)]
            /\ save' = [save EXCEPT !.phase = "pages", !.loaded = loaded,
                                    !.left = save.want \cap InTree(save.copy)]
       ELSE save' = NoSave /\ UNCHANGED revs
    /\ SaveKeeps /\ UNCHANGED <<loaded, dirtyPages, forgotten, unguarded>>

PutIndexRefused ==
    /\ save.phase = "index"
    /\ IndexRefused
    /\ save' = NoSave
    /\ SaveKeeps /\ UNCHANGED <<disk, books, upsets, forgotten, unguarded>>

(* A page that is not counted as loaded is sent without its content.       *)
PageSent(p) ==
    LET root == save.copy.place[p]
    IN IF p \in save.loaded THEN save.copy.body[p]
       ELSE IF disk.doc[root][p] = Missing THEN Empty ELSE disk.doc[root][p]

PageRefusedMutant(p) == FALSE

PageRefused(p) == save.revs.page[p] # disk.doc[save.copy.place[p]][p]

PutPage(p, out) ==
    /\ save.phase = "pages" /\ p \in save.left
    /\ Outcome(out)
    /\ ~PageRefused(p)
    /\ disk' = IF out = "failed" THEN disk
               ELSE [disk EXCEPT !.doc[save.copy.place[p]][p] = PageSent(p)]
    /\ IF out = "ok"
       THEN /\ revs' = [revs EXCEPT !.page[p] = PageSent(p)]
            /\ save' = [save EXCEPT !.left = @ \ {p}, !.done = @ \cup {p}]
       ELSE /\ save' = [save EXCEPT !.left = @ \ {p}, !.bad = TRUE]
            /\ UNCHANGED revs
    /\ unguarded' = IF out = "failed" \/ save.revs.page[p] # Missing
                       \/ save.copy.seen[p] = disk.stamp[p]
                    THEN unguarded ELSE unguarded \cup {p}
    /\ SaveKeeps /\ UNCHANGED <<loaded, dirtyPages, forgotten>>

PutPageRefused(p) ==
    /\ save.phase = "pages" /\ p \in save.left
    /\ PageRefused(p)
    /\ save' = [save EXCEPT !.left = @ \ {p}, !.refused = @ \cup {p}, !.bad = TRUE]
    /\ SaveKeeps /\ UNCHANGED <<disk, books, upsets, forgotten, unguarded>>

(* What was saved is no longer dirty, edited in the meantime or not.       *)
PagesDone ==
    /\ save.phase = "pages" /\ save.left = {}
    /\ dirtyPages' = dirtyPages \ save.done
    /\ save' = IF save.bad THEN NoSave ELSE [save EXCEPT !.phase = "rest"]
    /\ SaveKeeps /\ UNCHANGED <<disk, loaded, revs, upsets, forgotten, unguarded>>

RestDone(works) ==
    /\ save.phase = "rest"
    /\ works \/ upsets < MaxUpsets
    /\ upsets' = IF works THEN upsets ELSE upsets + 1
    /\ dirty' = IF works THEN save.stale ELSE dirty
    /\ save' = NoSave
    /\ UNCHANGED <<disk, tab, books, history, sync, loose, news, banner, turn, edits,
                   ghosts>>

Saves ==
    \/ Save \/ PutIndexRefused \/ PagesDone
    \/ \E out \in {"ok", "failed", "lost"} :
           PutIndex(out) \/ \E p \in Pages : PutPage(p, out)
    \/ \E p \in Pages : PutPageRefused(p)
    \/ \E works \in BOOLEAN : RestDone(works)

-----------------------------------------------------------------------------
(* Other writers, each change of which is an event for the tab.            *)

OtherChangesMutant ==
    /\ turn < MaxOther
    /\ turn' = turn + 1
    /\ news' = news + 2
    /\ UNCHANGED <<tab, books, dirty, history, save, sync, loose, banner, edits, upsets,
                   missed, forgotten>>

OtherChanges ==
    /\ turn < MaxOther
    /\ turn' = turn + 1
    /\ news' = news + 1
    /\ UNCHANGED <<tab, books, dirty, history, save, sync, loose, banner, edits, upsets,
                   missed, forgotten>>

Stamped(touched) ==
    [d \in Docs |-> disk.stamp[d] + (IF d \in touched THEN 1 ELSE 0)]

OtherWritesPage(p) ==
    /\ disk.place[p] # Nowhere
    /\ OtherChanges
    /\ disk' = [disk EXCEPT !.doc[disk.place[p]][p] = turn + 1, !.stamp = Stamped({p})]
    /\ UNCHANGED unguarded

OtherWritesIndex ==
    /\ OtherChanges
    /\ disk' = [disk EXCEPT !.shell = turn + 1, !.stamp = Stamped({Index})]
    /\ UNCHANGED unguarded

(* The revisions of the index that the tab goes by.                        *)
HeldIndexes ==
    {revs.index} \cup (IF save.phase = "index" THEN {save.revs.index} ELSE {})

(* A deletion may take the index back to what the tab knew: the content is *)
(* the revision, and does not tell.                                        *)
OtherDeletesPage(p) ==
    /\ disk.place[p] # Nowhere
    /\ OtherChanges
    /\ disk' = [disk EXCEPT !.doc[disk.place[p]][p] = Missing, !.place[p] = Nowhere,
                            !.stamp = Stamped({p, Index})]
    /\ unguarded' = unguarded
                    \cup (IF IndexOf(disk') \in HeldIndexes THEN {Index} ELSE {})

LoseEvent ==
    /\ news > 0 /\ upsets < MaxUpsets
    /\ news' = news - 1 /\ upsets' = upsets + 1
    /\ missed' = TRUE
    /\ UNCHANGED <<disk, tab, books, dirty, history, save, sync, loose, banner, turn,
                   edits, forgotten, unguarded>>

Others ==
    \/ \E p \in Pages : OtherWritesPage(p) \/ OtherDeletesPage(p)
    \/ OtherWritesIndex \/ LoseEvent

-----------------------------------------------------------------------------
(* The reload of an editor with nothing unsaved (reloadEditor).            *)

Asked(applied) ==
    [phase |-> "asked", answer |-> Answer, stale |-> FALSE, again |-> FALSE,
     applied |-> applied]

Hear ==
    /\ news > 0
    /\ news' = news - 1
    /\ IF dirty THEN banner' = TRUE /\ UNCHANGED sync
       ELSE /\ sync' = IF sync.phase = "asked" THEN [sync EXCEPT !.again = TRUE]
                       ELSE Asked(TRUE)
            /\ UNCHANGED banner
    /\ UNCHANGED <<disk, tab, books, dirty, history, save, loose, counts, ghosts>>

PassOverMutant(applied) ==
    IF sync.again /\ ~dirty
    THEN sync' = Asked(applied) /\ UNCHANGED banner
    ELSE /\ sync' = NoFetch
         /\ banner' = (banner \/ sync.again)

(* The next pass, if an event came during this one; else the banner, when  *)
(* something was left out.                                                 *)
PassOver(applied) ==
    IF sync.again /\ ~dirty
    THEN sync' = Asked(applied) /\ UNCHANGED banner
    ELSE /\ sync' = NoFetch
         /\ banner' = (banner \/ sync.again \/ ~applied \/ dirty)

SyncAnswers ==
    /\ sync.phase = "asked"
    /\ IF sync.stale THEN UNCHANGED <<tab, books, history, forgotten, unguarded>>
       ELSE /\ Load(sync.answer)
            /\ forgotten' = {}
            /\ IF dirty THEN UNCHANGED <<history, unguarded>>
               ELSE ClearHistory /\ unguarded' = {}
    /\ PassOver(sync.applied /\ ~sync.stale)
    /\ UNCHANGED <<disk, dirty, save, loose, news, counts, missed>>

SyncFails ==
    /\ sync.phase = "asked" /\ upsets < MaxUpsets
    /\ upsets' = upsets + 1
    /\ PassOver(FALSE)
    /\ UNCHANGED <<disk, tab, books, dirty, history, save, loose, news, turn, edits,
                   ghosts>>

-----------------------------------------------------------------------------
(* The other ways for content to come in: the index when EditorView mounts *)
(* (useConfig), a page by itself when it is shown or expanded              *)
(* (loadPageContent).  What arrives is taken over as it is.                *)

Fetch(what) ==
    /\ loose = NoFetch /\ upsets < MaxUpsets
    /\ loose' = what
    /\ upsets' = upsets + 1
    /\ UNCHANGED <<disk, tab, books, dirty, history, save, sync, news, banner, turn, edits,
                   ghosts>>

Mount == ~dirty /\ Fetch([phase |-> "index", answer |-> Answer])

AskPage(p) ==
    /\ p \notin loaded /\ tab.place[p] # Nowhere
    /\ LET doc == disk.doc[tab.place[p]][p]
       IN Fetch(IF doc = Missing
                THEN [phase |-> "page", page |-> p, seen |-> tab.seen[p], body |-> Empty]
                ELSE [phase |-> "page", page |-> p, seen |-> disk.stamp[p], body |-> doc])

MountAnswers ==
    /\ loose.phase = "index"
    /\ Load(loose.answer)
    /\ loose' = NoFetch
    /\ forgotten' = IF dirty THEN Docs
                    ELSE {d \in Docs : Content(loose.answer.copy, d) # Stored(d)}
    /\ unguarded' = unguarded \cup {d \in Docs :
           \/ loose.answer.copy.seen[d] # tab.seen[d]
           \/ /\ loose.answer.copy.seen[d] # disk.stamp[d]
              /\ Content(loose.answer.copy, d) = OnDisk(d)}
    /\ UNCHANGED <<disk, dirty, history, save, sync, news, banner, counts, missed>>

PageAnswers ==
    /\ loose.phase = "page"
    /\ LET p == loose.page
       IN /\ tab' = IF tab.place[p] = Nowhere THEN tab
                    ELSE [tab EXCEPT !.body[p] = loose.body, !.seen[p] = loose.seen]
          /\ loaded' = loaded \cup {p}
          /\ unguarded' = unguarded \cup (IF loose.seen = tab.seen[p] THEN {} ELSE {p})
          /\ forgotten' = forgotten
                 \cup (IF tab.body[p] = loose.body /\ tab.seen[p] = loose.seen
                       THEN {} ELSE {p})
    /\ loose' = NoFetch
    /\ UNCHANGED <<disk, dirtyPages, revs, dirty, history, save, sync, news, banner, counts,
                   missed>>

Fetches ==
    \/ Hear \/ SyncAnswers \/ SyncFails \/ Mount \/ MountAnswers
    \/ PageAnswers \/ \E p \in Pages : AskPage(p)

-----------------------------------------------------------------------------
Next == Author \/ Saves \/ Others \/ Fetches

Spec == Init /\ [][Next]_vars

-----------------------------------------------------------------------------
Rooted == [Pages -> Roots \cup {Nowhere}]
Copies ==
    [place : Rooted, shell : Shells \cup Changes, body : [Pages -> Contents],
     seen : [Docs -> 0..MaxOther]]
Revisions ==
    [index : [place : Rooted, shell : Shells \cup Changes],
     page : [Pages -> Contents \cup {Missing}]]

TypeOK ==
    /\ disk \in [place : Rooted, shell : Shells \cup Changes,
                 doc : [Roots -> [Pages -> Contents \cup {Missing}]],
                 stamp : [Docs -> 0..MaxOther]]
    /\ tab \in Copies
    /\ loaded \subseteq Pages /\ dirtyPages \subseteq Pages
    /\ revs \in Revisions
    /\ dirty \in BOOLEAN /\ banner \in BOOLEAN
    /\ Len(past) <= MaxHistory
    /\ \A i \in 1..Len(past) : past[i] \in Copies
    /\ \A i \in 1..Len(future) : future[i] \in Copies
    /\ save.phase \in {"idle", "index", "pages", "rest"}
    /\ sync.phase \in {"idle", "asked"} /\ loose.phase \in {"idle", "index", "page"}
    /\ news \in 0..MaxOther /\ turn \in 0..MaxOther
    /\ forgotten \subseteq Docs /\ unguarded \subseteq Docs

Current(d) == tab.seen[d] = disk.stamp[d]

(* A page that the author changed is named by dirtyPageIds until the       *)
(* server has the change, so that the next save sends it (configStore.ts,  *)
(* saveConfigToBackend and the edits).                                     *)
BooksCover ==
    \A p \in InTree(tab) \ forgotten :
        Current(p) /\ Current(Index) /\ Stored(p) # Content(tab, p) => p \in dirtyPages

(* "No unsaved changes" is true: what the tab shows is what the server     *)
(* holds, unless another writer changed it (projectStore.ts, saveAll).     *)
SavedIsOnDisk ==
    ~dirty => \A d \in Docs \ forgotten :
                  Current(d) /\ Current(Index) => Stored(d) = Content(tab, d)

(* Both: no edit is left out of the books, or of the disk once the editor  *)
(* says that all is saved.                                                 *)
NoEditForgotten == BooksCover /\ SavedIsOnDisk

(* A page that was edited while it was being saved stays dirty             *)
(* (configStore.ts, saveConfigToBackend).                                  *)
EditedMeanwhileStaysDirty ==
    [][PagesDone => \A p \in save.done \cap InTree(tab) :
           tab.body[p] # save.copy.body[p] => p \in dirtyPages']_vars

(* A live reload takes nothing of the author's away (editorLiveSync.ts).   *)
ReloadKeepsEdits == [][SyncAnswers /\ dirty => UNCHANGED tab]_vars

(* Undo and redo do not step back over another writer's change, as far as  *)
(* it came in by a live reload (editorLiveSync.ts, reloadEditor).          *)
UndoKeepsOthers ==
    [][Undo \/ Redo => \A d \in Docs \ unguarded : tab'.seen[d] >= tab.seen[d]]_vars

(* Revisions keep the tab from replacing what it has not seen.             *)
Shared ==
    INSTANCE SharedDocument WITH
        val <- [d \in Docs |-> OnDisk(d)],
        others <- disk.stamp,
        reflects <- IF Saving THEN save.copy.seen ELSE tab.seen,
        exempt <- unguarded
ReplacesNothingUnseen == Shared!Spec

(* When every change event was heard and no reload runs, the tab shows     *)
(* every change of another writer, or it has warned the author             *)
(* (ConfigUpdatedBanner.tsx, editorLiveSync.ts).                           *)
ChangesAreNoticed ==
    news = 0 /\ sync.phase = "idle" /\ ~missed /\ ~banner
        => \A d \in Docs \ unguarded : Current(d)
=============================================================================
