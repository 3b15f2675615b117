---------------------------- MODULE EditorProofs ----------------------------
(***************************************************************************)
(* Proofs about the editor tab and the shared documents (EditorProject):   *)
(* types; what the dirty flag, the save and the live reload know of each   *)
(* other; what the undo history reflects; from what a revision tells its   *)
(* holder, that the tab implements SharedDocument; that no change of       *)
(* another writer goes unnoticed; and that no edit is forgotten.           *)
(***************************************************************************)
EXTENDS EditorProject, TLAPS

-----------------------------------------------------------------------------
(* Types, sharper than TypeOK: what anyone has made of a document so far.  *)

Made == Bodies \cup {Empty} \cup 1..turn
ShellsMade == Shells \cup 1..turn
Indexes == [place : Rooted, shell : ShellsMade]
Copy == [place : Rooted, shell : ShellsMade, body : [Pages -> Made], seen : [Docs -> 0..turn]]
Revs == [index : Indexes, page : [Pages -> Made \cup {Missing}]]
Fetched == [copy : Copy, revs : Revs]
Server ==
    [place : Rooted, shell : ShellsMade, doc : [Roots -> [Pages -> Made \cup {Missing}]],
     stamp : [Docs -> 0..turn]]
SaveFields ==
    [phase : {"index", "pages", "rest"}, copy : Copy, want : SUBSET Pages, revs : Revs,
     loaded : SUBSET Pages, left : SUBSET Pages, done : SUBSET Pages,
     refused : SUBSET Pages, bad : BOOLEAN, stale : BOOLEAN]
SaveRuns == {run \in SaveFields : run.left \subseteq InTree(run.copy)}
SyncRuns ==
    [phase : {"asked"}, answer : Fetched, stale : BOOLEAN, again : BOOLEAN, applied : BOOLEAN]
IndexFetches == [phase : {"index"}, answer : Fetched]
PageFetches == [phase : {"page"}, page : Pages, seen : 0..turn, body : Made]

TypeInv ==
    /\ turn \in 0..MaxOther /\ news \in 0..turn
    /\ disk \in Server /\ tab \in Copy /\ revs \in Revs
    /\ loaded \subseteq Pages /\ dirtyPages \subseteq Pages
    /\ dirty \in BOOLEAN /\ banner \in BOOLEAN
    /\ past \in Seq(Copy) /\ future \in Seq(Copy)
    /\ Len(past) + Len(future) <= MaxHistory
    /\ save = NoSave \/ save \in SaveRuns
    /\ sync = NoFetch \/ sync \in SyncRuns
    /\ loose = NoFetch \/ loose \in IndexFetches \/ loose \in PageFetches
    /\ forgotten \subseteq Docs /\ unguarded \subseteq Docs

LEMMA SetsSame ==
    ASSUME UNCHANGED turn
    PROVE  /\ Made' = Made /\ ShellsMade' = ShellsMade /\ Indexes' = Indexes
           /\ Copy' = Copy /\ Revs' = Revs /\ Fetched' = Fetched /\ Server' = Server
           /\ SaveRuns' = SaveRuns /\ SyncRuns' = SyncRuns
           /\ IndexFetches' = IndexFetches /\ PageFetches' = PageFetches
<1>1. Made' = Made /\ ShellsMade' = ShellsMade
  BY DEF Made, ShellsMade
<1>2. Indexes' = Indexes
  BY <1>1 DEF Indexes
<1>3. Copy' = Copy /\ Revs' = Revs
  BY <1>1, <1>2 DEF Copy, Revs
<1>4. Fetched' = Fetched /\ Server' = Server
  BY <1>1, <1>3 DEF Fetched, Server
<1>5. SaveFields' = SaveFields
  BY <1>3 DEF SaveFields
<1>6. SaveRuns' = SaveRuns
  BY <1>5 DEF SaveRuns, InTree
<1>7. QED
  BY <1>1, <1>2, <1>3, <1>4, <1>6 DEF SyncRuns, IndexFetches, PageFetches

LEMMA SetsGrow ==
    ASSUME turn \in Nat, turn' = turn + 1
    PROVE  /\ Made \subseteq Made' /\ ShellsMade \subseteq ShellsMade'
           /\ Copy \subseteq Copy' /\ Revs \subseteq Revs' /\ Server \subseteq Server'
           /\ Seq(Copy) \subseteq Seq(Copy')
           /\ SaveRuns \subseteq SaveRuns' /\ SyncRuns \subseteq SyncRuns'
           /\ IndexFetches \subseteq IndexFetches' /\ PageFetches \subseteq PageFetches'
<1>1. 0..turn \subseteq 0..turn' /\ 1..turn \subseteq 1..turn'
  OBVIOUS
<1>2. Made \subseteq Made' /\ ShellsMade \subseteq ShellsMade'
  BY <1>1 DEF Made, ShellsMade
<1>3. Indexes \subseteq Indexes'
  BY <1>2 DEF Indexes
<1>4. Copy \subseteq Copy'
  BY <1>1, <1>2 DEF Copy
<1>5. Revs \subseteq Revs'
  BY <1>2, <1>3 DEF Revs
<1>6. Server \subseteq Server'
  BY <1>1, <1>2 DEF Server
<1>7. Fetched \subseteq Fetched'
  BY <1>4, <1>5 DEF Fetched
<1>8. Seq(Copy) \subseteq Seq(Copy')
  BY <1>4
<1>9. SaveRuns \subseteq SaveRuns'
  <2>1. SaveFields \subseteq SaveFields'
    BY <1>4, <1>5 DEF SaveFields
  <2>2. QED
    BY <2>1 DEF SaveRuns, InTree
<1>10. SyncRuns \subseteq SyncRuns' /\ IndexFetches \subseteq IndexFetches'
  BY <1>7 DEF SyncRuns, IndexFetches
<1>11. PageFetches \subseteq PageFetches'
  BY <1>1, <1>2 DEF PageFetches
<1>12. QED
  BY <1>2, <1>4, <1>5, <1>6, <1>8, <1>9, <1>10, <1>11

(* What the server answers.                                                *)
LEMMA AnswerOf == ASSUME disk \in Server PROVE Answer \in Fetched
<1>1. /\ disk \in Server /\ disk.place \in Rooted /\ disk.shell \in ShellsMade
      /\ disk.stamp \in [Docs -> 0..turn]
      /\ disk.doc \in [Roots -> [Pages -> Made \cup {Missing}]]
  BY DEF Server
<1>2. \A p \in Pages : Served(disk, p) \in Made \cup {Missing}
  BY <1>1 DEF Served, Rooted
<1>3. [p \in Pages |-> IF Served(disk, p) = Missing THEN Empty ELSE Served(disk, p)]
        \in [Pages -> Made]
  BY <1>2 DEF Made
<1>4. Answer.copy \in Copy
  BY <1>1, <1>3 DEF Answer, Copy
<1>5. Answer.revs \in Revs
  BY <1>1, <1>2 DEF Answer, Revs, IndexOf, Indexes
<1>6. Answer = [copy |-> Answer.copy, revs |-> Answer.revs]
  BY DEF Answer
<1>7. QED
  BY <1>4, <1>5, <1>6 DEF Fetched

LEMMA AnswerType == ASSUME TypeInv PROVE Answer \in Fetched
BY AnswerOf DEF TypeInv

LEMMA ReckonedType ==
    ASSUME NEW set, NEW copy
    PROVE  Reckoned(set, copy) \subseteq Pages
BY DEF Reckoned, Placed, Hydrated

(* A step of the author: the six edits are alike in what they do to the    *)
(* copy and its history.                                                   *)
Edited ==
    /\ Edits /\ ThrottledSnapshot
    /\ tab' \in Copy /\ tab'.seen = tab.seen
    /\ loaded' \subseteq Pages /\ dirtyPages' \subseteq Pages /\ forgotten' \subseteq Docs

EditingSteps ==
    \/ \E p \in Pages, body \in Bodies \cup {Empty} : EditPage(p, body)
    \/ \E p, q \in Pages, left \in {Empty}, arrived \in Bodies : MoveWidget(p, q, left, arrived)
    \/ \E shell \in Shells : EditIndex(shell)
    \/ \E p \in Pages, root \in Roots, body \in Bodies \cup {Empty} : AddPage(p, root, body)
    \/ \E p \in Pages : DeletePage(p)
    \/ \E p \in Pages, root \in Roots : MovePage(p, root)

LEMMA EditingIsEdited ==
    ASSUME TypeInv, EditingSteps
    PROVE  Edited
<1>1. /\ tab \in Copy /\ tab.place \in Rooted /\ tab.shell \in ShellsMade
      /\ tab.body \in [Pages -> Made] /\ tab.seen \in [Docs -> 0..turn]
      /\ loaded \subseteq Pages /\ dirtyPages \subseteq Pages /\ forgotten \subseteq Docs
  BY DEF TypeInv, Copy
<1>2. Bodies \cup {Empty} \subseteq Made /\ Pages \subseteq Docs
  BY DEF Made, Docs
<1>3. ASSUME NEW p \in Pages, NEW body \in Bodies \cup {Empty}, EditPage(p, body)
      PROVE  Edited
  <2>1. tab' \in Copy /\ tab'.seen = tab.seen
    BY <1>1, <1>2, <1>3 DEF EditPage, Copy
  <2>2. QED
    BY <1>1, <1>2, <1>3, <2>1 DEF EditPage, Edited
<1>4. ASSUME NEW p \in Pages, NEW q \in Pages, NEW arrived \in Bodies,
             MoveWidget(p, q, Empty, arrived)
      PROVE  Edited
  <2>1. tab' \in Copy /\ tab'.seen = tab.seen
    BY <1>1, <1>2, <1>4 DEF MoveWidget, Copy
  <2>2. QED
    BY <1>1, <1>2, <1>4, <2>1 DEF MoveWidget, Edited, ThrottledSnapshot
<1>5. ASSUME NEW shell \in Shells, EditIndex(shell) PROVE Edited
  <2>1. tab' \in Copy /\ tab'.seen = tab.seen
    BY <1>1, <1>5 DEF EditIndex, Copy, ShellsMade
  <2>2. QED
    BY <1>1, <1>5, <2>1 DEF EditIndex, Edited
<1>6. ASSUME NEW p \in Pages, NEW root \in Roots, NEW body \in Bodies \cup {Empty},
             AddPage(p, root, body)
      PROVE  Edited
  <2>1. tab' \in Copy /\ tab'.seen = tab.seen
    BY <1>1, <1>2, <1>6 DEF AddPage, Copy, Rooted
  <2>2. QED
    BY <1>1, <1>2, <1>6, <2>1 DEF AddPage, Edited, ThrottledSnapshot
<1>7. ASSUME NEW p \in Pages, DeletePage(p) PROVE Edited
  <2>1. tab' \in Copy /\ tab'.seen = tab.seen
    BY <1>1, <1>2, <1>7 DEF DeletePage, Copy, Rooted
  <2>2. QED
    BY <1>1, <1>7, <2>1 DEF DeletePage, Edited, ThrottledSnapshot
<1>8. ASSUME NEW p \in Pages, NEW root \in Roots, MovePage(p, root) PROVE Edited
  <2>1. tab' \in Copy /\ tab'.seen = tab.seen
    BY <1>1, <1>8 DEF MovePage, Copy, Rooted
  <2>2. QED
    BY <1>1, <1>8, <2>1 DEF MovePage, Edited, ThrottledSnapshot
<1>9. QED
  BY <1>3, <1>4, <1>5, <1>6, <1>7, <1>8 DEF EditingSteps

LEMMA SnapshotType ==
    ASSUME TypeInv, ThrottledSnapshot, UNCHANGED turn
    PROVE  /\ past' \in Seq(Copy) /\ future' \in Seq(Copy)
           /\ Len(past') + Len(future') <= MaxHistory
<1>1. /\ past \in Seq(Copy) /\ future \in Seq(Copy) /\ tab \in Copy
      /\ Len(past) + Len(future) <= MaxHistory /\ MaxHistory \in Nat \ {0, 1}
  BY BoundsAssumption DEF TypeInv
<1>2. CASE UNCHANGED history
  BY <1>1, <1>2 DEF history
<1>3. CASE PushSnapshot
  <2> DEFINE kept == IF Len(past) >= MaxHistory
                     THEN SubSeq(past, Len(past) - MaxHistory + 2, Len(past)) ELSE past
  <2>1. past' = Append(kept, tab) /\ future' = <<>>
    BY <1>3 DEF PushSnapshot
  <2>2. kept \in Seq(Copy) /\ Len(kept) <= MaxHistory - 1
    <3>1. CASE Len(past) >= MaxHistory
      <4>1. Len(past) = MaxHistory /\ kept = SubSeq(past, 2, Len(past))
        BY <1>1, <3>1
      <4>2. QED
        BY <1>1, <4>1
    <3>2. CASE ~(Len(past) >= MaxHistory)
      BY <1>1, <3>2
    <3>3. QED
      BY <3>1, <3>2
  <2>3. QED
    BY <1>1, <2>1, <2>2
<1>4. QED
  BY <1>2, <1>3 DEF ThrottledSnapshot

LEMMA TouchedType ==
    ASSUME TypeInv, Touched
    PROVE  /\ dirty' = TRUE
           /\ save' = NoSave \/ save' \in SaveRuns
           /\ sync' = NoFetch \/ sync' \in SyncRuns
<1>1. save = NoSave \/ save \in SaveRuns
  BY DEF TypeInv
<1>2. sync = NoFetch \/ sync \in SyncRuns
  BY DEF TypeInv
<1>3. save' = NoSave \/ save' \in SaveRuns
  BY <1>1 DEF Touched, SaveRuns, SaveFields, InTree, NoSave, Saving
<1>4. sync' = NoFetch \/ sync' \in SyncRuns
  BY <1>2 DEF Touched, SyncRuns, NoFetch
<1>5. QED
  BY <1>3, <1>4 DEF Touched

LEMMA EditedType == ASSUME TypeInv, Edited PROVE TypeInv'
<1>1. /\ UNCHANGED <<disk, revs, loose, news, banner, turn, upsets, missed, unguarded>>
      /\ Touched /\ ThrottledSnapshot
  BY DEF Edited, Edits, Changing
<1>2. QED
  BY <1>1, SetsSame, SnapshotType, TouchedType DEF TypeInv, Edited

LEMMA HistoryStepType == ASSUME TypeInv, Undo \/ Redo PROVE TypeInv'
<1>1. /\ UNCHANGED <<disk, revs, loose, news, banner, turn, upsets, missed, unguarded>>
      /\ Touched
  BY DEF Undo, Redo, Edits, Changing
<1>2. /\ past \in Seq(Copy) /\ future \in Seq(Copy) /\ tab \in Copy
      /\ Len(past) + Len(future) <= MaxHistory /\ forgotten \subseteq Docs
  BY DEF TypeInv
<1>3. ASSUME NEW copy \in Copy, Restore(copy)
      PROVE  /\ tab' \in Copy /\ loaded' \subseteq Pages /\ dirtyPages' \subseteq Pages
             /\ forgotten' \subseteq Docs
  <2>1. InFlight \subseteq Pages
    BY DEF InFlight, TypeInv, SaveRuns, SaveFields, NoSave
  <2>2. QED
    BY <1>2, <1>3, <2>1, ReckonedType DEF Restore, InTree, Docs
<1>4. CASE Undo
  <2>1. past # <<>> /\ past[Len(past)] \in Copy
    BY <1>2, <1>4 DEF Undo
  <2>2. /\ past' \in Seq(Copy) /\ future' \in Seq(Copy)
        /\ Len(past') + Len(future') <= MaxHistory
    <3>1. /\ past' = SubSeq(past, 1, Len(past) - 1) /\ future' = <<tab>> \o future
          /\ <<tab>> \in Seq(Copy) /\ Len(<<tab>>) = 1
      BY <1>2, <1>4 DEF Undo
    <3>2. past' \in Seq(Copy) /\ Len(past') = Len(past) - 1
      BY <1>2, <2>1, <3>1
    <3>3. future' \in Seq(Copy) /\ Len(future') = Len(future) + 1
      BY <1>2, <3>1
    <3>4. QED
      BY <1>2, <3>2, <3>3, BoundsAssumption
  <2>3. Restore(past[Len(past)])
    BY <1>4 DEF Undo
  <2>4. QED
    BY <1>1, <1>3, <2>1, <2>2, <2>3, SetsSame, TouchedType DEF TypeInv
<1>5. CASE Redo
  <2>1. future # <<>> /\ Head(future) \in Copy
    BY <1>2, <1>5 DEF Redo
  <2>2. /\ past' \in Seq(Copy) /\ future' \in Seq(Copy)
        /\ Len(past') + Len(future') <= MaxHistory
    BY <1>2, <1>5, <2>1, BoundsAssumption DEF Redo
  <2>3. Restore(Head(future))
    BY <1>5 DEF Redo
  <2>4. QED
    BY <1>1, <1>3, <2>1, <2>2, <2>3, SetsSame, TouchedType DEF TypeInv
<1>6. QED
  BY <1>4, <1>5

LEMMA AuthorType == ASSUME TypeInv, Author PROVE TypeInv'
<1>1. CASE EditingSteps
  BY <1>1, EditingIsEdited, EditedType
<1>2. CASE Undo \/ Redo
  BY <1>2, HistoryStepType
<1>3. CASE PageReload
  <2>1. UNCHANGED <<disk, turn>> /\ Answer \in Fetched
    BY <1>3, AnswerType DEF PageReload, counts
  <2>2. Answer.copy \in Copy /\ Answer.revs \in Revs
    BY <2>1 DEF Fetched
  <2>3. loaded' \subseteq Pages
    BY <1>3 DEF PageReload, InTree
  <2>4. /\ past' \in Seq(Copy) /\ future' \in Seq(Copy)
        /\ Len(past') + Len(future') <= MaxHistory
    BY <1>3, BoundsAssumption DEF PageReload, ClearHistory
  <2>5. /\ tab' \in Copy /\ revs' \in Revs /\ dirtyPages' = {}
        /\ dirty' \in BOOLEAN /\ banner' \in BOOLEAN
        /\ save' = NoSave /\ sync' = NoFetch /\ loose' = NoFetch
        /\ news' = 0 /\ forgotten' = {} /\ unguarded' = {}
    BY <1>3, <2>2 DEF PageReload
  <2>6. QED
    BY <2>1, <2>3, <2>4, <2>5, SetsSame DEF TypeInv
<1>4. CASE KeepUnsaved
  BY <1>4, SetsSame DEF KeepUnsaved, TypeInv, books, history, counts
<1>5. QED
  BY <1>1, <1>2, <1>3, <1>4 DEF Author, EditingSteps

-----------------------------------------------------------------------------
(* A save.                                                                 *)

LEMMA RunFields ==
    ASSUME TypeInv, Saving
    PROVE  /\ save \in SaveRuns /\ save \in SaveFields
           /\ save.phase \in {"index", "pages", "rest"}
           /\ save.copy \in Copy /\ save.revs \in Revs
           /\ save.want \subseteq Pages /\ save.loaded \subseteq Pages
           /\ save.left \subseteq Pages /\ save.left \subseteq InTree(save.copy)
           /\ save.done \subseteq Pages /\ save.refused \subseteq Pages
BY DEF TypeInv, Saving, NoSave, SaveRuns, SaveFields

(* What a request to the server leaves alone.                              *)
LEMMA RequestType ==
    ASSUME TypeInv, SaveKeeps, UNCHANGED loaded, UNCHANGED forgotten,
           disk' \in Server, revs' \in Revs, dirtyPages' \subseteq Pages,
           save' = NoSave \/ save' \in SaveRuns, unguarded' \subseteq Docs
    PROVE  TypeInv'
<1>1. /\ UNCHANGED <<tab, dirty, past, future, sync, loose, news, banner, turn>>
  BY DEF SaveKeeps, history
<1>2. QED
  BY <1>1, SetsSame DEF TypeInv

LEMMA SaveType == ASSUME TypeInv, Save PROVE TypeInv'
<1>1. /\ tab \in Copy /\ revs \in Revs /\ dirtyPages \subseteq Pages
  BY DEF TypeInv
<1>2. save' \in SaveRuns
  BY <1>1 DEF Save, SaveRuns, SaveFields, InTree
<1>3. UNCHANGED <<disk, tab, loaded, dirtyPages, revs, dirty, past, future, sync, loose, news,
                  banner, turn, forgotten, unguarded>>
  BY DEF Save, books, history, counts, ghosts
<1>4. QED
  BY <1>2, <1>3, SetsSame DEF TypeInv

LEMMA RewrittenType ==
    ASSUME TypeInv, NEW copy \in Copy
    PROVE  Rewritten(copy) \in Server
BY DEF TypeInv, Server, Copy, Rewritten, Roots, OtherRoot

LEMMA PutIndexType ==
    ASSUME TypeInv, NEW out, PutIndex(out)
    PROVE  TypeInv'
<1>1. Saving /\ save.phase = "index"
  BY DEF PutIndex, Saving
<1>2. save \in SaveFields /\ save.copy \in Copy /\ save.want \subseteq Pages
  BY <1>1, RunFields
<1>3. disk' \in Server
  BY <1>2, RewrittenType DEF PutIndex, TypeInv
<1>4. IndexOf(save.copy) \in Indexes
  BY <1>2 DEF Copy, IndexOf, Indexes
<1>5. revs' \in Revs
  BY <1>4 DEF PutIndex, TypeInv, Revs
<1>6. save' = NoSave \/ save' \in SaveRuns
  <2>1. CASE out = "ok"
    <3>1. save' = [save EXCEPT !.phase = "pages", !.loaded = loaded,
                               !.left = save.want \cap InTree(save.copy)]
      BY <2>1 DEF PutIndex
    <3>2. QED
      BY <1>2, <3>1 DEF SaveRuns, SaveFields, TypeInv
  <2>2. CASE out # "ok"
    BY <2>2 DEF PutIndex
  <2>3. QED
    BY <2>1, <2>2
<1>7. QED
  BY <1>3, <1>5, <1>6, RequestType DEF PutIndex, TypeInv

LEMMA PageSentType ==
    ASSUME TypeInv, Saving, NEW p \in save.left
    PROVE  /\ p \in Pages /\ save.copy.place[p] \in Roots
           /\ PageSent(p) \in Made
<1>1. p \in Pages /\ save.copy \in Copy /\ p \in InTree(save.copy)
  BY RunFields
<1>2. save.copy.place[p] \in Roots /\ save.copy.body[p] \in Made
  BY <1>1 DEF Copy, Rooted, InTree
<1>3. disk.doc[save.copy.place[p]][p] \in Made \cup {Missing}
  BY <1>1, <1>2 DEF TypeInv, Server
<1>4. QED
  BY <1>1, <1>2, <1>3 DEF PageSent, Made

LEMMA PutPageType ==
    ASSUME TypeInv, NEW p \in Pages, NEW out, PutPage(p, out)
    PROVE  TypeInv'
<1>1. Saving /\ save.phase = "pages" /\ p \in save.left
  BY DEF PutPage, Saving
<1>2. PageSent(p) \in Made /\ save.copy.place[p] \in Roots
  BY <1>1, PageSentType
<1>3. save \in SaveRuns /\ save \in SaveFields
  BY <1>1, RunFields
<1>4. disk' \in Server
  BY <1>2 DEF PutPage, TypeInv, Server
<1>5. revs' \in Revs
  BY <1>2 DEF PutPage, TypeInv, Revs
<1>6. save' \in SaveRuns
  <2>1. CASE out = "ok"
    <3>1. save' = [save EXCEPT !.left = save.left \ {p}, !.done = save.done \cup {p}]
      BY <2>1 DEF PutPage
    <3>2. QED
      BY <1>3, <3>1 DEF SaveRuns, SaveFields, InTree
  <2>2. CASE out # "ok"
    <3>1. save' = [save EXCEPT !.left = save.left \ {p}, !.bad = TRUE]
      BY <2>2 DEF PutPage
    <3>2. QED
      BY <1>3, <3>1 DEF SaveRuns, SaveFields, InTree
  <2>3. QED
    BY <2>1, <2>2
<1>7. unguarded' \subseteq Docs
  BY DEF PutPage, TypeInv, Docs
<1>8. QED
  BY <1>4, <1>5, <1>6, <1>7, RequestType DEF PutPage, TypeInv

LEMMA OtherSavesType ==
    ASSUME TypeInv, \/ PutIndexRefused \/ PagesDone
                    \/ \E p \in Pages : PutPageRefused(p)
                    \/ \E works \in BOOLEAN : RestDone(works)
    PROVE  TypeInv'
<1>1. Saving
  BY DEF PutIndexRefused, PagesDone, PutPageRefused, RestDone, Saving
<1>2. save \in SaveRuns /\ save \in SaveFields
  BY <1>1, RunFields
<1>3. CASE PutIndexRefused
  BY <1>3, RequestType DEF PutIndexRefused, books, TypeInv
<1>4. ASSUME NEW p \in Pages, PutPageRefused(p) PROVE TypeInv'
  <2>1. save' \in SaveRuns
    BY <1>2, <1>4 DEF PutPageRefused, SaveRuns, SaveFields, InTree
  <2>2. QED
    BY <1>4, <2>1, RequestType DEF PutPageRefused, books, TypeInv
<1>5. CASE PagesDone
  <2>1. save' = NoSave \/ save' \in SaveRuns
    BY <1>2, <1>5 DEF PagesDone, SaveRuns, SaveFields, InTree
  <2>2. QED
    BY <1>5, <2>1, RequestType DEF PagesDone, TypeInv
<1>6. ASSUME NEW works \in BOOLEAN, RestDone(works) PROVE TypeInv'
  <2>1. save.stale \in BOOLEAN /\ dirty \in BOOLEAN
    BY <1>2 DEF SaveFields, TypeInv
  <2>2. dirty' \in BOOLEAN
    BY <1>6, <2>1 DEF RestDone
  <2>3. /\ UNCHANGED <<disk, tab, loaded, dirtyPages, revs, past, future, sync, loose, news,
                       banner, turn, forgotten, unguarded>>
        /\ save' = NoSave
    BY <1>6 DEF RestDone, books, history, ghosts
  <2>4. QED
    BY <2>2, <2>3, SetsSame DEF TypeInv
<1>7. QED
  BY <1>3, <1>4, <1>5, <1>6

-----------------------------------------------------------------------------
(* Other writers.                                                          *)

LEMMA OthersType == ASSUME TypeInv, Others PROVE TypeInv'
<1>1. CASE LoseEvent
  <2>1. news' \in 0..turn
    BY <1>1 DEF LoseEvent, TypeInv
  <2>2. QED
    BY <1>1, <2>1, SetsSame DEF LoseEvent, TypeInv, books, history
<1>2. ASSUME OtherChanges, disk' \in Server', unguarded' \subseteq Docs PROVE TypeInv'
  <2>1. turn \in Nat /\ turn' = turn + 1 /\ turn' \in 0..MaxOther /\ news' \in 0..turn'
    BY <1>2, BoundsAssumption DEF OtherChanges, TypeInv
  <2>2. UNCHANGED <<tab, loaded, dirtyPages, revs, dirty, past, future, save, sync, loose,
                    banner, forgotten>>
    BY <1>2 DEF OtherChanges, books, history
  <2>3. QED
    BY <1>2, <2>1, <2>2, SetsGrow DEF TypeInv
<1>3. ASSUME NEW p \in Pages, OtherWritesPage(p) PROVE TypeInv'
  <2>1. turn \in Nat /\ turn' = turn + 1 /\ OtherChanges /\ unguarded' = unguarded
    BY <1>3 DEF OtherWritesPage, OtherChanges, TypeInv
  <2>2. disk \in Server' /\ turn' \in Made'
    BY <2>1, SetsGrow DEF TypeInv, Made
  <2>3. Stamped({p}) \in [Docs -> 0..turn']
    BY <2>1 DEF Stamped, TypeInv, Server
  <2>4. disk' \in Server'
    BY <1>3, <2>1, <2>2, <2>3 DEF OtherWritesPage, Server
  <2>5. QED
    BY <1>2, <2>1, <2>4 DEF TypeInv
<1>4. ASSUME OtherWritesIndex PROVE TypeInv'
  <2>1. turn \in Nat /\ turn' = turn + 1 /\ OtherChanges /\ unguarded' = unguarded
    BY <1>4 DEF OtherWritesIndex, OtherChanges, TypeInv
  <2>2. disk \in Server' /\ turn' \in ShellsMade'
    BY <2>1, SetsGrow DEF TypeInv, ShellsMade
  <2>3. Stamped({Index}) \in [Docs -> 0..turn']
    BY <2>1 DEF Stamped, TypeInv, Server
  <2>4. disk' \in Server'
    BY <1>4, <2>1, <2>2, <2>3 DEF OtherWritesIndex, Server
  <2>5. QED
    BY <1>2, <2>1, <2>4 DEF TypeInv
<1>5. ASSUME NEW p \in Pages, OtherDeletesPage(p) PROVE TypeInv'
  <2>1. /\ turn \in Nat /\ turn' = turn + 1 /\ OtherChanges
        /\ unguarded' \subseteq Docs
    BY <1>5 DEF OtherDeletesPage, OtherChanges, TypeInv, Docs
  <2>2. disk \in Server'
    BY <2>1, SetsGrow DEF TypeInv
  <2>3. Stamped({p, Index}) \in [Docs -> 0..turn']
    BY <2>1 DEF Stamped, TypeInv, Server
  <2>4. disk' \in Server'
    BY <1>5, <2>2, <2>3 DEF OtherDeletesPage, Server, Rooted
  <2>5. QED
    BY <1>2, <2>1, <2>4 DEF TypeInv
<1>6. QED
  BY <1>1, <1>3, <1>4, <1>5 DEF Others

-----------------------------------------------------------------------------
(* What the tab hears and fetches.                                         *)

LEMMA AskedType ==
    ASSUME TypeInv, NEW applied \in BOOLEAN
    PROVE  Asked(applied) \in SyncRuns
BY AnswerType DEF Asked, SyncRuns

LEMMA PassOverType ==
    ASSUME TypeInv, NEW applied \in BOOLEAN, sync \in SyncRuns, PassOver(applied)
    PROVE  (sync' = NoFetch \/ sync' \in SyncRuns) /\ banner' \in BOOLEAN
<1>1. sync.again \in BOOLEAN /\ banner \in BOOLEAN /\ dirty \in BOOLEAN
  BY DEF SyncRuns, TypeInv
<1>2. Asked(applied) \in SyncRuns
  BY AskedType
<1>3. QED
  BY <1>1, <1>2 DEF PassOver

LEMMA LoadType ==
    ASSUME TypeInv, NEW answer \in Fetched, Load(answer)
    PROVE  /\ tab' \in Copy /\ loaded' \subseteq Pages /\ dirtyPages' \subseteq Pages
           /\ revs' \in Revs
BY ReckonedType DEF Load, Fetched

LEMMA FetchesType == ASSUME TypeInv, Fetches PROVE TypeInv'
<1>1. CASE Hear
  <2>1. news' \in 0..turn
    BY <1>1 DEF Hear, TypeInv
  <2>2. sync' = NoFetch \/ sync' \in SyncRuns
    <3>1. Asked(TRUE) \in SyncRuns
      BY AskedType
    <3>2. sync = NoFetch \/ sync \in SyncRuns
      BY DEF TypeInv
    <3>3. CASE dirty
      BY <1>1, <3>2, <3>3 DEF Hear
    <3>4. CASE ~dirty /\ sync.phase = "asked"
      <4>1. sync \in SyncRuns /\ sync' = [sync EXCEPT !.again = TRUE]
        BY <1>1, <3>2, <3>4 DEF Hear, NoFetch
      <4>2. QED
        BY <4>1 DEF SyncRuns
    <3>5. CASE ~dirty /\ sync.phase # "asked"
      BY <1>1, <3>1, <3>5 DEF Hear
    <3>6. QED
      BY <3>3, <3>4, <3>5
  <2>3. banner' \in BOOLEAN
    BY <1>1 DEF Hear, TypeInv
  <2>4. UNCHANGED <<disk, tab, loaded, dirtyPages, revs, dirty, past, future, save, loose,
                    turn, forgotten, unguarded>>
    BY <1>1 DEF Hear, books, history, counts, ghosts
  <2>5. QED
    BY <2>1, <2>2, <2>3, <2>4, SetsSame DEF TypeInv
<1>2. CASE SyncAnswers
  <2>1. sync \in SyncRuns /\ sync.answer \in Fetched
    BY <1>2 DEF SyncAnswers, TypeInv, NoFetch, SyncRuns
  <2>2. PassOver(sync.applied /\ ~sync.stale)
    BY <1>2 DEF SyncAnswers
  <2>3. (sync' = NoFetch \/ sync' \in SyncRuns) /\ banner' \in BOOLEAN
    BY <2>1, <2>2, PassOverType
  <2>4. /\ tab' \in Copy /\ loaded' \subseteq Pages /\ dirtyPages' \subseteq Pages
        /\ revs' \in Revs
    BY <1>2, <2>1, LoadType DEF SyncAnswers, TypeInv, books
  <2>5. /\ past' \in Seq(Copy) /\ future' \in Seq(Copy)
        /\ Len(past') + Len(future') <= MaxHistory
    <3>1. UNCHANGED history \/ ClearHistory
      BY <1>2 DEF SyncAnswers
    <3>2. /\ past \in Seq(Copy) /\ future \in Seq(Copy)
          /\ Len(past) + Len(future) <= MaxHistory
      BY DEF TypeInv
    <3>3. CASE UNCHANGED history
      BY <3>2, <3>3 DEF history
    <3>4. CASE ClearHistory
      BY <3>4, BoundsAssumption DEF ClearHistory
    <3>5. QED
      BY <3>1, <3>3, <3>4
  <2>6. forgotten' \subseteq Docs /\ unguarded' \subseteq Docs
    BY <1>2 DEF SyncAnswers, TypeInv
  <2>7. UNCHANGED <<disk, dirty, save, loose, news, turn>>
    BY <1>2 DEF SyncAnswers, counts
  <2>8. QED
    BY <2>3, <2>4, <2>5, <2>6, <2>7, SetsSame DEF TypeInv
<1>3. CASE SyncFails
  <2>1. sync \in SyncRuns
    BY <1>3 DEF SyncFails, TypeInv, NoFetch
  <2>. PassOver(FALSE)
    BY <1>3 DEF SyncFails
  <2>2. (sync' = NoFetch \/ sync' \in SyncRuns) /\ banner' \in BOOLEAN
    BY <2>1, PassOverType
  <2>3. UNCHANGED <<disk, tab, loaded, dirtyPages, revs, dirty, past, future, save, loose,
                    news, turn, forgotten, unguarded>>
    BY <1>3 DEF SyncFails, books, history, ghosts
  <2>4. QED
    BY <2>2, <2>3, SetsSame DEF TypeInv
<1>4. ASSUME NEW what \in IndexFetches \cup PageFetches, Fetch(what) PROVE TypeInv'
  <2>1. UNCHANGED <<disk, tab, loaded, dirtyPages, revs, dirty, past, future, save, sync,
                    news, banner, turn, forgotten, unguarded>> /\ loose' = what
    BY <1>4 DEF Fetch, books, history, ghosts
  <2>2. QED
    BY <1>4, <2>1, SetsSame DEF TypeInv
<1>5. CASE Mount
  BY <1>4, <1>5, AnswerType DEF Mount, IndexFetches
<1>6. ASSUME NEW p \in Pages, AskPage(p) PROVE TypeInv'
  <2> DEFINE doc == disk.doc[tab.place[p]][p]
  <2>1. /\ doc \in Made \cup {Missing} /\ Empty \in Made
        /\ tab.seen[p] \in 0..turn /\ disk.stamp[p] \in 0..turn
    BY <1>6 DEF AskPage, TypeInv, Server, Copy, Rooted, Docs, Made
  <2>2. CASE doc = Missing
    <3>1. [phase |-> "page", page |-> p, seen |-> tab.seen[p], body |-> Empty] \in PageFetches
      BY <2>1 DEF PageFetches
    <3>2. QED
      BY <1>4, <1>6, <2>2, <3>1 DEF AskPage
  <2>3. CASE doc # Missing
    <3>1. [phase |-> "page", page |-> p, seen |-> disk.stamp[p], body |-> doc] \in PageFetches
      BY <2>1, <2>3 DEF PageFetches
    <3>2. QED
      BY <1>4, <1>6, <2>3, <3>1 DEF AskPage
  <2>4. QED
    BY <2>2, <2>3
<1>7. CASE MountAnswers
  <2>1. loose \in IndexFetches /\ loose.answer \in Fetched
    BY <1>7 DEF MountAnswers, TypeInv, NoFetch, IndexFetches, PageFetches
  <2>2. /\ tab' \in Copy /\ loaded' \subseteq Pages /\ dirtyPages' \subseteq Pages
        /\ revs' \in Revs
    BY <1>7, <2>1, LoadType DEF MountAnswers
  <2>3. forgotten' \subseteq Docs /\ unguarded' \subseteq Docs /\ loose' = NoFetch
    BY <1>7 DEF MountAnswers, TypeInv
  <2>4. UNCHANGED <<disk, dirty, past, future, save, sync, news, banner, turn>>
    BY <1>7 DEF MountAnswers, history, counts
  <2>5. QED
    BY <2>2, <2>3, <2>4, SetsSame DEF TypeInv
<1>8. CASE PageAnswers
  <2>1. loose \in PageFetches /\ loose.page \in Pages /\ loose.seen \in 0..turn
        /\ loose.body \in Made
    BY <1>8 DEF PageAnswers, TypeInv, NoFetch, IndexFetches, PageFetches
  <2>2. tab' \in Copy
    BY <1>8, <2>1 DEF PageAnswers, TypeInv, Copy, Docs
  <2>3. /\ loaded' \subseteq Pages /\ forgotten' \subseteq Docs /\ unguarded' \subseteq Docs
        /\ loose' = NoFetch
    BY <1>8, <2>1 DEF PageAnswers, TypeInv, Docs
  <2>4. UNCHANGED <<disk, dirtyPages, revs, dirty, past, future, save, sync, news, banner, turn>>
    BY <1>8 DEF PageAnswers, history, counts
  <2>5. QED
    BY <2>2, <2>3, <2>4, SetsSame DEF TypeInv
<1>9. QED
  BY <1>1, <1>2, <1>3, <1>5, <1>6, <1>7, <1>8 DEF Fetches

LEMMA InitType == ASSUME Init PROVE TypeInv
<1>1. PICK body \in [Pages -> {Empty} \cup Bodies], shell \in Shells :
        disk = [place |-> [p \in Pages |-> "pages"], shell |-> shell,
                doc |-> [r \in Roots |-> [p \in Pages |->
                            IF r = "pages" THEN body[p] ELSE Missing]],
                stamp |-> [d \in Docs |-> 0]]
  BY DEF Init
<1>2. turn = 0 /\ news = 0 /\ tab = Answer.copy /\ revs = Answer.revs
  BY DEF Init
<1>3. disk \in Server
  BY <1>1, <1>2 DEF Server, Rooted, Roots, Made, ShellsMade
<1>4. \A p \in Pages : Served(disk, p) \in Made
  BY <1>1, ConstantsAssumption DEF Served, Made, Roots
<1>5. tab \in Copy
  BY <1>2, <1>3, AnswerOf DEF Fetched
<1>6. revs \in Revs
  BY <1>2, <1>3, AnswerOf DEF Fetched
<1>7. /\ loaded \subseteq Pages /\ dirtyPages = {}
      /\ past = <<>> /\ future = <<>> /\ save = NoSave /\ sync = NoFetch /\ loose = NoFetch
      /\ forgotten = {} /\ unguarded = {}
  BY DEF Init
<1>8. dirty \in BOOLEAN /\ banner \in BOOLEAN
  BY DEF Init
<1>9. /\ past \in Seq(Copy) /\ future \in Seq(Copy) /\ Len(past) + Len(future) <= MaxHistory
      /\ turn \in 0..MaxOther /\ news \in 0..turn
  BY <1>2, <1>7, BoundsAssumption
<1>10. QED
  BY <1>3, <1>5, <1>6, <1>7, <1>8, <1>9 DEF TypeInv

LEMMA TypeStep == ASSUME TypeInv, [Next]_vars PROVE TypeInv'
<1>1. CASE Author
  BY <1>1, AuthorType
<1>2. CASE Saves
  BY <1>2, SaveType, PutIndexType, PutPageType, OtherSavesType DEF Saves
<1>3. CASE Others
  BY <1>3, OthersType
<1>4. CASE Fetches
  BY <1>4, FetchesType
<1>5. CASE UNCHANGED vars
  BY <1>5, SetsSame DEF vars, books, history, counts, ghosts, TypeInv
<1>6. QED
  BY <1>1, <1>2, <1>3, <1>4, <1>5 DEF Next

(* Every variable has its type; the history is never longer than           *)
(* MAX_HISTORY, undone and redone steps together (configStore.ts).         *)
THEOREM EditorTypeCorrect == Spec => []TypeOK
<1>1. Init => TypeInv
  BY InitType
<1>2. TypeInv /\ [Next]_vars => TypeInv'
  BY TypeStep
<1>3. TypeInv => TypeOK
  <2>1. SUFFICES ASSUME TypeInv PROVE TypeOK
    OBVIOUS
  <2>2. turn \in 0..MaxOther /\ news \in 0..MaxOther /\ 0..turn \subseteq 0..MaxOther
    BY <2>1, BoundsAssumption DEF TypeInv
  <2>3. Made \subseteq Contents /\ ShellsMade \subseteq Shells \cup Changes
    BY <2>2, BoundsAssumption DEF Made, ShellsMade, Contents, Changes
  <2>4. Copy \subseteq Copies
    BY <2>2, <2>3 DEF Copy, Copies
  <2>5. Revs \subseteq Revisions
    BY <2>3 DEF Revs, Revisions, Indexes
  <2>6. disk \in [place : Rooted, shell : Shells \cup Changes,
                  doc : [Roots -> [Pages -> Contents \cup {Missing}]],
                  stamp : [Docs -> 0..MaxOther]]
    BY <2>1, <2>2, <2>3 DEF TypeInv, Server
  <2>7. save.phase \in {"idle", "index", "pages", "rest"}
    BY <2>1 DEF TypeInv, NoSave, SaveRuns, SaveFields
  <2>8. sync.phase \in {"idle", "asked"} /\ loose.phase \in {"idle", "index", "page"}
    BY <2>1 DEF TypeInv, NoFetch, SyncRuns, IndexFetches, PageFetches
  <2>9. /\ Len(past) <= MaxHistory
        /\ \A i \in 1..Len(past) : past[i] \in Copies
        /\ \A i \in 1..Len(future) : future[i] \in Copies
    BY <2>1, <2>4, BoundsAssumption DEF TypeInv
  <2>10. QED
    BY <2>1, <2>2, <2>4, <2>5, <2>6, <2>7, <2>8, <2>9 DEF TypeInv, TypeOK
<1>4. QED
  BY <1>1, <1>2, <1>3, PTL DEF Spec

-----------------------------------------------------------------------------
(* What the flags say together: a save is of unsaved changes, and a reload *)
(* that runs beside unsaved changes knows that it is too late.             *)

FlagsInv ==
    /\ Saving => dirty
    /\ sync.phase = "asked" /\ dirty => sync.stale

TypedFlags == TypeInv /\ FlagsInv

LEMMA FlagsOfTouched == ASSUME TypeInv, Touched PROVE FlagsInv'
<1>1. dirty' = TRUE
  BY DEF Touched
<1>2. CASE sync.phase = "asked"
  <2>1. sync \in SyncRuns /\ sync' = [sync EXCEPT !.stale = TRUE]
    BY <1>2 DEF Touched, TypeInv, NoFetch
  <2>2. sync'.stale = TRUE
    BY <2>1 DEF SyncRuns
  <2>3. QED
    BY <1>1, <2>2 DEF FlagsInv
<1>3. CASE sync.phase # "asked"
  <2>1. sync' = sync
    BY <1>3 DEF Touched
  <2>2. QED
    BY <1>1, <1>3, <2>1 DEF FlagsInv
<1>4. QED
  BY <1>2, <1>3

LEMMA FlagsOfPassOver ==
    ASSUME FlagsInv, NEW applied, PassOver(applied), UNCHANGED dirty, UNCHANGED save
    PROVE  FlagsInv'
<1>1. CASE sync.again /\ ~dirty
  BY <1>1 DEF PassOver, FlagsInv, Saving
<1>2. CASE ~(sync.again /\ ~dirty)
  BY <1>2 DEF PassOver, FlagsInv, Saving, NoFetch
<1>3. QED
  BY <1>1, <1>2

LEMMA FlagsStep == ASSUME TypedFlags, [Next]_vars PROVE FlagsInv'
<1>1. TypeInv /\ FlagsInv
  BY DEF TypedFlags
<1>2. ASSUME UNCHANGED sync, UNCHANGED dirty, save' = NoSave \/ Saving \/ dirty
      PROVE  FlagsInv'
  BY <1>1, <1>2 DEF FlagsInv, Saving, NoSave
<1>3. CASE Author
  <2>1. CASE EditingSteps
    BY <1>1, <2>1, EditingIsEdited, FlagsOfTouched DEF Edited, Edits, Changing
  <2>2. CASE Undo \/ Redo
    BY <1>1, <2>2, FlagsOfTouched DEF Undo, Redo, Edits, Changing
  <2>3. CASE PageReload
    BY <2>3 DEF PageReload, FlagsInv, Saving, NoSave, NoFetch
  <2>4. CASE KeepUnsaved
    BY <1>1, <2>4 DEF KeepUnsaved, FlagsInv, Saving
  <2>5. QED
    BY <1>3, <2>1, <2>2, <2>3, <2>4 DEF Author, EditingSteps
<1>4. CASE Saves
  <2>1. CASE Save
    BY <1>2, <2>1 DEF Save
  <2>2. ASSUME NEW out, PutIndex(out) PROVE FlagsInv'
    BY <1>2, <2>2 DEF PutIndex, SaveKeeps, Saving
  <2>3. ASSUME NEW p \in Pages, NEW out, PutPage(p, out) PROVE FlagsInv'
    BY <1>2, <2>3 DEF PutPage, SaveKeeps, Saving
  <2>4. ASSUME NEW p \in Pages, PutPageRefused(p) PROVE FlagsInv'
    BY <1>2, <2>4 DEF PutPageRefused, SaveKeeps, Saving
  <2>5. CASE PutIndexRefused
    BY <1>2, <2>5 DEF PutIndexRefused, SaveKeeps
  <2>6. CASE PagesDone
    BY <1>2, <2>6 DEF PagesDone, SaveKeeps, Saving
  <2>7. ASSUME NEW works \in BOOLEAN, RestDone(works) PROVE FlagsInv'
    <3>1. Saving /\ dirty
      BY <1>1, <2>7 DEF RestDone, Saving, FlagsInv
    <3>2. sync' = sync /\ save' = NoSave
      BY <2>7 DEF RestDone
    <3>3. QED
      BY <1>1, <3>1, <3>2 DEF FlagsInv, Saving, NoSave
  <2>8. QED
    BY <1>4, <2>1, <2>2, <2>3, <2>4, <2>5, <2>6, <2>7 DEF Saves
<1>5. CASE Others
  <2>1. UNCHANGED <<dirty, save, sync>>
    BY <1>5 DEF Others, LoseEvent, OtherWritesPage, OtherWritesIndex, OtherDeletesPage,
                OtherChanges
  <2>2. QED
    BY <1>1, <2>1 DEF FlagsInv, Saving
<1>6. CASE Fetches
  <2>1. UNCHANGED dirty /\ UNCHANGED save
    BY <1>6 DEF Fetches, Hear, SyncAnswers, SyncFails, Mount, AskPage, MountAnswers,
                PageAnswers, Fetch
  <2>2. CASE Hear
    <3>1. CASE dirty
      BY <1>1, <2>1, <2>2, <3>1 DEF Hear, FlagsInv, Saving
    <3>2. CASE ~dirty
      BY <1>1, <2>1, <3>2 DEF FlagsInv, Saving
    <3>3. QED
      BY <3>1, <3>2
  <2>3. CASE SyncAnswers
    BY <1>1, <2>1, <2>3, FlagsOfPassOver DEF SyncAnswers
  <2>4. CASE SyncFails
    BY <1>1, <2>1, <2>4, FlagsOfPassOver DEF SyncFails
  <2>5. CASE UNCHANGED sync
    BY <1>1, <2>1, <2>5 DEF FlagsInv, Saving
  <2>6. QED
    BY <1>6, <2>2, <2>3, <2>4, <2>5 DEF Fetches, Mount, AskPage, MountAnswers, PageAnswers,
                                        Fetch
<1>7. CASE UNCHANGED vars
  BY <1>1, <1>7 DEF vars, FlagsInv, Saving
<1>8. QED
  BY <1>3, <1>4, <1>5, <1>6, <1>7 DEF Next

LEMMA FlagsAlways == Spec => []TypedFlags
<1>1. Init => TypedFlags
  <2>1. ASSUME Init PROVE FlagsInv
    BY <2>1 DEF Init, FlagsInv, Saving, NoSave, NoFetch
  <2>2. QED
    BY <2>1, InitType DEF TypedFlags
<1>2. TypedFlags /\ [Next]_vars => TypedFlags'
  BY TypeStep, FlagsStep DEF TypedFlags
<1>3. QED
  BY <1>1, <1>2, PTL DEF Spec

(* A live reload takes nothing of the author's away: an edit makes the     *)
(* pass that runs stale, and no pass is asked for while something is       *)
(* unsaved (editorLiveSync.ts).                                            *)
THEOREM EditsSurviveReloads == Spec => ReloadKeepsEdits
<1>1. ASSUME TypedFlags, SyncAnswers, dirty PROVE UNCHANGED tab
  BY <1>1 DEF TypedFlags, FlagsInv, SyncAnswers
<1>2. TypedFlags /\ [Next]_vars => [SyncAnswers /\ dirty => UNCHANGED tab]_vars
  BY <1>1
<1>3. QED
  BY <1>2, FlagsAlways, PTL DEF Spec, ReloadKeepsEdits

-----------------------------------------------------------------------------
(* The undo history and the tab reflect the same changes of other writers, *)
(* except of the documents of which unguarded says otherwise: what a live  *)
(* reload brings in ends the history, and nothing else is silent.          *)

SeenIn(copy) == \A d \in Docs \ unguarded : copy.seen[d] = tab.seen[d]

SeenInv ==
    /\ \A i \in 1..Len(past) : SeenIn(past[i])
    /\ \A i \in 1..Len(future) : SeenIn(future[i])

TypedSeen == TypedFlags /\ SeenInv

(* What any step does that takes no new copy into the history and only     *)
(* adds to unguarded what it brings in.                                    *)
LEMMA SeenKept ==
    ASSUME SeenInv, UNCHANGED history, unguarded \subseteq unguarded',
           \A d \in Docs \ unguarded' : tab'.seen[d] = tab.seen[d]
    PROVE  SeenInv'
BY DEF SeenInv, SeenIn, history, Docs

LEMMA SeenAfterEdit ==
    ASSUME TypeInv, SeenInv, ThrottledSnapshot, UNCHANGED unguarded, tab'.seen = tab.seen
    PROVE  SeenInv'
<1>1. CASE UNCHANGED history
  BY <1>1, SeenKept
<1>2. CASE PushSnapshot
  <2> DEFINE kept == IF Len(past) >= MaxHistory
                     THEN SubSeq(past, Len(past) - MaxHistory + 2, Len(past)) ELSE past
  <2>1. past' = Append(kept, tab) /\ future' = <<>>
    BY <1>2 DEF PushSnapshot
  <2>2. /\ past \in Seq(Copy) /\ MaxHistory \in Nat \ {0, 1}
        /\ Len(past) + Len(future) <= MaxHistory /\ Len(future) \in Nat
    BY BoundsAssumption DEF TypeInv
  <2>3. /\ kept \in Seq(Copy)
        /\ \A i \in 1..Len(kept) : \E j \in 1..Len(past) : kept[i] = past[j]
    <3>1. CASE Len(past) >= MaxHistory
      <4>1. Len(past) = MaxHistory /\ kept = SubSeq(past, 2, Len(past))
        BY <2>2, <3>1
      <4>2. /\ kept \in Seq(Copy) /\ Len(kept) = Len(past) - 1
            /\ \A i \in 1..Len(kept) : kept[i] = past[i + 1]
        BY <2>2, <4>1
      <4>3. \A i \in 1..Len(kept) : i + 1 \in 1..Len(past)
        BY <2>2, <4>2
      <4>4. QED
        BY <4>2, <4>3
    <3>2. CASE ~(Len(past) >= MaxHistory)
      BY <2>2, <3>2
    <3>3. QED
      BY <3>1, <3>2
  <2> HIDE DEF kept
  <2>4. /\ Len(past') = Len(kept) + 1 /\ Len(kept) \in Nat
        /\ \A i \in 1..Len(kept) : past'[i] = kept[i]
        /\ past'[Len(kept) + 1] = tab
    BY <2>1, <2>3
  <2>5. ASSUME NEW i \in 1..Len(past') PROVE SeenIn(past[i])'
    <3>1. CASE i \in 1..Len(kept)
      <4>1. PICK j \in 1..Len(past) : past'[i] = past[j]
        BY <2>3, <2>4, <3>1
      <4>2. QED
        BY <4>1 DEF SeenInv, SeenIn, Docs
    <3>2. CASE i = Len(kept) + 1
      BY <2>4, <3>2 DEF SeenIn, Docs
    <3>3. QED
      BY <2>4, <2>5, <3>1, <3>2
  <2>6. Len(future') = 0
    BY <2>1
  <2>7. QED
    BY <2>5, <2>6 DEF SeenInv
<1>3. QED
  BY <1>1, <1>2 DEF ThrottledSnapshot

LEMMA SeenAfterUndo ==
    ASSUME TypeInv, SeenInv, Undo
    PROVE  SeenInv' /\ \A d \in Docs \ unguarded : tab'.seen[d] = tab.seen[d]
<1>1. past # <<>> /\ past \in Seq(Copy) /\ future \in Seq(Copy) /\ tab \in Copy
  BY DEF Undo, TypeInv
<1>2. Len(past) \in 1..Len(past)
  BY <1>1
<1>3. tab' = past[Len(past)] /\ UNCHANGED unguarded
  BY DEF Undo, Restore, Edits, Changing
<1>4. \A d \in Docs \ unguarded : tab'.seen[d] = tab.seen[d]
  BY <1>2, <1>3 DEF SeenInv, SeenIn
<1>5. past' = SubSeq(past, 1, Len(past) - 1) /\ future' = <<tab>> \o future
  BY DEF Undo
<1>6. Len(past') = Len(past) - 1 /\ \A i \in 1..Len(past') : past'[i] = past[i]
  BY <1>1, <1>2, <1>5
<1>7. /\ Len(future') = Len(future) + 1
      /\ \A i \in 1..Len(future') : future'[i] = IF i = 1 THEN tab ELSE future[i - 1]
  BY <1>1, <1>5
<1>8. ASSUME NEW i \in 1..Len(past') PROVE SeenIn(past[i])'
  <2>1. i \in 1..Len(past) /\ past'[i] = past[i]
    BY <1>1, <1>6
  <2>2. QED
    BY <1>3, <1>4, <2>1 DEF SeenInv, SeenIn, Docs
<1>9. ASSUME NEW i \in 1..Len(future') PROVE SeenIn(future[i])'
  <2>1. CASE i = 1
    BY <1>3, <1>4, <1>7, <2>1 DEF SeenIn, Docs
  <2>2. CASE i # 1
    <3>1. i - 1 \in 1..Len(future) /\ future'[i] = future[i - 1]
      BY <1>1, <1>7, <2>2
    <3>2. QED
      BY <1>3, <1>4, <3>1 DEF SeenInv, SeenIn, Docs
  <2>3. QED
    BY <2>1, <2>2
<1>10. QED
  BY <1>4, <1>8, <1>9 DEF SeenInv

LEMMA SeenAfterRedo ==
    ASSUME TypeInv, SeenInv, Redo
    PROVE  SeenInv' /\ \A d \in Docs \ unguarded : tab'.seen[d] = tab.seen[d]
<1>1. future # <<>> /\ past \in Seq(Copy) /\ future \in Seq(Copy) /\ tab \in Copy
  BY DEF Redo, TypeInv
<1>2. 1 \in 1..Len(future) /\ Head(future) = future[1]
  BY <1>1
<1>3. tab' = future[1] /\ UNCHANGED unguarded
  BY <1>2 DEF Redo, Restore, Changing
<1>4. \A d \in Docs \ unguarded : tab'.seen[d] = tab.seen[d]
  BY <1>2, <1>3 DEF SeenInv, SeenIn
<1>5. past' = Append(past, tab) /\ future' = Tail(future)
  BY DEF Redo
<1>6. /\ Len(past') = Len(past) + 1
      /\ \A i \in 1..Len(past) : past'[i] = past[i]
      /\ past'[Len(past) + 1] = tab
  BY <1>1, <1>5
<1>7. Len(future') = Len(future) - 1 /\ \A i \in 1..Len(future') : future'[i] = future[i + 1]
  BY <1>1, <1>5
<1>8. ASSUME NEW i \in 1..Len(past') PROVE SeenIn(past[i])'
  <2>1. CASE i = Len(past) + 1
    BY <1>3, <1>4, <1>6, <2>1 DEF SeenIn, Docs
  <2>2. CASE i \in 1..Len(past)
    BY <1>3, <1>4, <1>6, <2>2 DEF SeenInv, SeenIn, Docs
  <2>3. QED
    BY <1>1, <1>6, <2>1, <2>2
<1>9. ASSUME NEW i \in 1..Len(future') PROVE SeenIn(future[i])'
  <2>1. i + 1 \in 1..Len(future) /\ future'[i] = future[i + 1]
    BY <1>1, <1>7
  <2>2. QED
    BY <1>3, <1>4, <2>1 DEF SeenInv, SeenIn, Docs
<1>10. QED
  BY <1>4, <1>8, <1>9 DEF SeenInv

LEMMA SeenStep == ASSUME TypedSeen, [Next]_vars PROVE SeenInv'
<1>1. TypeInv /\ FlagsInv /\ SeenInv
  BY DEF TypedSeen, TypedFlags
<1>2. ASSUME UNCHANGED history, UNCHANGED unguarded, UNCHANGED tab PROVE SeenInv'
  BY <1>1, <1>2, SeenKept
<1>3. CASE Author
  <2>1. CASE EditingSteps
    BY <1>1, <2>1, EditingIsEdited, SeenAfterEdit DEF Edited, Edits, Changing
  <2>2. CASE Undo \/ Redo
    BY <1>1, <2>2, SeenAfterUndo, SeenAfterRedo
  <2>3. CASE PageReload
    <3>1. past' = <<>> /\ future' = <<>>
      BY <2>3 DEF PageReload, ClearHistory
    <3>2. QED
      BY <3>1 DEF SeenInv
  <2>4. CASE KeepUnsaved
    BY <1>2, <2>4 DEF KeepUnsaved
  <2>5. QED
    BY <1>3, <2>1, <2>2, <2>3, <2>4 DEF Author, EditingSteps
<1>4. CASE Saves
  <2>1. CASE Save
    BY <1>2, <2>1 DEF Save, ghosts
  <2>2. ASSUME NEW out, PutIndex(out) PROVE SeenInv'
    BY <1>2, <2>2 DEF PutIndex, SaveKeeps
  <2>3. ASSUME NEW p \in Pages, NEW out, PutPage(p, out) PROVE SeenInv'
    <3>1. UNCHANGED history /\ UNCHANGED tab /\ unguarded \subseteq unguarded'
      BY <2>3 DEF PutPage, SaveKeeps
    <3>2. QED
      BY <1>1, <3>1, SeenKept
  <2>4. ASSUME NEW p \in Pages, PutPageRefused(p) PROVE SeenInv'
    BY <1>2, <2>4 DEF PutPageRefused, SaveKeeps
  <2>5. CASE PutIndexRefused
    BY <1>2, <2>5 DEF PutIndexRefused, SaveKeeps
  <2>6. CASE PagesDone
    BY <1>2, <2>6 DEF PagesDone, SaveKeeps
  <2>7. ASSUME NEW works \in BOOLEAN, RestDone(works) PROVE SeenInv'
    BY <1>2, <2>7 DEF RestDone, ghosts
  <2>8. QED
    BY <1>4, <2>1, <2>2, <2>3, <2>4, <2>5, <2>6, <2>7 DEF Saves
<1>5. CASE Others
  <2>1. ASSUME NEW p \in Pages, OtherDeletesPage(p) PROVE SeenInv'
    <3>1. UNCHANGED history /\ UNCHANGED tab /\ unguarded \subseteq unguarded'
      BY <2>1 DEF OtherDeletesPage, OtherChanges
    <3>2. QED
      BY <1>1, <3>1, SeenKept
  <2>2. ASSUME NEW p \in Pages, OtherWritesPage(p) PROVE SeenInv'
    BY <1>2, <2>2 DEF OtherWritesPage, OtherChanges
  <2>3. CASE OtherWritesIndex
    BY <1>2, <2>3 DEF OtherWritesIndex, OtherChanges
  <2>4. CASE LoseEvent
    BY <1>2, <2>4 DEF LoseEvent
  <2>5. QED
    BY <1>5, <2>1, <2>2, <2>3, <2>4 DEF Others
<1>6. CASE Fetches
  <2>1. CASE SyncAnswers
    <3>1. CASE sync.stale
      BY <1>2, <2>1, <3>1 DEF SyncAnswers
    <3>2. CASE ~sync.stale
      <4>1. ~dirty
        BY <1>1, <2>1, <3>2 DEF SyncAnswers, FlagsInv
      <4>2. past' = <<>> /\ future' = <<>>
        BY <2>1, <3>2, <4>1 DEF SyncAnswers, ClearHistory
      <4>3. QED
        BY <4>2 DEF SeenInv
    <3>3. QED
      BY <3>1, <3>2
  <2>2. CASE MountAnswers
    <3>1. /\ UNCHANGED history /\ tab' = loose.answer.copy
          /\ unguarded \subseteq unguarded'
          /\ {d \in Docs : loose.answer.copy.seen[d] # tab.seen[d]} \subseteq unguarded'
      BY <2>2 DEF MountAnswers, Load
    <3>2. \A d \in Docs \ unguarded' : tab'.seen[d] = tab.seen[d]
      BY <3>1
    <3>3. QED
      BY <1>1, <3>1, <3>2, SeenKept
  <2>3. CASE PageAnswers
    <3>1. loose \in PageFetches /\ loose.page \in Pages /\ tab \in Copy
      BY <1>1, <2>3 DEF PageAnswers, TypeInv, NoFetch, IndexFetches, PageFetches
    <3>2. /\ UNCHANGED history /\ unguarded \subseteq unguarded'
          /\ loose.page \in unguarded' \/ loose.seen = tab.seen[loose.page]
      BY <2>3 DEF PageAnswers
    <3>3. \/ tab' = tab
          \/ tab' = [tab EXCEPT !.body[loose.page] = loose.body, !.seen[loose.page] = loose.seen]
      BY <2>3 DEF PageAnswers
    <3>4. \A d \in Docs \ unguarded' : tab'.seen[d] = tab.seen[d]
      <4>1. CASE tab' = tab
        BY <4>1
      <4>2. CASE tab' = [tab EXCEPT !.body[loose.page] = loose.body,
                                    !.seen[loose.page] = loose.seen]
        <5>1. tab'.seen = [tab.seen EXCEPT ![loose.page] = loose.seen]
          BY <3>1, <4>2 DEF Copy
        <5>2. tab.seen \in [Docs -> 0..turn] /\ loose.page \in Docs
          BY <3>1 DEF Copy, Docs
        <5>3. QED
          BY <3>2, <5>1, <5>2
      <4>3. QED
        BY <3>3, <4>1, <4>2
    <3>5. QED
      BY <1>1, <3>2, <3>4, SeenKept
  <2>4. CASE Hear
    BY <1>2, <2>4 DEF Hear, ghosts
  <2>5. CASE SyncFails
    BY <1>2, <2>5 DEF SyncFails, ghosts
  <2>6. CASE Mount
    BY <1>2, <2>6 DEF Mount, Fetch, ghosts
  <2>7. ASSUME NEW p \in Pages, AskPage(p) PROVE SeenInv'
    BY <1>2, <2>7 DEF AskPage, Fetch, ghosts
  <2>8. QED
    BY <1>6, <2>1, <2>2, <2>3, <2>4, <2>5, <2>6, <2>7 DEF Fetches
<1>7. CASE UNCHANGED vars
  BY <1>2, <1>7 DEF vars, ghosts
<1>8. QED
  BY <1>3, <1>4, <1>5, <1>6, <1>7 DEF Next

LEMMA SeenAlways == Spec => []TypedSeen
<1>1. Init => TypedSeen
  <2>1. ASSUME Init PROVE FlagsInv /\ SeenInv
    BY <2>1 DEF Init, FlagsInv, Saving, NoSave, NoFetch, SeenInv
  <2>2. QED
    BY <2>1, InitType DEF TypedSeen, TypedFlags
<1>2. TypedSeen /\ [Next]_vars => TypedSeen'
  BY TypeStep, FlagsStep, SeenStep DEF TypedSeen, TypedFlags
<1>3. QED
  BY <1>1, <1>2, PTL DEF Spec

(* Undo and redo do not take the tab back behind a change of another       *)
(* writer that it shows, except of what came in while the history was kept *)
(* (configStore.ts, restoreSnapshot; editorLiveSync.ts, reloadEditor).     *)
THEOREM OthersSurviveUndo == Spec => UndoKeepsOthers
<1> DEFINE Kept == \A d \in Docs \ unguarded : tab'.seen[d] >= tab.seen[d]
<1>1. ASSUME TypedSeen, Undo \/ Redo PROVE Kept
  <2>1. TypeInv /\ SeenInv
    BY <1>1 DEF TypedSeen, TypedFlags
  <2>2. \A d \in Docs \ unguarded : tab'.seen[d] = tab.seen[d] /\ tab.seen[d] \in Nat
    <3>1. \A d \in Docs : tab.seen[d] \in 0..turn /\ turn \in Nat
      BY <2>1, BoundsAssumption DEF TypeInv, Copy
    <3>2. QED
      BY <1>1, <2>1, <3>1, SeenAfterUndo, SeenAfterRedo
  <2>3. QED
    BY <2>2
<1>2. TypedSeen => [Undo \/ Redo => Kept]_vars
  BY <1>1
<1>3. QED
  BY <1>2, SeenAlways, PTL DEF UndoKeepsOthers

-----------------------------------------------------------------------------
(* What a revision tells.  Whoever holds the revision of a document that   *)
(* still is the document's has seen every change of another writer to it.  *)

KnowsIndex(d, rv, seen) == rv.index = IndexOf(d) => seen[Index] = d.stamp[Index]

KnowsPage(d, rv, seen, p) ==
    \A r \in Roots : rv.page[p] # Missing /\ rv.page[p] = d.doc[r][p] => seen[p] = d.stamp[p]

TabKnows ==
    /\ Index \notin unguarded => KnowsIndex(disk, revs, tab.seen)
    /\ \A p \in Pages \ unguarded : KnowsPage(disk, revs, tab.seen, p)

SaveKnows ==
    /\ Saving => \A d \in Docs \ unguarded : save.copy.seen[d] = tab.seen[d]
    /\ save.phase = "index" =>
           /\ Index \notin unguarded => KnowsIndex(disk, save.revs, save.copy.seen)
           /\ \A p \in Pages \ unguarded : KnowsPage(disk, save.revs, save.copy.seen, p)
    /\ save.phase = "pages" =>
           \A p \in save.left \ unguarded : KnowsPage(disk, save.revs, save.copy.seen, p)

(* A reload that is still good was answered before other writers only: as  *)
(* long as the shell is the one it was, pages went and none came.          *)
Succeeds(d, copy) ==
    d.shell = copy.shell =>
        /\ \A p \in Pages : d.place[p] \in {copy.place[p], Nowhere}
        /\ d.place = copy.place => copy.seen[Index] = d.stamp[Index]

Answered(d, answer) ==
    /\ Succeeds(d, answer.copy)
    /\ \A p \in Pages : KnowsPage(d, answer.revs, answer.copy.seen, p)

SyncKnows == sync.phase = "asked" /\ ~sync.stale => Answered(disk, sync.answer)

(* A page has one document, in the directory of its root; and that is      *)
(* where a save that runs is about to write it.                            *)
DocsInPlace(d) ==
    \A p \in Pages, r \in Roots : d.doc[r][p] # Missing =>
        d.place[p] \in {r, Nowhere} /\ d.doc[OtherRoot(r)][p] = Missing

Sendable(d, copy, p) ==
    /\ d.place[p] \in {copy.place[p], Nowhere}
    /\ d.doc[OtherRoot(copy.place[p])][p] = Missing

Placement ==
    /\ DocsInPlace(disk)
    /\ save.phase = "pages" => \A p \in save.left : Sendable(disk, save.copy, p)

(* An answer's revisions are those of its content.                         *)
Linked(answer) ==
    /\ answer.revs.index = IndexOf(answer.copy)
    /\ \A p \in Pages : answer.revs.page[p] # Missing =>
           Content(answer.copy, p) = answer.revs.page[p]

AnswersLinked ==
    /\ sync.phase = "asked" => Linked(sync.answer)
    /\ loose.phase = "index" => Linked(loose.answer)

Knows == TabKnows /\ SaveKnows /\ SyncKnows /\ Placement /\ AnswersLinked
KnowingInv == TypedSeen /\ Knows

LEMMA OneDocument ==
    ASSUME NEW d, DocsInPlace(d), NEW p \in Pages
    PROVE  /\ \A r \in Roots : d.doc[r][p] # Missing => Document(d, p) = d.doc[r][p]
           /\ (\A r \in Roots : d.doc[r][p] = Missing) => Document(d, p) = Missing
<1>1. SUFFICES ASSUME NEW r \in Roots, d.doc[r][p] # Missing
               PROVE  Document(d, p) = d.doc[r][p]
  BY DEF Document
<1>2. \A s \in Roots : d.doc[s][p] # Missing => s = r
  BY <1>1 DEF DocsInPlace, Roots, OtherRoot
<1>3. (CHOOSE s \in Roots : d.doc[s][p] # Missing) = r
  BY <1>1, <1>2
<1>4. QED
  BY <1>1, <1>3 DEF Document

(* What the server answers now is good.                                    *)
LEMMA AnswerKnows ==
    ASSUME disk \in Server, DocsInPlace(disk)
    PROVE  /\ Linked(Answer) /\ Answered(disk, Answer)
           /\ KnowsIndex(disk, Answer.revs, Answer.copy.seen)
<1>1. /\ Answer.copy.seen = disk.stamp /\ Answer.copy.place = disk.place
      /\ Answer.copy.shell = disk.shell /\ Answer.revs.index = IndexOf(disk)
      /\ Answer.revs.page = [p \in Pages |-> Served(disk, p)]
      /\ Answer.copy.body = [p \in Pages |-> IF Served(disk, p) = Missing
                                             THEN Empty ELSE Served(disk, p)]
  BY DEF Answer
<1>2. Linked(Answer)
  BY <1>1, ConstantsAssumption DEF Linked, Content, IndexOf, Served
<1>3. Answered(disk, Answer)
  BY <1>1 DEF Answered, Succeeds, KnowsPage
<1>4. QED
  BY <1>1, <1>2, <1>3 DEF KnowsIndex

-----------------------------------------------------------------------------
(* Steps that leave the documents alone, and the revisions that the tab    *)
(* and a save go by.                                                       *)

SaveGoesOn ==
    \/ save' = NoSave
    \/ /\ Saving /\ save'.phase \in {"index", "pages", "rest"}
       /\ save'.copy = save.copy /\ save'.revs = save.revs /\ save'.left \subseteq save.left
       /\ save'.phase = "index" => save.phase = "index"
       /\ save'.phase = "pages" => save.phase = "pages"
    \/ UNCHANGED save

SyncGoesOn ==
    \/ sync' = NoFetch
    \/ \E applied : sync' = Asked(applied)
    \/ /\ sync.phase = "asked" /\ sync'.phase = "asked"
       /\ sync'.answer = sync.answer /\ (~sync'.stale => ~sync.stale)
    \/ UNCHANGED sync

LooseGoesOn ==
    \/ loose'.phase # "index"
    \/ loose'.answer = Answer
    \/ UNCHANGED loose

Quiet ==
    /\ UNCHANGED <<disk, revs>>
    /\ unguarded \subseteq unguarded'
    /\ \A d \in Docs \ unguarded' : tab'.seen[d] = tab.seen[d]
    /\ SaveGoesOn /\ SyncGoesOn /\ LooseGoesOn

LEMMA SaveKnowsOn ==
    ASSUME SaveKnows, UNCHANGED disk, unguarded \subseteq unguarded', SaveGoesOn,
           \A d \in Docs \ unguarded' : tab'.seen[d] = tab.seen[d]
    PROVE  SaveKnows'
<1>1. Pages \subseteq Docs /\ Index \in Docs
  BY DEF Docs
<1>2. CASE save' = NoSave
  BY <1>2 DEF SaveKnows, Saving, NoSave
<1>3. CASE Saving /\ save'.copy = save.copy /\ save'.revs = save.revs
           /\ save'.left \subseteq save.left
           /\ (save'.phase = "index" => save.phase = "index")
           /\ (save'.phase = "pages" => save.phase = "pages")
  <2>1. \A d \in Docs \ unguarded' : save'.copy.seen[d] = tab'.seen[d]
    BY <1>3 DEF SaveKnows
  <2>2. save'.phase = "index" =>
           /\ Index \notin unguarded' => KnowsIndex(disk', save'.revs, save'.copy.seen)
           /\ \A p \in Pages \ unguarded' : KnowsPage(disk', save'.revs, save'.copy.seen, p)
    BY <1>3 DEF SaveKnows
  <2>3. save'.phase = "pages" =>
           \A p \in save'.left \ unguarded' : KnowsPage(disk', save'.revs, save'.copy.seen, p)
    BY <1>3 DEF SaveKnows
  <2>4. QED
    BY <2>1, <2>2, <2>3 DEF SaveKnows, Docs, KnowsIndex, KnowsPage, Roots, IndexOf
<1>4. CASE UNCHANGED save
  <2>1. Saving' = Saving
    BY <1>4 DEF Saving
  <2>2. Saving => \A d \in Docs \ unguarded' : save'.copy.seen[d] = tab'.seen[d]
    BY <1>4 DEF SaveKnows
  <2>3. save'.phase = "index" =>
           /\ Index \notin unguarded' => KnowsIndex(disk', save'.revs, save'.copy.seen)
           /\ \A p \in Pages \ unguarded' : KnowsPage(disk', save'.revs, save'.copy.seen, p)
    BY <1>4 DEF SaveKnows
  <2>4. save'.phase = "pages" =>
           \A p \in save'.left \ unguarded' : KnowsPage(disk', save'.revs, save'.copy.seen, p)
    BY <1>4 DEF SaveKnows
  <2>5. QED
    BY <2>1, <2>2, <2>3, <2>4 DEF SaveKnows, Docs, KnowsIndex, KnowsPage, Roots, IndexOf
<1>5. QED
  BY <1>2, <1>3, <1>4 DEF SaveGoesOn

LEMMA PlacementOn ==
    ASSUME Placement, UNCHANGED disk, SaveGoesOn
    PROVE  Placement'
<1>1. DocsInPlace(disk')
  BY DEF Placement
<1>2. save'.phase = "pages" => \A p \in save'.left : Sendable(disk', save'.copy, p)
  BY DEF Placement, SaveGoesOn, NoSave
<1>3. QED
  BY <1>1, <1>2 DEF Placement, DocsInPlace, Sendable, Roots, OtherRoot

LEMMA SyncKnowsOn ==
    ASSUME disk \in Server, DocsInPlace(disk), SyncKnows, UNCHANGED disk, SyncGoesOn
    PROVE  SyncKnows'
<1>1. sync'.phase = "asked" /\ ~sync'.stale => Answered(disk', sync'.answer)
  BY AnswerKnows DEF SyncKnows, SyncGoesOn, Asked, NoFetch
<1>2. QED
  BY <1>1 DEF SyncKnows, Answered, Succeeds, KnowsPage, Roots

LEMMA LinkedOn ==
    ASSUME disk \in Server, DocsInPlace(disk), AnswersLinked, SyncGoesOn, LooseGoesOn
    PROVE  AnswersLinked'
<1>1. sync'.phase = "asked" => Linked(sync'.answer)
  BY AnswerKnows DEF AnswersLinked, SyncGoesOn, Asked, NoFetch
<1>2. loose'.phase = "index" => Linked(loose'.answer)
  BY AnswerKnows DEF AnswersLinked, LooseGoesOn
<1>3. QED
  BY <1>1, <1>2 DEF AnswersLinked, Linked, IndexOf, Content

LEMMA QuietKnows ==
    ASSUME TypeInv, Knows, Quiet
    PROVE  Knows'
<1>1. disk \in Server /\ DocsInPlace(disk)
  BY DEF TypeInv, Knows, Placement
<1>2. TabKnows'
  <2>1. /\ Index \notin unguarded' => KnowsIndex(disk', revs', tab'.seen)
        /\ \A p \in Pages \ unguarded' : KnowsPage(disk', revs', tab'.seen, p)
    BY DEF Knows, Quiet, TabKnows, Docs, KnowsIndex, KnowsPage
  <2>2. QED
    BY <2>1 DEF TabKnows, KnowsIndex, KnowsPage, IndexOf, Roots
<1>3. QED
  BY <1>1, <1>2, SaveKnowsOn, PlacementOn, SyncKnowsOn, LinkedOn DEF Knows, Quiet

LEMMA TouchedGoesOn == ASSUME TypeInv, Touched PROVE SaveGoesOn /\ SyncGoesOn
<1>1. SaveGoesOn
  <2>1. CASE Saving
    <3>1. save \in SaveFields /\ save' = [save EXCEPT !.stale = TRUE]
      BY <2>1, RunFields DEF Touched
    <3>2. QED
      BY <2>1, <3>1 DEF SaveGoesOn, SaveFields
  <2>2. CASE ~Saving
    BY <2>2 DEF SaveGoesOn, Touched
  <2>3. QED
    BY <2>1, <2>2
<1>2. SyncGoesOn
  <2>1. CASE sync.phase = "asked"
    <3>1. sync \in SyncRuns /\ sync' = [sync EXCEPT !.stale = TRUE]
      BY <2>1 DEF Touched, TypeInv, NoFetch
    <3>2. QED
      BY <2>1, <3>1 DEF SyncGoesOn, SyncRuns
  <2>2. CASE sync.phase # "asked"
    BY <2>2 DEF SyncGoesOn, Touched
  <2>3. QED
    BY <2>1, <2>2
<1>3. QED
  BY <1>1, <1>2

LEMMA AuthorIsQuiet ==
    ASSUME TypeInv, SeenInv, Author, ~PageReload
    PROVE  Quiet
<1>1. CASE EditingSteps
  <2>1. Edited
    BY <1>1, EditingIsEdited
  <2>2. Touched /\ UNCHANGED <<disk, revs, loose, unguarded>> /\ tab'.seen = tab.seen
    BY <2>1 DEF Edited, Edits, Changing
  <2>3. QED
    BY <2>2, TouchedGoesOn DEF Quiet, LooseGoesOn
<1>2. CASE Undo \/ Redo
  <2>1. Touched /\ UNCHANGED <<disk, revs, loose, unguarded>>
    BY <1>2 DEF Undo, Redo, Edits, Changing
  <2>2. \A d \in Docs \ unguarded : tab'.seen[d] = tab.seen[d]
    BY <1>2, SeenAfterUndo, SeenAfterRedo
  <2>3. QED
    BY <2>1, <2>2, TouchedGoesOn DEF Quiet, LooseGoesOn
<1>3. CASE KeepUnsaved
  BY <1>3 DEF KeepUnsaved, Quiet, SaveGoesOn, SyncGoesOn, LooseGoesOn, books
<1>4. QED
  BY <1>1, <1>2, <1>3 DEF Author, EditingSteps

(* The steps of a save that send nothing, or what the server does not take. *)
LEMMA SavesAreQuiet ==
    ASSUME TypeInv,
           \/ PutIndexRefused \/ PagesDone \/ PutIndex("failed")
           \/ \E p \in Pages : PutPageRefused(p) \/ PutPage(p, "failed")
           \/ \E works \in BOOLEAN : RestDone(works)
    PROVE  Quiet
<1>1. CASE PutIndexRefused
  BY <1>1 DEF PutIndexRefused, SaveKeeps, books, Quiet, SaveGoesOn, SyncGoesOn, LooseGoesOn
<1>2. CASE PutIndex("failed")
  BY <1>2 DEF PutIndex, SaveKeeps, Quiet, SaveGoesOn, SyncGoesOn, LooseGoesOn
<1>3. CASE PagesDone
  <2>1. save \in SaveFields /\ Saving
    BY <1>3, RunFields DEF PagesDone, Saving
  <2>2. SaveGoesOn
    BY <1>3, <2>1 DEF PagesDone, SaveGoesOn, SaveFields
  <2>3. QED
    BY <1>3, <2>2 DEF PagesDone, SaveKeeps, Quiet, SyncGoesOn, LooseGoesOn
<1>4. ASSUME NEW p \in Pages, PutPageRefused(p) \/ PutPage(p, "failed") PROVE Quiet
  <2>1. save \in SaveFields /\ Saving /\ save.phase = "pages"
    BY <1>4, RunFields DEF PutPageRefused, PutPage, Saving
  <2>2. /\ save'.copy = save.copy /\ save'.revs = save.revs /\ save'.left \subseteq save.left
        /\ save'.phase = save.phase
    BY <1>4, <2>1 DEF PutPageRefused, PutPage, SaveFields
  <2>3. SaveGoesOn
    BY <2>1, <2>2 DEF SaveGoesOn
  <2>4. QED
    BY <1>4, <2>3 DEF PutPageRefused, PutPage, SaveKeeps, books, Quiet, SyncGoesOn, LooseGoesOn
<1>5. ASSUME NEW works \in BOOLEAN, RestDone(works) PROVE Quiet
  BY <1>5 DEF RestDone, books, ghosts, Quiet, SaveGoesOn, SyncGoesOn, LooseGoesOn
<1>6. QED
  BY <1>1, <1>2, <1>3, <1>4, <1>5

LEMMA HearGoesOn == ASSUME TypeInv, Hear PROVE SyncGoesOn
<1>1. CASE dirty
  BY <1>1 DEF Hear, SyncGoesOn
<1>2. CASE ~dirty /\ sync.phase = "asked"
  <2>1. sync \in SyncRuns /\ sync' = [sync EXCEPT !.again = TRUE]
    BY <1>2 DEF Hear, TypeInv, NoFetch
  <2>2. QED
    BY <1>2, <2>1 DEF SyncGoesOn, SyncRuns
<1>3. CASE ~dirty /\ sync.phase # "asked"
  BY <1>3 DEF Hear, SyncGoesOn
<1>4. QED
  BY <1>1, <1>2, <1>3

LEMMA FetchesAreQuiet ==
    ASSUME TypeInv, Fetches, ~MountAnswers, ~(SyncAnswers /\ ~sync.stale)
    PROVE  Quiet
<1>1. CASE Hear
  <2>1. SyncGoesOn
    BY <1>1, HearGoesOn
  <2>2. QED
    BY <1>1, <2>1 DEF Hear, books, ghosts, Quiet, SaveGoesOn, LooseGoesOn
<1>2. ASSUME NEW applied, PassOver(applied) PROVE SyncGoesOn
  BY <1>2 DEF PassOver, SyncGoesOn
<1>3. CASE SyncAnswers
  BY <1>2, <1>3 DEF SyncAnswers, books, Quiet, SaveGoesOn, LooseGoesOn
<1>4. CASE SyncFails
  BY <1>2, <1>4 DEF SyncFails, books, ghosts, Quiet, SaveGoesOn, LooseGoesOn
<1>5. CASE Mount
  BY <1>5 DEF Mount, Fetch, books, ghosts, Quiet, SaveGoesOn, SyncGoesOn, LooseGoesOn
<1>6. ASSUME NEW p \in Pages, AskPage(p) PROVE Quiet
  <2>1. loose'.phase = "page"
    BY <1>6 DEF AskPage, Fetch
  <2>2. QED
    BY <1>6, <2>1 DEF AskPage, Fetch, books, ghosts, Quiet, SaveGoesOn, SyncGoesOn, LooseGoesOn
<1>7. CASE PageAnswers
  <2>1. loose \in PageFetches /\ loose.page \in Pages /\ tab \in Copy
    BY <1>7 DEF PageAnswers, TypeInv, NoFetch, IndexFetches, PageFetches
  <2>2. \A d \in Docs \ unguarded' : tab'.seen[d] = tab.seen[d]
    <3>1. loose.page \in unguarded' \/ loose.seen = tab.seen[loose.page]
      BY <1>7 DEF PageAnswers
    <3>2. CASE tab' = tab
      BY <3>2
    <3>3. CASE tab' # tab
      <4>1. tab' = [tab EXCEPT !.body[loose.page] = loose.body, !.seen[loose.page] = loose.seen]
        BY <1>7, <3>3 DEF PageAnswers
      <4>2. tab'.seen = [tab.seen EXCEPT ![loose.page] = loose.seen]
        BY <2>1, <4>1 DEF Copy
      <4>3. tab.seen \in [Docs -> 0..turn] /\ loose.page \in Docs
        BY <2>1 DEF Copy, Docs
      <4>4. QED
        BY <3>1, <4>2, <4>3
    <3>4. QED
      BY <3>2, <3>3
  <2>3. QED
    BY <1>7, <2>2 DEF PageAnswers, Quiet, SaveGoesOn, SyncGoesOn, LooseGoesOn, NoFetch
<1>8. QED
  BY <1>1, <1>3, <1>4, <1>5, <1>6, <1>7 DEF Fetches

-----------------------------------------------------------------------------
(* Other writers.  What they write is new to everyone.                     *)

LEMMA Fresh ==
    ASSUME TypeInv, turn < MaxOther
    PROVE  /\ turn + 1 \notin Made \cup ShellsMade /\ turn + 1 # Missing
           /\ turn + 1 \in Nat
<1>1. turn \in Nat /\ turn + 1 \in Changes
  BY BoundsAssumption DEF TypeInv, Changes
<1>2. turn + 1 \notin 1..turn
  BY <1>1
<1>3. QED
  BY <1>1, <1>2, ConstantsAssumption DEF Made, ShellsMade, Contents

(* What another writer does to the pages: those it touches are new, or     *)
(* gone.                                                                   *)
Overwrites(touched) ==
    /\ \A q \in Pages \ touched, r \in Roots : disk'.doc[r][q] = disk.doc[r][q]
    /\ \A q \in Pages \cap touched, r \in Roots : disk'.doc[r][q] \in {turn + 1, Missing}
    /\ disk'.stamp = Stamped(touched)
    /\ DocsInPlace(disk')

LEMMA StampedSame ==
    ASSUME TypeInv, NEW touched, NEW d \in Docs
    PROVE  /\ Stamped(touched)[d] \in Nat /\ disk.stamp[d] \in Nat
           /\ d \notin touched => Stamped(touched)[d] = disk.stamp[d]
           /\ d \in touched => Stamped(touched)[d] = disk.stamp[d] + 1
BY DEF TypeInv, Server, Stamped

LEMMA PageOverwritten ==
    ASSUME TypeInv, DocsInPlace(disk), NEW p \in Pages, OtherWritesPage(p)
    PROVE  /\ Overwrites({p}) /\ disk'.place = disk.place /\ disk'.shell = disk.shell
           /\ \A q \in Pages, r \in Roots : q # p => disk'.doc[r][q] = disk.doc[r][q]
<1> DEFINE root == disk.place[p]
<1>1. /\ disk \in Server /\ root \in Roots /\ turn < MaxOther
      /\ disk' = [disk EXCEPT !.doc[root][p] = turn + 1, !.stamp = Stamped({p})]
  BY DEF TypeInv, Server, Rooted, OtherWritesPage, OtherChanges
<1>2. /\ disk'.place = disk.place /\ disk'.shell = disk.shell /\ disk'.stamp = Stamped({p})
      /\ disk'.doc = [disk.doc EXCEPT ![root][p] = turn + 1]
  BY <1>1 DEF Server
<1>3. \A q \in Pages, r \in Roots :
          disk'.doc[r][q] = IF q = p /\ r = root THEN turn + 1 ELSE disk.doc[r][q]
  BY <1>1, <1>2 DEF Server
<1>4. \A r \in Roots : r # root => disk.doc[r][p] = Missing
  BY <1>1, ConstantsAssumption DEF DocsInPlace
<1>5. \A r \in Roots : disk'.doc[r][p] \in {turn + 1, Missing}
  BY <1>3, <1>4
<1>6. DocsInPlace(disk')
  BY <1>1, <1>2, <1>3, <1>4 DEF DocsInPlace, Roots, OtherRoot
<1>7. QED
  BY <1>2, <1>3, <1>5, <1>6 DEF Overwrites

LEMMA PageDropped ==
    ASSUME TypeInv, DocsInPlace(disk), NEW p \in Pages, OtherDeletesPage(p)
    PROVE  /\ Overwrites({p, Index}) /\ disk'.shell = disk.shell
           /\ disk'.place = [disk.place EXCEPT ![p] = Nowhere]
           /\ \A q \in Pages, r \in Roots : q # p => disk'.doc[r][q] = disk.doc[r][q]
<1> DEFINE root == disk.place[p]
<1>1. /\ disk \in Server /\ root \in Roots /\ turn < MaxOther
      /\ disk' = [disk EXCEPT !.doc[root][p] = Missing, !.place[p] = Nowhere,
                              !.stamp = Stamped({p, Index})]
  BY DEF TypeInv, Server, Rooted, OtherDeletesPage, OtherChanges
<1>2. /\ disk'.place = [disk.place EXCEPT ![p] = Nowhere] /\ disk'.shell = disk.shell
      /\ disk'.stamp = Stamped({p, Index})
      /\ disk'.doc = [disk.doc EXCEPT ![root][p] = Missing]
  BY <1>1 DEF Server
<1>3. \A q \in Pages, r \in Roots :
          disk'.doc[r][q] = IF q = p /\ r = root THEN Missing ELSE disk.doc[r][q]
  BY <1>1, <1>2 DEF Server
<1>4. \A r \in Roots : r # root => disk.doc[r][p] = Missing
  BY <1>1, ConstantsAssumption DEF DocsInPlace
<1>5. \A r \in Roots : disk'.doc[r][p] = Missing
  BY <1>3, <1>4
<1>6. \A q \in Pages : q # p => disk'.place[q] = disk.place[q]
  BY <1>1, <1>2 DEF Server, Rooted
<1>7. DocsInPlace(disk')
  <2>1. \A r \in Roots : OtherRoot(r) \in Roots
    BY DEF Roots, OtherRoot
  <2>2. QED
    BY <1>3, <1>5, <1>6, <2>1 DEF DocsInPlace
<1>8. QED
  BY <1>2, <1>3, <1>5, <1>7, ConstantsAssumption DEF Overwrites

LEMMA IndexOverwritten ==
    ASSUME TypeInv, DocsInPlace(disk), OtherWritesIndex
    PROVE  /\ Overwrites({Index}) /\ disk'.place = disk.place /\ disk'.shell = turn + 1
           /\ disk'.doc = disk.doc
<1>1. /\ disk \in Server
      /\ disk' = [disk EXCEPT !.shell = turn + 1, !.stamp = Stamped({Index})]
  BY DEF TypeInv, OtherWritesIndex
<1>2. /\ disk'.place = disk.place /\ disk'.shell = turn + 1 /\ disk'.doc = disk.doc
      /\ disk'.stamp = Stamped({Index})
  BY <1>1 DEF Server
<1>3. DocsInPlace(disk')
  BY <1>2 DEF DocsInPlace
<1>4. QED
  BY <1>2, <1>3, ConstantsAssumption DEF Overwrites

(* Nobody goes by what another writer just wrote.                          *)
LEMMA PagesStayKnown ==
    ASSUME TypeInv, turn < MaxOther, NEW touched, Overwrites(touched),
           NEW rv \in Revs, NEW seen, NEW p \in Pages, KnowsPage(disk, rv, seen, p)
    PROVE  KnowsPage(disk', rv, seen, p)
<1>1. rv.page[p] \in Made \cup {Missing} /\ p \in Docs
  BY DEF Revs, Docs
<1>2. CASE p \in touched
  <2>1. \A r \in Roots : disk'.doc[r][p] \in {turn + 1, Missing}
    BY <1>2 DEF Overwrites
  <2>2. QED
    BY <1>1, <2>1, Fresh DEF KnowsPage
<1>3. CASE p \notin touched
  <2>1. disk'.stamp[p] = disk.stamp[p]
    BY <1>1, <1>3, StampedSame DEF Overwrites
  <2>2. \A r \in Roots : disk'.doc[r][p] = disk.doc[r][p]
    BY <1>3 DEF Overwrites
  <2>3. QED
    BY <2>1, <2>2 DEF KnowsPage
<1>4. QED
  BY <1>2, <1>3

(* What another writer's change leaves of the invariant to be shown.       *)
LEMMA OthersKnow ==
    ASSUME TypeInv, SeenInv, Knows, OtherChanges, NEW touched, Overwrites(touched),
           unguarded \subseteq unguarded',
           Index \notin unguarded' => /\ KnowsIndex(disk, revs, tab.seen) =>
                                           KnowsIndex(disk', revs, tab.seen)
                                      /\ save.phase = "index" =>
                                           (KnowsIndex(disk, save.revs, save.copy.seen) =>
                                            KnowsIndex(disk', save.revs, save.copy.seen)),
           \A copy \in Copy : Succeeds(disk, copy) => Succeeds(disk', copy),
           save.phase = "pages" =>
               \A p \in save.left : Sendable(disk, save.copy, p) => Sendable(disk', save.copy, p)
    PROVE  Knows'
<1>1. UNCHANGED <<tab, revs, save, sync, loose>> /\ turn < MaxOther
  BY DEF OtherChanges, books
<1>2. TabKnows'
  <2>1. \A p \in Pages \ unguarded' : KnowsPage(disk', revs, tab.seen, p)
    BY <1>1, PagesStayKnown DEF Knows, TabKnows, TypeInv
  <2>2. Index \notin unguarded' => KnowsIndex(disk', revs, tab.seen)
    BY DEF Knows, TabKnows
  <2>3. QED
    BY <1>1, <2>1, <2>2 DEF TabKnows, KnowsPage, KnowsIndex, IndexOf, Roots
<1>3. SaveKnows'
  <2>1. Saving => save.revs \in Revs /\ save.left \subseteq Pages
    BY RunFields
  <2>2. save.phase = "index" =>
           /\ Index \notin unguarded' => KnowsIndex(disk', save.revs, save.copy.seen)
           /\ \A p \in Pages \ unguarded' : KnowsPage(disk', save.revs, save.copy.seen, p)
    BY <1>1, <2>1, PagesStayKnown DEF Knows, SaveKnows, Saving
  <2>3. save.phase = "pages" =>
           \A p \in save.left \ unguarded' : KnowsPage(disk', save.revs, save.copy.seen, p)
    BY <1>1, <2>1, PagesStayKnown DEF Knows, SaveKnows, Saving
  <2>4. Saving => \A d \in Docs \ unguarded' : save.copy.seen[d] = tab.seen[d]
    BY DEF Knows, SaveKnows
  <2>5. QED
    BY <1>1, <2>2, <2>3, <2>4 DEF SaveKnows, KnowsPage, KnowsIndex, IndexOf, Roots, Saving, Docs
<1>4. SyncKnows'
  <2>1. CASE sync.phase = "asked" /\ ~sync.stale
    <3>1. sync.answer.copy \in Copy /\ sync.answer.revs \in Revs
      BY <2>1 DEF TypeInv, NoFetch, SyncRuns, Fetched
    <3>2. Answered(disk', sync.answer)
      BY <1>1, <2>1, <3>1, PagesStayKnown DEF Knows, SyncKnows, Answered
    <3>3. QED
      BY <1>1, <3>2 DEF SyncKnows, Answered, KnowsPage, Succeeds, Roots
  <2>2. QED
    BY <1>1, <2>1 DEF SyncKnows
<1>5. Placement'
  <2>1. save.phase = "pages" => \A p \in save.left : Sendable(disk', save.copy, p)
    BY DEF Knows, Placement
  <2>2. QED
    BY <1>1, <2>1 DEF Overwrites, Placement, DocsInPlace, Sendable, Roots, OtherRoot
<1>6. AnswersLinked'
  BY <1>1 DEF Knows, AnswersLinked, Linked, IndexOf, Content
<1>7. QED
  BY <1>2, <1>3, <1>4, <1>5, <1>6 DEF Knows

LEMMA OthersKnowing == ASSUME TypeInv, SeenInv, Knows, Others PROVE Knows'
<1>1. DocsInPlace(disk) /\ disk \in Server
  BY DEF Knows, Placement, TypeInv
<1>2. CASE LoseEvent
  BY <1>2, QuietKnows DEF LoseEvent, books, Quiet, SaveGoesOn, SyncGoesOn, LooseGoesOn
<1>3. ASSUME NEW p \in Pages, OtherWritesPage(p) PROVE Knows'
  <2>1. OtherChanges /\ UNCHANGED unguarded
    BY <1>3 DEF OtherWritesPage
  <2>2. /\ Overwrites({p}) /\ disk'.place = disk.place /\ disk'.shell = disk.shell
        /\ \A q \in Pages, r \in Roots : q # p => disk'.doc[r][q] = disk.doc[r][q]
    BY <1>1, <1>3, PageOverwritten
  <2>3. disk'.stamp[Index] = disk.stamp[Index]
    BY <2>2, StampedSame, ConstantsAssumption DEF Overwrites, Docs
  <2>4. \A rv, seen : KnowsIndex(disk, rv, seen) => KnowsIndex(disk', rv, seen)
    BY <2>2, <2>3 DEF KnowsIndex, IndexOf
  <2>5. \A copy \in Copy : Succeeds(disk, copy) => Succeeds(disk', copy)
    BY <2>2, <2>3 DEF Succeeds
  <2>6. save.phase = "pages" =>
            \A q \in save.left : Sendable(disk, save.copy, q) => Sendable(disk', save.copy, q)
    <3>1. SUFFICES ASSUME save.phase = "pages", NEW q \in save.left,
                          Sendable(disk, save.copy, q)
                   PROVE  Sendable(disk', save.copy, q)
      OBVIOUS
    <3>2. q \in Pages /\ save.copy.place[q] \in Roots
      BY <3>1, PageSentType DEF Saving
    <3>3. OtherRoot(save.copy.place[q]) \in Roots
          /\ OtherRoot(save.copy.place[q]) # save.copy.place[q]
      BY <3>2 DEF Roots, OtherRoot
    <3>4. disk'.doc[OtherRoot(save.copy.place[q])][q] = Missing
      <4>1. CASE q # p
        BY <2>2, <3>1, <3>2, <3>3, <4>1 DEF Sendable
      <4>2. CASE q = p
        <5>1. disk.place[p] = save.copy.place[p]
          BY <1>3, <3>1, <4>2 DEF Sendable, OtherWritesPage
        <5>2. disk' = [disk EXCEPT !.doc[disk.place[p]][p] = turn + 1, !.stamp = Stamped({p})]
          BY <1>3 DEF OtherWritesPage
        <5>3. disk'.doc[OtherRoot(disk.place[p])][p] = disk.doc[OtherRoot(disk.place[p])][p]
          BY <1>1, <3>2, <3>3, <4>2, <5>1, <5>2 DEF Server
        <5>4. QED
          BY <3>1, <4>2, <5>1, <5>3 DEF Sendable
      <4>3. QED
        BY <4>1, <4>2
    <3>5. QED
      BY <2>2, <3>1, <3>4 DEF Sendable
  <2>7. QED
    BY <2>1, <2>2, <2>4, <2>5, <2>6, OthersKnow
<1>4. CASE OtherWritesIndex
  <2>1. OtherChanges /\ UNCHANGED unguarded
    BY <1>4 DEF OtherWritesIndex
  <2>2. /\ Overwrites({Index}) /\ disk'.place = disk.place /\ disk'.shell = turn + 1
        /\ disk'.doc = disk.doc
    BY <1>1, <1>4, IndexOverwritten
  <2>3. turn + 1 \notin ShellsMade
    BY <2>1, Fresh DEF OtherChanges
  <2>4. \A rv \in Revs : \A seen : KnowsIndex(disk', rv, seen)
    BY <2>2, <2>3 DEF KnowsIndex, IndexOf, Revs, Indexes
  <2>5. \A copy \in Copy : Succeeds(disk', copy)
    BY <2>2, <2>3 DEF Succeeds, Copy
  <2>6. save.phase = "pages" =>
            \A q \in save.left : Sendable(disk, save.copy, q) => Sendable(disk', save.copy, q)
    BY <2>2 DEF Sendable
  <2>7. KnowsIndex(disk', revs, tab.seen)
        /\ (save.phase = "index" => KnowsIndex(disk', save.revs, save.copy.seen))
    BY <2>4, RunFields DEF TypeInv, Saving
  <2>8. QED
    BY <2>1, <2>2, <2>5, <2>6, <2>7, OthersKnow
<1>5. ASSUME NEW p \in Pages, OtherDeletesPage(p) PROVE Knows'
  <2>1. OtherChanges /\ unguarded \subseteq unguarded'
        /\ (Index \notin unguarded' => IndexOf(disk') \notin HeldIndexes)
    BY <1>5 DEF OtherDeletesPage
  <2>2. /\ Overwrites({p, Index}) /\ disk'.shell = disk.shell
        /\ disk'.place = [disk.place EXCEPT ![p] = Nowhere]
        /\ \A q \in Pages, r \in Roots : q # p => disk'.doc[r][q] = disk.doc[r][q]
    BY <1>1, <1>5, PageDropped
  <2>3. /\ disk.place \in Rooted /\ disk.place[p] # Nowhere /\ disk'.place[p] = Nowhere
        /\ \A q \in Pages : q # p => disk'.place[q] = disk.place[q]
    BY <1>1, <1>5, <2>2 DEF Server, Rooted, OtherDeletesPage
  <2>4. Index \notin unguarded' =>
            /\ KnowsIndex(disk', revs, tab.seen)
            /\ save.phase = "index" => KnowsIndex(disk', save.revs, save.copy.seen)
    BY <2>1 DEF KnowsIndex, HeldIndexes
  <2>5. \A copy \in Copy : Succeeds(disk, copy) => Succeeds(disk', copy)
    BY <2>2, <2>3 DEF Succeeds
  <2>6. save.phase = "pages" =>
            \A q \in save.left : Sendable(disk, save.copy, q) => Sendable(disk', save.copy, q)
    <3>1. SUFFICES ASSUME save.phase = "pages", NEW q \in save.left,
                          Sendable(disk, save.copy, q)
                   PROVE  Sendable(disk', save.copy, q)
      OBVIOUS
    <3>2. q \in Pages /\ save.copy.place[q] \in Roots
      BY <3>1, PageSentType DEF Saving
    <3>3. OtherRoot(save.copy.place[q]) \in Roots
      BY <3>2 DEF Roots, OtherRoot
    <3>4. disk'.doc[OtherRoot(save.copy.place[q])][q] = Missing
      <4>1. CASE q # p
        BY <2>2, <3>1, <3>2, <3>3, <4>1 DEF Sendable
      <4>2. CASE q = p
        <5>1. disk' = [disk EXCEPT !.doc[disk.place[p]][p] = Missing, !.place[p] = Nowhere,
                                   !.stamp = Stamped({p, Index})]
          BY <1>5 DEF OtherDeletesPage
        <5>2. \A r \in Roots : disk'.doc[r][p] \in {Missing, disk.doc[r][p]}
          BY <1>1, <5>1, <2>3 DEF Server, Rooted
        <5>3. QED
          BY <3>1, <3>3, <4>2, <5>2 DEF Sendable
      <4>3. QED
        BY <4>1, <4>2
    <3>5. QED
      BY <2>3, <3>1, <3>2, <3>4 DEF Sendable
  <2>7. QED
    BY <2>1, <2>2, <2>4, <2>5, <2>6, OthersKnow
<1>6. QED
  BY <1>2, <1>3, <1>4, <1>5 DEF Others

-----------------------------------------------------------------------------
(* The requests of a save that the server takes.                           *)

LEMMA SavingIsStale ==
    ASSUME FlagsInv, Saving
    PROVE  sync.phase = "asked" => sync.stale
BY DEF FlagsInv

LEMMA RewrittenDisk ==
    ASSUME TypeInv, DocsInPlace(disk), NEW copy \in Copy
    PROVE  /\ Rewritten(copy).place = copy.place /\ Rewritten(copy).shell = copy.shell
           /\ Rewritten(copy).stamp = disk.stamp
           /\ \A r \in Roots, p \in Pages : Rewritten(copy).doc[r][p] =
                  IF copy.place[p] # r THEN Missing
                  ELSE IF disk.doc[r][p] # Missing THEN disk.doc[r][p]
                  ELSE disk.doc[OtherRoot(r)][p]
           /\ DocsInPlace(Rewritten(copy))
           /\ \A p \in Pages : copy.place[p] # Nowhere => Sendable(Rewritten(copy), copy, p)
<1>1. disk \in Server /\ copy.place \in Rooted
  BY DEF TypeInv, Copy
<1>2. /\ Rewritten(copy).place = copy.place /\ Rewritten(copy).shell = copy.shell
      /\ Rewritten(copy).stamp = disk.stamp
      /\ \A r \in Roots, p \in Pages : Rewritten(copy).doc[r][p] =
             IF copy.place[p] # r THEN Missing
             ELSE IF disk.doc[r][p] # Missing THEN disk.doc[r][p]
             ELSE disk.doc[OtherRoot(r)][p]
  BY <1>1 DEF Server, Rewritten
<1>3. \A r \in Roots : OtherRoot(r) \in Roots /\ OtherRoot(r) # r
  BY DEF Roots, OtherRoot
<1>4. DocsInPlace(Rewritten(copy))
  <2>1. SUFFICES ASSUME NEW p \in Pages, NEW r \in Roots, Rewritten(copy).doc[r][p] # Missing
                 PROVE  /\ Rewritten(copy).place[p] \in {r, Nowhere}
                        /\ Rewritten(copy).doc[OtherRoot(r)][p] = Missing
    BY DEF DocsInPlace
  <2>2. copy.place[p] = r
    BY <1>2, <2>1
  <2>3. QED
    BY <1>2, <1>3, <2>2
<1>5. \A p \in Pages : copy.place[p] # Nowhere => Sendable(Rewritten(copy), copy, p)
  <2>1. \A p \in Pages : copy.place[p] # Nowhere => copy.place[p] \in Roots
    BY <1>1 DEF Rooted
  <2>2. QED
    BY <1>2, <1>3, <2>1 DEF Sendable
<1>6. QED
  BY <1>2, <1>4, <1>5

(* What the rewriting keeps it keeps as it was.                            *)
LEMMA RewrittenKnows ==
    ASSUME TypeInv, DocsInPlace(disk), NEW copy \in Copy, NEW rv, NEW seen, NEW p \in Pages,
           KnowsPage(disk, rv, seen, p)
    PROVE  KnowsPage(Rewritten(copy), rv, seen, p)
<1>1. \A r \in Roots : OtherRoot(r) \in Roots
  BY DEF Roots, OtherRoot
<1>2. SUFFICES ASSUME NEW r \in Roots, rv.page[p] # Missing,
                      rv.page[p] = Rewritten(copy).doc[r][p]
               PROVE  seen[p] = disk.stamp[p]
  BY RewrittenDisk DEF KnowsPage
<1>3. rv.page[p] = disk.doc[r][p] \/ rv.page[p] = disk.doc[OtherRoot(r)][p]
  BY <1>2, RewrittenDisk
<1>4. QED
  BY <1>1, <1>2, <1>3 DEF KnowsPage

(* The index is written, and the answer arrives or does not.               *)
LEMMA PutIndexKnows ==
    ASSUME TypeInv, FlagsInv, Knows, NEW out \in {"ok", "lost"}, PutIndex(out)
    PROVE  Knows'
<1>1. /\ Saving /\ save.phase = "index" /\ out # "failed"
      /\ save.revs.index = IndexOf(disk)
      /\ UNCHANGED <<tab, sync, loose, unguarded>>
  BY DEF PutIndex, Saving, IndexRefused, SaveKeeps
<1>2. save \in SaveFields /\ save.copy \in Copy /\ DocsInPlace(disk) /\ disk \in Server
  BY <1>1, RunFields DEF Knows, Placement, TypeInv
<1>3. disk' = Rewritten(save.copy)
  BY <1>1 DEF PutIndex
<1>4. disk'.stamp = disk.stamp /\ DocsInPlace(disk')
  BY <1>2, <1>3, RewrittenDisk
<1>5. Index \notin unguarded => tab.seen[Index] = disk.stamp[Index]
  BY <1>1 DEF Knows, SaveKnows, KnowsIndex, Docs
<1>6. revs'.page = revs.page
  BY <1>1, <1>2 DEF PutIndex, TypeInv, Revs
<1>7. TabKnows'
  <2>1. \A p \in Pages \ unguarded : KnowsPage(disk', revs', tab.seen, p)
    <3>1. \A p \in Pages \ unguarded : KnowsPage(disk', revs, tab.seen, p)
      BY <1>2, <1>3, RewrittenKnows DEF Knows, TabKnows
    <3>2. QED
      BY <1>6, <3>1 DEF KnowsPage
  <2>2. Index \notin unguarded => KnowsIndex(disk', revs', tab.seen)
    BY <1>4, <1>5 DEF KnowsIndex
  <2>3. QED
    BY <1>1, <2>1, <2>2 DEF TabKnows, KnowsPage, KnowsIndex, IndexOf, Roots
<1>8. /\ save'.phase # "index"
      /\ save'.phase = "idle" \/
           /\ save'.copy = save.copy /\ save'.revs = save.revs
           /\ save'.left = save.want \cap InTree(save.copy)
  <2>1. CASE out = "ok"
    <3>1. save' = [save EXCEPT !.phase = "pages", !.loaded = loaded,
                               !.left = save.want \cap InTree(save.copy)]
      BY <2>1 DEF PutIndex
    <3>2. QED
      BY <1>2, <3>1 DEF SaveFields
  <2>2. CASE out # "ok"
    BY <2>2 DEF PutIndex, NoSave
  <2>3. QED
    BY <2>1, <2>2
<1>9. SaveKnows'
  <2>1. CASE save'.phase = "idle"
    BY <2>1 DEF SaveKnows, Saving
  <2>2. CASE save'.phase # "idle"
    <3>1. \A d \in Docs \ unguarded : save'.copy.seen[d] = tab.seen[d]
      BY <1>1, <1>8, <2>2 DEF Knows, SaveKnows
    <3>2. save'.left \subseteq Pages
      BY <1>2, <1>8, <2>2 DEF SaveFields
    <3>3. \A p \in save'.left \ unguarded : KnowsPage(disk', save'.revs, save'.copy.seen, p)
      BY <1>1, <1>2, <1>3, <1>8, <2>2, <3>2, RewrittenKnows DEF Knows, SaveKnows
    <3>4. QED
      BY <1>1, <1>8, <3>1, <3>3 DEF SaveKnows, Saving, KnowsPage, Roots, Docs
  <2>3. QED
    BY <2>1, <2>2
<1>10. SyncKnows'
  BY <1>1, SavingIsStale DEF SyncKnows
<1>11. Placement'
  <2>1. save'.phase = "pages" => \A p \in save'.left : Sendable(disk', save'.copy, p)
    BY <1>2, <1>3, <1>8, RewrittenDisk DEF InTree
  <2>2. QED
    BY <1>4, <2>1 DEF Placement, DocsInPlace, Sendable, Roots, OtherRoot
<1>12. AnswersLinked'
  BY <1>1 DEF Knows, AnswersLinked, Linked, IndexOf, Content
<1>13. QED
  BY <1>7, <1>9, <1>10, <1>11, <1>12 DEF Knows

(* A page is written.                                                      *)
LEMMA PutPageKnows ==
    ASSUME TypeInv, FlagsInv, Knows, NEW p \in Pages, NEW out \in {"ok", "lost"},
           PutPage(p, out)
    PROVE  Knows'
<1> DEFINE root == save.copy.place[p]
<1>1. /\ Saving /\ save.phase = "pages" /\ p \in save.left /\ out # "failed"
      /\ save.revs.page[p] = disk.doc[root][p]
      /\ UNCHANGED <<tab, sync, loose>> /\ unguarded \subseteq unguarded'
      /\ p \in unguarded' \/ save.revs.page[p] # Missing \/ save.copy.seen[p] = disk.stamp[p]
      /\ Index \in unguarded' <=> Index \in unguarded
  BY ConstantsAssumption DEF PutPage, Saving, PageRefused, SaveKeeps
<1>2. /\ save \in SaveFields /\ save.copy \in Copy /\ save.revs \in Revs
      /\ save.left \subseteq Pages /\ DocsInPlace(disk) /\ disk \in Server
      /\ root \in Roots /\ PageSent(p) \in Made /\ p \in Docs
  BY <1>1, RunFields, PageSentType DEF Knows, Placement, TypeInv, Docs
<1>3. disk' = [disk EXCEPT !.doc[root][p] = PageSent(p)]
  BY <1>1 DEF PutPage
<1>4. /\ disk'.stamp = disk.stamp /\ disk'.place = disk.place /\ disk'.shell = disk.shell
      /\ \A r \in Roots, q \in Pages : disk'.doc[r][q] =
             IF r = root /\ q = p THEN PageSent(p) ELSE disk.doc[r][q]
  BY <1>2, <1>3 DEF Server
<1>5. \A r \in Roots : OtherRoot(r) \in Roots /\ OtherRoot(r) # r /\
                       (r # root => r = OtherRoot(root))
  BY <1>2 DEF Roots, OtherRoot
<1>6. disk.place[p] \in {root, Nowhere} /\ disk.doc[OtherRoot(root)][p] = Missing
  BY <1>1 DEF Knows, Placement, Sendable
<1>7. p \notin unguarded' => save.copy.seen[p] = disk.stamp[p] /\ tab.seen[p] = disk.stamp[p]
  BY <1>1, <1>2 DEF Knows, SaveKnows, KnowsPage
<1>8. \A q \in Pages \ {p} : revs'.page[q] = revs.page[q]
  BY <1>1, <1>2 DEF PutPage, TypeInv, Revs
<1>9. revs'.index = revs.index
  BY <1>1, <1>2 DEF PutPage, TypeInv, Revs
<1>10. ASSUME NEW rv, NEW seen, NEW q \in Pages, q # p, KnowsPage(disk, rv, seen, q)
       PROVE  KnowsPage(disk', rv, seen, q)
  BY <1>4, <1>10 DEF KnowsPage
<1>11. TabKnows'
  <2>1. \A q \in Pages \ unguarded' : KnowsPage(disk', revs', tab.seen, q)
    <3>1. ASSUME NEW q \in Pages \ unguarded', q # p PROVE KnowsPage(disk', revs', tab.seen, q)
      <4>1. KnowsPage(disk', revs, tab.seen, q)
        BY <1>1, <1>10, <3>1 DEF Knows, TabKnows
      <4>2. QED
        BY <1>8, <3>1, <4>1 DEF KnowsPage
    <3>2. p \notin unguarded' => KnowsPage(disk', revs', tab.seen, p)
      BY <1>4, <1>7 DEF KnowsPage
    <3>3. QED
      BY <3>1, <3>2
  <2>2. Index \notin unguarded' => KnowsIndex(disk', revs', tab.seen)
    BY <1>1, <1>4, <1>9 DEF Knows, TabKnows, KnowsIndex, IndexOf
  <2>3. QED
    BY <1>1, <2>1, <2>2 DEF TabKnows, KnowsPage, KnowsIndex, IndexOf, Roots
<1>12. /\ save'.phase = "pages" /\ save'.copy = save.copy /\ save'.revs = save.revs
       /\ save'.left = save.left \ {p}
  <2>1. CASE out = "ok"
    BY <1>1, <1>2, <2>1 DEF PutPage, SaveFields
  <2>2. CASE out # "ok"
    BY <1>1, <1>2, <2>2 DEF PutPage, SaveFields
  <2>3. QED
    BY <2>1, <2>2
<1>13. SaveKnows'
  <2>1. \A d \in Docs \ unguarded' : save'.copy.seen[d] = tab.seen[d]
    BY <1>1, <1>12 DEF Knows, SaveKnows
  <2>2. \A q \in save'.left \ unguarded' : KnowsPage(disk', save'.revs, save'.copy.seen, q)
    <3>1. SUFFICES ASSUME NEW q \in save'.left \ unguarded'
                   PROVE  KnowsPage(disk', save'.revs, save'.copy.seen, q)
      OBVIOUS
    <3>2. q \in save.left \ unguarded /\ q # p /\ q \in Pages
      BY <1>1, <1>2, <1>12, <3>1
    <3>3. KnowsPage(disk, save.revs, save.copy.seen, q)
      BY <1>1, <3>2 DEF Knows, SaveKnows
    <3>4. QED
      BY <1>10, <1>12, <3>2, <3>3
  <2>3. QED
    BY <1>1, <1>12, <2>1, <2>2 DEF SaveKnows, Saving, KnowsPage, Roots, Docs
<1>14. SyncKnows'
  BY <1>1, SavingIsStale DEF SyncKnows
<1>15. Placement'
  <2>1. DocsInPlace(disk')
    BY <1>4, <1>5, <1>6 DEF Knows, Placement, DocsInPlace
  <2>2. \A q \in save'.left : Sendable(disk', save'.copy, q)
    <3>1. SUFFICES ASSUME NEW q \in save.left, q # p PROVE Sendable(disk', save.copy, q)
      BY <1>12
    <3>2. q \in Pages /\ OtherRoot(save.copy.place[q]) \in Roots
      BY <1>1, <1>5, PageSentType
    <3>3. QED
      BY <1>1, <1>4, <3>1, <3>2 DEF Knows, Placement, Sendable
  <2>3. QED
    BY <2>1, <2>2 DEF Placement, DocsInPlace, Sendable, Roots, OtherRoot
<1>16. AnswersLinked'
  BY <1>1 DEF Knows, AnswersLinked, Linked, IndexOf, Content
<1>17. QED
  BY <1>11, <1>13, <1>14, <1>15, <1>16 DEF Knows

LEMMA SavesKnowing == ASSUME TypeInv, FlagsInv, Knows, Saves PROVE Knows'
<1>1. CASE Save
  <2>1. /\ UNCHANGED <<disk, revs, tab, sync, loose, unguarded>>
        /\ save'.phase = "index" /\ save'.copy = tab /\ save'.revs = revs
    BY <1>1 DEF Save, books, ghosts
  <2>2. SaveKnows'
    <3>1. /\ Index \notin unguarded => KnowsIndex(disk, save'.revs, save'.copy.seen)
          /\ \A p \in Pages \ unguarded : KnowsPage(disk, save'.revs, save'.copy.seen, p)
      BY <2>1 DEF Knows, TabKnows
    <3>2. QED
      BY <2>1, <3>1 DEF SaveKnows, Docs, KnowsIndex, KnowsPage, IndexOf, Roots
  <2>3. TabKnows'
    BY <2>1 DEF Knows, TabKnows, KnowsIndex, KnowsPage, IndexOf, Roots
  <2>4. SyncKnows' /\ AnswersLinked'
    BY <2>1 DEF Knows, SyncKnows, Answered, Succeeds, KnowsPage, Roots, AnswersLinked, Linked,
                IndexOf, Content
  <2>5. Placement'
    BY <2>1 DEF Knows, Placement, DocsInPlace, Roots, OtherRoot
  <2>6. QED
    BY <2>2, <2>3, <2>4, <2>5 DEF Knows
<1>2. ASSUME NEW out \in {"ok", "failed", "lost"}, PutIndex(out) PROVE Knows'
  <2>1. CASE out = "failed"
    BY <1>2, <2>1, SavesAreQuiet, QuietKnows
  <2>2. CASE out # "failed"
    BY <1>2, <2>2, PutIndexKnows
  <2>3. QED
    BY <2>1, <2>2
<1>3. ASSUME NEW p \in Pages, NEW out \in {"ok", "failed", "lost"}, PutPage(p, out)
      PROVE  Knows'
  <2>1. CASE out = "failed"
    BY <1>3, <2>1, SavesAreQuiet, QuietKnows
  <2>2. CASE out # "failed"
    BY <1>3, <2>2, PutPageKnows
  <2>3. QED
    BY <2>1, <2>2
<1>4. QED
  BY <1>1, <1>2, <1>3, SavesAreQuiet, QuietKnows DEF Saves

-----------------------------------------------------------------------------
(* What comes into the tab with its revisions.                             *)

LEMMA PageReloadKnows == ASSUME TypeInv, Knows, PageReload PROVE Knows'
<1>1. disk \in Server /\ DocsInPlace(disk)
  BY DEF TypeInv, Knows, Placement
<1>2. /\ UNCHANGED disk /\ tab' = Answer.copy /\ revs' = Answer.revs
      /\ save' = NoSave /\ sync' = NoFetch /\ loose' = NoFetch
  BY DEF PageReload
<1>3. /\ KnowsIndex(disk, Answer.revs, Answer.copy.seen) /\ Answered(disk, Answer)
  BY <1>1, AnswerKnows
<1>4. /\ KnowsIndex(disk', revs', tab'.seen)
      /\ \A p \in Pages : KnowsPage(disk', revs', tab'.seen, p)
  BY <1>2, <1>3 DEF Answered
<1>5. TabKnows'
  BY <1>4 DEF TabKnows, KnowsPage, KnowsIndex, IndexOf, Roots
<1>6. SaveKnows' /\ SyncKnows' /\ AnswersLinked'
  BY <1>2 DEF SaveKnows, SyncKnows, AnswersLinked, Saving, NoSave, NoFetch
<1>7. Placement'
  BY <1>1, <1>2, PlacementOn DEF Knows, SaveGoesOn
<1>8. QED
  BY <1>5, <1>6, <1>7 DEF Knows

LEMMA SyncAnswersKnows ==
    ASSUME TypeInv, FlagsInv, Knows, SyncAnswers, ~sync.stale
    PROVE  Knows'
<1>1. disk \in Server /\ DocsInPlace(disk) /\ ~dirty /\ ~Saving
  BY DEF TypeInv, Knows, Placement, FlagsInv, SyncAnswers
<1>2. /\ UNCHANGED <<disk, save, loose>>
      /\ tab' = sync.answer.copy /\ revs' = sync.answer.revs
  BY DEF SyncAnswers, Load
<1>3. Answered(disk, sync.answer) /\ Linked(sync.answer)
  BY DEF Knows, SyncKnows, AnswersLinked, SyncAnswers
<1>4. KnowsIndex(disk', revs', tab'.seen)
  BY <1>2, <1>3 DEF Answered, Succeeds, Linked, KnowsIndex, IndexOf
<1>5. \A p \in Pages : KnowsPage(disk', revs', tab'.seen, p)
  BY <1>2, <1>3 DEF Answered
<1>6. TabKnows'
  BY <1>4, <1>5 DEF TabKnows, KnowsPage, KnowsIndex, IndexOf, Roots
<1>7. SaveKnows'
  BY <1>1, <1>2 DEF SaveKnows, Saving
<1>8. SyncGoesOn /\ SaveGoesOn /\ LooseGoesOn
  <2>1. PassOver(sync.applied /\ ~sync.stale)
    BY DEF SyncAnswers
  <2>2. SyncGoesOn
    BY <2>1 DEF PassOver, SyncGoesOn
  <2>3. QED
    BY <1>2, <2>2 DEF SaveGoesOn, LooseGoesOn
<1>9. QED
  BY <1>1, <1>2, <1>6, <1>7, <1>8, SyncKnowsOn, LinkedOn, PlacementOn DEF Knows

LEMMA MountAnswersKnows ==
    ASSUME TypeInv, Knows, MountAnswers
    PROVE  Knows'
<1> DEFINE answer == loose.answer
<1>1. disk \in Server /\ DocsInPlace(disk)
  BY DEF TypeInv, Knows, Placement
<1>2. /\ UNCHANGED <<disk, save, sync>>
      /\ tab' = answer.copy /\ revs' = answer.revs /\ loose' = NoFetch
      /\ unguarded \subseteq unguarded'
      /\ \A d \in Docs \ unguarded' :
             /\ answer.copy.seen[d] = tab.seen[d]
             /\ Content(answer.copy, d) = OnDisk(d) => answer.copy.seen[d] = disk.stamp[d]
  BY DEF MountAnswers, Load
<1>3. Linked(answer)
  BY DEF Knows, AnswersLinked, MountAnswers
<1>4. Index \notin unguarded' => KnowsIndex(disk', revs', tab'.seen)
  BY <1>2, <1>3 DEF Linked, KnowsIndex, Content, OnDisk, Docs
<1>5. \A p \in Pages \ unguarded' : KnowsPage(disk', revs', tab'.seen, p)
  <2>1. SUFFICES ASSUME NEW p \in Pages \ unguarded', NEW r \in Roots,
                        answer.revs.page[p] # Missing, answer.revs.page[p] = disk.doc[r][p]
                 PROVE  answer.copy.seen[p] = disk.stamp[p]
    BY <1>2 DEF KnowsPage
  <2>2. Content(answer.copy, p) = disk.doc[r][p]
    BY <1>3, <2>1 DEF Linked
  <2>3. Document(disk, p) = disk.doc[r][p]
    BY <1>1, <2>1, OneDocument
  <2>4. p \in Docs /\ p # Index
    BY ConstantsAssumption DEF Docs
  <2>5. QED
    BY <1>2, <2>1, <2>2, <2>3, <2>4 DEF OnDisk
<1>6. TabKnows'
  BY <1>4, <1>5 DEF TabKnows, KnowsPage, KnowsIndex, IndexOf, Roots
<1>7. SaveGoesOn /\ SyncGoesOn /\ LooseGoesOn
  BY <1>2 DEF SaveGoesOn, SyncGoesOn, LooseGoesOn, NoFetch
<1>8. \A d \in Docs \ unguarded' : tab'.seen[d] = tab.seen[d]
  BY <1>2
<1>9. QED
  BY <1>1, <1>2, <1>6, <1>7, <1>8, SaveKnowsOn, PlacementOn, SyncKnowsOn, LinkedOn DEF Knows

LEMMA KnowsStep == ASSUME KnowingInv, [Next]_vars PROVE Knows'
<1>1. TypeInv /\ FlagsInv /\ SeenInv /\ Knows
  BY DEF KnowingInv, TypedSeen, TypedFlags
<1>2. CASE Author
  BY <1>1, <1>2, PageReloadKnows, AuthorIsQuiet, QuietKnows
<1>3. CASE Saves
  BY <1>1, <1>3, SavesKnowing
<1>4. CASE Others
  BY <1>1, <1>4, OthersKnowing
<1>5. CASE Fetches
  BY <1>1, <1>5, SyncAnswersKnows, MountAnswersKnows, FetchesAreQuiet, QuietKnows
<1>6. CASE UNCHANGED vars
  BY <1>1, <1>6, QuietKnows
     DEF vars, books, ghosts, Quiet, SaveGoesOn, SyncGoesOn, LooseGoesOn
<1>7. QED
  BY <1>2, <1>3, <1>4, <1>5, <1>6 DEF Next

LEMMA InitKnows == ASSUME Init PROVE Knows
<1>1. disk \in Server
  BY InitType DEF TypeInv
<1>2. PICK body \in [Pages -> {Empty} \cup Bodies], shell \in Shells :
        disk = [place |-> [p \in Pages |-> "pages"], shell |-> shell,
                doc |-> [r \in Roots |-> [p \in Pages |->
                            IF r = "pages" THEN body[p] ELSE Missing]],
                stamp |-> [d \in Docs |-> 0]]
  BY DEF Init
<1>3. DocsInPlace(disk)
  <2>1. \A p \in Pages, r \in Roots : /\ disk.place[p] = "pages"
                                      /\ disk.doc[r][p] = IF r = "pages" THEN body[p] ELSE Missing
    BY <1>2
  <2>2. OtherRoot("pages") \in Roots /\ OtherRoot("pages") # "pages"
    BY DEF Roots, OtherRoot
  <2>3. QED
    BY <2>1, <2>2 DEF DocsInPlace
<1>4. /\ tab = Answer.copy /\ revs = Answer.revs
      /\ save = NoSave /\ sync = NoFetch /\ loose = NoFetch
  BY DEF Init
<1>5. TabKnows
  BY <1>1, <1>3, <1>4, AnswerKnows DEF TabKnows, Answered
<1>6. SaveKnows /\ SyncKnows /\ AnswersLinked
  BY <1>4 DEF SaveKnows, SyncKnows, AnswersLinked, Saving, NoSave, NoFetch
<1>7. Placement
  BY <1>3, <1>4 DEF Placement, NoSave
<1>8. QED
  BY <1>5, <1>6, <1>7 DEF Knows

LEMMA KnowingAlways == Spec => []KnowingInv
<1>1. Init => KnowingInv
  <2>1. ASSUME Init PROVE FlagsInv /\ SeenInv
    BY <2>1 DEF Init, FlagsInv, Saving, NoSave, NoFetch, SeenInv
  <2>2. QED
    BY <2>1, InitType, InitKnows DEF KnowingInv, TypedSeen, TypedFlags
<1>2. KnowingInv /\ [Next]_vars => KnowingInv'
  BY TypeStep, FlagsStep, SeenStep, KnowsStep DEF KnowingInv, TypedSeen, TypedFlags
<1>3. QED
  BY <1>1, <1>2, PTL DEF Spec

-----------------------------------------------------------------------------
(* The shared document.  Of what the tab writes over, the save has seen    *)
(* every change.                                                           *)

LEMMA OnDiskSame ==
    ASSUME DocsInPlace(disk), DocsInPlace(disk'), NEW p \in Pages,
           \A r \in Roots : disk'.doc[r][p] = disk.doc[r][p]
    PROVE  Document(disk', p) = Document(disk, p)
<1>1. CASE \E r \in Roots : disk.doc[r][p] # Missing
  BY <1>1, OneDocument
<1>2. CASE \A r \in Roots : disk.doc[r][p] = Missing
  BY <1>2, OneDocument
<1>3. QED
  BY <1>1, <1>2

LEMMA IndexWriteIsShared ==
    ASSUME TypeInv, Knows, NEW out, PutIndex(out), out # "failed"
    PROVE  Shared!TabWrites
<1>1. /\ Saving /\ save.phase = "index" /\ save.revs.index = IndexOf(disk)
      /\ disk' = Rewritten(save.copy) /\ save.copy \in Copy
      /\ disk \in Server /\ DocsInPlace(disk)
  BY RunFields DEF PutIndex, Saving, IndexRefused, TypeInv, Knows, Placement
<1>2. Index \in unguarded \/ save.copy.seen[Index] = disk.stamp[Index]
  BY <1>1 DEF Knows, SaveKnows, KnowsIndex
<1>3. disk'.stamp = disk.stamp /\ DocsInPlace(disk')
  BY <1>1, RewrittenDisk
<1>4. ASSUME NEW p \in Pages, Document(disk', p) # Document(disk, p)
      PROVE  Document(disk', p) = Missing
  <2>1. SUFFICES ASSUME NEW r \in Roots, disk'.doc[r][p] # Missing PROVE FALSE
    BY <1>3, OneDocument
  <2>2. /\ disk'.doc[r][p] = IF disk.doc[r][p] # Missing THEN disk.doc[r][p]
                             ELSE disk.doc[OtherRoot(r)][p]
        /\ OtherRoot(r) \in Roots
    BY <1>1, <2>1, RewrittenDisk DEF Roots, OtherRoot
  <2>3. Document(disk', p) = disk'.doc[r][p]
    BY <1>3, <2>1, OneDocument
  <2>4. Document(disk, p) = disk'.doc[r][p]
    BY <1>1, <2>1, <2>2, OneDocument
  <2>5. QED
    BY <1>4, <2>3, <2>4
<1>5. ASSUME NEW d \in Docs, OnDisk(d)' # OnDisk(d) PROVE Shared!TabMayWrite(d)
  <2>1. CASE d = Index
    BY <1>1, <1>2, <2>1 DEF Shared!TabMayWrite
  <2>2. CASE d # Index
    <3>1. d \in Pages /\ OnDisk(d)' = Document(disk', d) /\ OnDisk(d) = Document(disk, d)
      BY <2>2 DEF Docs, OnDisk, Document, Roots
    <3>2. OnDisk(d)' = Missing
      BY <1>4, <1>5, <3>1
    <3>3. QED
      BY <1>1, <1>2, <3>2 DEF Shared!TabMayWrite, Docs
  <2>3. QED
    BY <2>1, <2>2
<1>6. QED
  BY <1>3, <1>5 DEF Shared!TabWrites, Docs

LEMMA PageWriteIsShared ==
    ASSUME TypeInv, FlagsInv, Knows, NEW p \in Pages, NEW out \in {"ok", "lost"},
           PutPage(p, out)
    PROVE  Shared!TabWrites
<1> DEFINE root == save.copy.place[p]
<1>1. /\ Saving /\ save.phase = "pages" /\ p \in save.left
      /\ save.revs.page[p] = disk.doc[root][p]
      /\ disk' = [disk EXCEPT !.doc[root][p] = PageSent(p)]
  BY DEF PutPage, Saving, PageRefused
<1>2. /\ disk \in Server /\ DocsInPlace(disk) /\ root \in Roots
      /\ save.copy.place[p] \in Roots
  BY <1>1, PageSentType DEF TypeInv, Knows, Placement
<1>3. DocsInPlace(disk') /\ disk'.stamp = disk.stamp /\ IndexOf(disk') = IndexOf(disk)
  <2>1. Knows'
    BY PutPageKnows
  <2>2. DocsInPlace(disk')
    BY <2>1 DEF Knows, Placement, DocsInPlace, Roots, OtherRoot
  <2>3. QED
    BY <1>1, <1>2, <2>2 DEF Server, IndexOf
<1>4. \A q \in Pages \ {p}, r \in Roots : disk'.doc[r][q] = disk.doc[r][q]
  BY <1>1, <1>2 DEF Server
<1>5. \A q \in Pages \ {p} : Document(disk', q) = Document(disk, q)
  BY <1>2, <1>3, <1>4, OnDiskSame
<1>6. ASSUME NEW d \in Docs, OnDisk(d)' # OnDisk(d) PROVE d = p /\ d # Index
  BY <1>3, <1>5, <1>6 DEF Docs, OnDisk, Document, Roots, IndexOf
<1>7. CASE save.revs.page[p] # Missing
  <2>1. p \in unguarded \/ save.copy.seen[p] = disk.stamp[p]
    BY <1>1, <1>2, <1>7 DEF Knows, SaveKnows, KnowsPage
  <2>2. QED
    BY <1>1, <1>3, <1>6, <2>1 DEF Shared!TabWrites, Shared!TabMayWrite
<1>8. CASE save.revs.page[p] = Missing
  <2>1. disk.doc[root][p] = Missing /\ disk.doc[OtherRoot(root)][p] = Missing
    BY <1>1, <1>8 DEF Knows, Placement, Sendable
  <2>2. \A r \in Roots : disk.doc[r][p] = Missing
    BY <1>2, <2>1 DEF Roots, OtherRoot
  <2>3. Document(disk, p) = Missing
    BY <1>2, <2>2, OneDocument
  <2>4. QED
    BY <1>3, <1>6, <2>3 DEF Shared!TabWrites, Shared!TabMayWrite, OnDisk
<1>9. QED
  BY <1>7, <1>8

LEMMA DiskKeptIsShared == ASSUME UNCHANGED disk PROVE Shared!TabWrites
<1>1. \A d \in Docs : OnDisk(d)' = OnDisk(d)
  BY DEF OnDisk, Document, IndexOf, Roots
<1>2. QED
  BY <1>1 DEF Shared!TabWrites, Docs

LEMMA OthersAreShared ==
    ASSUME TypeInv, Knows, OtherChanges, NEW touched \in SUBSET Docs, touched # {},
           Overwrites(touched), unguarded \subseteq unguarded',
           Index \notin touched => IndexOf(disk') = IndexOf(disk)
    PROVE  Shared!OtherWrites
<1>1. DocsInPlace(disk) /\ DocsInPlace(disk') /\ UNCHANGED <<tab, save>>
  BY DEF Knows, Placement, Overwrites, OtherChanges
<1>2. disk'.stamp = [d \in Docs |-> disk.stamp[d] + (IF d \in touched THEN 1 ELSE 0)]
  BY DEF Overwrites, Stamped
<1>3. \A p \in Pages \ touched : Document(disk', p) = Document(disk, p)
  BY <1>1, OnDiskSame DEF Overwrites
<1>4. \A d \in Docs \ touched : OnDisk(d)' = OnDisk(d)
  BY <1>3 DEF Docs, OnDisk, Document, Roots, IndexOf
<1>5. UNCHANGED (IF Saving THEN save.copy.seen ELSE tab.seen)
  BY <1>1 DEF Saving
<1>6. QED
  BY <1>2, <1>4, <1>5 DEF Shared!OtherWrites, Docs

LEMMA StepIsShared == ASSUME KnowingInv, [Next]_vars PROVE Shared!Next \/ UNCHANGED Shared!vars
<1>1. TypeInv /\ FlagsInv /\ SeenInv /\ Knows /\ DocsInPlace(disk)
  BY DEF KnowingInv, TypedSeen, TypedFlags, Knows, Placement
<1>2. CASE UNCHANGED disk
  BY <1>2, DiskKeptIsShared DEF Shared!Next
<1>3. CASE Author \/ Fetches \/ UNCHANGED vars
  <2>1. UNCHANGED disk
    <3>1. CASE Author
      <4>1. CASE PageReload
        BY <4>1 DEF PageReload
      <4>2. CASE ~PageReload
        BY <1>1, <3>1, <4>2, AuthorIsQuiet DEF Quiet
      <4>3. QED
        BY <4>1, <4>2
    <3>2. CASE Fetches
      <4>1. CASE MountAnswers \/ SyncAnswers
        BY <4>1 DEF MountAnswers, SyncAnswers
      <4>2. CASE ~MountAnswers /\ ~SyncAnswers
        BY <1>1, <3>2, <4>2, FetchesAreQuiet DEF Quiet
      <4>3. QED
        BY <4>1, <4>2
    <3>3. QED
      BY <1>3, <3>1, <3>2 DEF vars
  <2>2. QED
    BY <1>2, <2>1
<1>4. CASE Saves
  <2>1. ASSUME NEW out \in {"ok", "failed", "lost"}, PutIndex(out), disk' # disk
        PROVE  Shared!TabWrites
    <3>1. out # "failed"
      BY <2>1 DEF PutIndex
    <3>2. QED
      BY <1>1, <2>1, <3>1, IndexWriteIsShared
  <2>2. ASSUME NEW p \in Pages, NEW out \in {"ok", "failed", "lost"}, PutPage(p, out),
               disk' # disk
        PROVE  Shared!TabWrites
    <3>1. out # "failed"
      BY <2>2 DEF PutPage
    <3>2. QED
      BY <1>1, <2>2, <3>1, PageWriteIsShared
  <2>3. CASE Save
    BY <1>2, <2>3 DEF Save
  <2>4. CASE \/ PutIndexRefused \/ PagesDone
             \/ \E p \in Pages : PutPageRefused(p)
             \/ \E works \in BOOLEAN : RestDone(works)
    BY <1>1, <1>2, <2>4, SavesAreQuiet DEF Quiet
  <2>5. QED
    BY <1>2, <1>4, <2>1, <2>2, <2>3, <2>4 DEF Saves, Shared!Next
<1>5. CASE Others
  <2>1. CASE LoseEvent
    BY <1>2, <2>1 DEF LoseEvent
  <2>2. ASSUME NEW p \in Pages, OtherWritesPage(p) PROVE Shared!OtherWrites
    <3>1. OtherChanges /\ UNCHANGED unguarded /\ {p} \in SUBSET Docs /\ {p} # {}
      BY <2>2 DEF OtherWritesPage, Docs
    <3>2. Overwrites({p}) /\ IndexOf(disk') = IndexOf(disk)
      BY <1>1, <2>2, PageOverwritten DEF IndexOf
    <3>3. QED
      BY <1>1, <3>1, <3>2, OthersAreShared
  <2>3. CASE OtherWritesIndex
    <3>1. /\ OtherChanges /\ UNCHANGED unguarded /\ {Index} \in SUBSET Docs /\ {Index} # {}
          /\ Overwrites({Index})
      BY <1>1, <2>3, IndexOverwritten DEF OtherWritesIndex, Docs
    <3>2. QED
      BY <1>1, <3>1, OthersAreShared DEF Shared!Next
  <2>4. ASSUME NEW p \in Pages, OtherDeletesPage(p) PROVE Shared!OtherWrites
    <3>1. /\ OtherChanges /\ unguarded \subseteq unguarded'
          /\ {p, Index} \in SUBSET Docs /\ {p, Index} # {}
      BY <2>4 DEF OtherDeletesPage, Docs
    <3>2. Overwrites({p, Index})
      BY <1>1, <2>4, PageDropped
    <3>3. QED
      BY <1>1, <3>1, <3>2, OthersAreShared
  <2>5. QED
    BY <1>5, <2>1, <2>2, <2>3, <2>4 DEF Others, Shared!Next
<1>6. QED
  BY <1>3, <1>4, <1>5 DEF Next

(* The revisions keep the tab from replacing another writer's change that  *)
(* its copy does not reflect, however many writers, edits, lost answers    *)
(* and reloads there are (api/config_api.py, put_config and put_page;      *)
(* configStore.ts, saveConfigToBackend).                                   *)
THEOREM EditorKeepsTheSharedDocument == Spec => ReplacesNothingUnseen
<1>1. Init => Shared!Init
  <2>1. SUFFICES ASSUME Init PROVE Shared!Init
    OBVIOUS
  <2>2. ~Saving /\ tab = Answer.copy /\ unguarded = {}
    BY <2>1 DEF Init, Saving, NoSave
  <2>3. Answer.copy.seen = disk.stamp
    BY DEF Answer
  <2>4. disk.stamp = [d \in Docs |-> 0]
    BY <2>1 DEF Init
  <2>5. QED
    BY <2>2, <2>3, <2>4 DEF Shared!Init
<1>2. KnowingInv /\ [Next]_vars => [Shared!Next]_Shared!vars
  BY StepIsShared
<1>3. QED
  BY <1>1, <1>2, KnowingAlways, PTL DEF Spec, ReplacesNothingUnseen, Shared!Spec

-----------------------------------------------------------------------------
(* Whatever another writer changed is in the tab, or on its way: as an     *)
(* event, as a reload that will take it over, or as the banner.            *)

OnItsWay ==
    sync.phase = "asked" /\ news = 0 /\ ~missed /\ ~banner
    /\ ~sync.again /\ sync.applied /\ ~sync.stale
        => \A d \in Docs : sync.answer.copy.seen[d] = disk.stamp[d]

NoticedInv == ChangesAreNoticed /\ OnItsWay

(* A step that neither hears nor causes a change of another writer.        *)
Calm ==
    /\ disk'.stamp = disk.stamp
    /\ UNCHANGED <<news, missed, banner>>
    /\ unguarded \subseteq unguarded'
    /\ \A d \in Docs \ unguarded' : tab'.seen[d] = tab.seen[d]
    /\ \/ UNCHANGED sync
       \/ sync.phase = "asked" /\ sync'.phase = "asked" /\ sync'.stale

LEMMA CalmNotices == ASSUME NoticedInv, Calm PROVE NoticedInv'
<1>1. ChangesAreNoticed'
  <2>1. SUFFICES ASSUME news' = 0, sync'.phase = "idle", ~missed', ~banner',
                        NEW d \in Docs \ unguarded'
                 PROVE  tab'.seen[d] = disk'.stamp[d]
    BY DEF ChangesAreNoticed, Current, Docs
  <2>2. tab.seen[d] = disk.stamp[d]
    BY <2>1 DEF Calm, NoticedInv, ChangesAreNoticed, Current
  <2>3. QED
    BY <2>1, <2>2 DEF Calm
<1>2. OnItsWay'
  BY DEF Calm, NoticedInv, OnItsWay, Docs
<1>3. QED
  BY <1>1, <1>2 DEF NoticedInv

LEMMA TouchedIsCalm ==
    ASSUME TypeInv, Touched
    PROVE  \/ UNCHANGED sync
           \/ sync.phase = "asked" /\ sync'.phase = "asked" /\ sync'.stale
<1>1. CASE sync.phase = "asked"
  <2>1. sync \in SyncRuns /\ sync' = [sync EXCEPT !.stale = TRUE]
    BY <1>1 DEF Touched, TypeInv, NoFetch
  <2>2. QED
    BY <1>1, <2>1 DEF SyncRuns
<1>2. CASE sync.phase # "asked"
  BY <1>2 DEF Touched
<1>3. QED
  BY <1>1, <1>2

LEMMA AuthorNotices == ASSUME TypedSeen, NoticedInv, Author PROVE NoticedInv'
<1>1. TypeInv /\ SeenInv
  BY DEF TypedSeen, TypedFlags
<1>2. CASE EditingSteps
  <2>1. Edited
    BY <1>1, <1>2, EditingIsEdited
  <2>2. Touched /\ UNCHANGED <<disk, news, banner, missed, unguarded>> /\ tab'.seen = tab.seen
    BY <2>1 DEF Edited, Edits, Changing
  <2>3. QED
    BY <1>1, <2>2, TouchedIsCalm, CalmNotices DEF Calm
<1>3. CASE Undo \/ Redo
  <2>1. Touched /\ UNCHANGED <<disk, news, banner, missed, unguarded>>
    BY <1>3 DEF Undo, Redo, Edits, Changing
  <2>2. \A d \in Docs \ unguarded : tab'.seen[d] = tab.seen[d]
    BY <1>1, <1>3, SeenAfterUndo, SeenAfterRedo
  <2>3. QED
    BY <1>1, <2>1, <2>2, TouchedIsCalm, CalmNotices DEF Calm
<1>4. CASE PageReload
  <2>1. UNCHANGED disk /\ tab' = Answer.copy /\ sync' = NoFetch
    BY <1>4 DEF PageReload
  <2>2. tab'.seen = disk'.stamp
    BY <2>1 DEF Answer
  <2>3. QED
    BY <2>1, <2>2 DEF NoticedInv, ChangesAreNoticed, Current, OnItsWay, NoFetch
<1>5. CASE KeepUnsaved
  BY <1>5 DEF KeepUnsaved, NoticedInv, ChangesAreNoticed, OnItsWay
<1>6. QED
  BY <1>2, <1>3, <1>4, <1>5 DEF Author, EditingSteps

LEMMA SavesAreCalm == ASSUME TypeInv, Saves PROVE Calm
<1>1. CASE Save
  BY <1>1 DEF Save, ghosts, Calm
<1>2. ASSUME NEW out \in {"ok", "failed", "lost"}, PutIndex(out) PROVE Calm
  <2>1. disk \in Server /\ (disk' = disk \/ disk' = Rewritten(save.copy))
    BY <1>2 DEF PutIndex, TypeInv
  <2>2. disk'.stamp = disk.stamp
    BY <2>1 DEF Rewritten, Server
  <2>3. QED
    BY <1>2, <2>2 DEF PutIndex, SaveKeeps, Calm
<1>3. ASSUME NEW p \in Pages, NEW out \in {"ok", "failed", "lost"}, PutPage(p, out) PROVE Calm
  <2>1. disk \in Server
        /\ (disk' = disk \/ disk' = [disk EXCEPT !.doc[save.copy.place[p]][p] = PageSent(p)])
    BY <1>3 DEF PutPage, TypeInv
  <2>2. disk'.stamp = disk.stamp
    BY <2>1 DEF Server
  <2>3. QED
    BY <1>3, <2>2 DEF PutPage, SaveKeeps, Calm
<1>4. CASE PutIndexRefused \/ PagesDone
  BY <1>4 DEF PutIndexRefused, PagesDone, SaveKeeps, Calm
<1>5. ASSUME NEW p \in Pages, PutPageRefused(p) PROVE Calm
  BY <1>5 DEF PutPageRefused, SaveKeeps, Calm
<1>6. ASSUME NEW works \in BOOLEAN, RestDone(works) PROVE Calm
  BY <1>6 DEF RestDone, ghosts, Calm
<1>7. QED
  BY <1>1, <1>2, <1>3, <1>4, <1>5, <1>6 DEF Saves

LEMMA OthersNotice == ASSUME TypeInv, Others PROVE NoticedInv'
<1>1. CASE LoseEvent
  BY <1>1 DEF LoseEvent, NoticedInv, ChangesAreNoticed, OnItsWay
<1>2. CASE OtherChanges
  <2>1. news' = news + 1 /\ news \in 0..turn /\ turn \in Nat
    BY <1>2, BoundsAssumption DEF OtherChanges, TypeInv
  <2>2. news' # 0
    BY <2>1
  <2>3. QED
    BY <2>2 DEF NoticedInv, ChangesAreNoticed, OnItsWay
<1>3. QED
  BY <1>1, <1>2 DEF Others, OtherWritesPage, OtherWritesIndex, OtherDeletesPage

(* The next pass asks anew; without one, what was left out is on the banner. *)
LEMMA PassOverNotices ==
    ASSUME NEW applied \in BOOLEAN, PassOver(applied), UNCHANGED <<disk, news, missed>>,
           applied /\ ~dirty /\ ~sync.again /\ ~banner /\ ~missed /\ news = 0 =>
               \A d \in Docs : tab'.seen[d] = disk.stamp[d]
    PROVE  NoticedInv'
<1>1. CASE sync.again /\ ~dirty
  <2>1. sync' = Asked(applied)
    BY <1>1 DEF PassOver
  <2>2. sync'.phase = "asked" /\ sync'.answer.copy.seen = disk.stamp
    BY <2>1 DEF Asked, Answer
  <2>3. QED
    BY <2>2 DEF NoticedInv, ChangesAreNoticed, OnItsWay
<1>2. CASE ~(sync.again /\ ~dirty)
  <2>1. sync' = NoFetch /\ banner' = (banner \/ sync.again \/ ~applied \/ dirty)
    BY <1>2 DEF PassOver
  <2>2. ChangesAreNoticed'
    <3>1. SUFFICES ASSUME news' = 0, ~missed', ~banner', NEW d \in Docs
                   PROVE  tab'.seen[d] = disk'.stamp[d]
      BY DEF ChangesAreNoticed, Current, Docs
    <3>2. applied /\ ~dirty /\ ~sync.again /\ ~banner
      BY <2>1, <3>1
    <3>3. QED
      BY <3>1, <3>2
  <2>3. OnItsWay'
    BY <2>1 DEF OnItsWay, NoFetch
  <2>4. QED
    BY <2>2, <2>3 DEF NoticedInv
<1>3. QED
  BY <1>1, <1>2

LEMMA FetchesNotice == ASSUME TypedSeen, NoticedInv, Fetches PROVE NoticedInv'
<1>1. TypeInv /\ FlagsInv
  BY DEF TypedSeen, TypedFlags
<1>2. CASE Hear
  <2>1. CASE dirty
    <3>1. banner' = TRUE
      BY <1>2, <2>1 DEF Hear
    <3>2. QED
      BY <3>1 DEF NoticedInv, ChangesAreNoticed, OnItsWay
  <2>2. CASE ~dirty /\ sync.phase = "asked"
    <3>1. sync \in SyncRuns /\ sync' = [sync EXCEPT !.again = TRUE]
      BY <1>1, <1>2, <2>2 DEF Hear, TypeInv, NoFetch
    <3>2. sync'.phase = "asked" /\ sync'.again
      BY <2>2, <3>1 DEF SyncRuns
    <3>3. QED
      BY <3>2 DEF NoticedInv, ChangesAreNoticed, OnItsWay
  <2>3. CASE ~dirty /\ sync.phase # "asked"
    <3>1. sync' = Asked(TRUE) /\ UNCHANGED disk
      BY <1>2, <2>3 DEF Hear
    <3>2. sync'.phase = "asked" /\ sync'.answer.copy.seen = disk.stamp
      BY <3>1 DEF Asked, Answer
    <3>3. QED
      BY <3>1, <3>2 DEF NoticedInv, ChangesAreNoticed, OnItsWay
  <2>4. QED
    BY <2>1, <2>2, <2>3
<1>3. CASE SyncAnswers
  <2>1. sync \in SyncRuns /\ sync.stale \in BOOLEAN /\ sync.applied \in BOOLEAN
    BY <1>1, <1>3 DEF SyncAnswers, TypeInv, NoFetch, SyncRuns
  <2> DEFINE applied == sync.applied /\ ~sync.stale
  <2>2. applied \in BOOLEAN
    BY <2>1
  <2>3. PassOver(applied) /\ UNCHANGED <<disk, news, missed>>
    BY <1>3 DEF SyncAnswers
  <2>4. applied /\ ~dirty /\ ~sync.again /\ ~banner /\ ~missed /\ news = 0 =>
            \A d \in Docs : tab'.seen[d] = disk.stamp[d]
    <3>1. SUFFICES ASSUME applied, ~dirty, ~sync.again, ~banner, ~missed, news = 0
                   PROVE  \A d \in Docs : tab'.seen[d] = disk.stamp[d]
      OBVIOUS
    <3>2. tab' = sync.answer.copy
      BY <1>3, <3>1 DEF SyncAnswers, Load
    <3>3. QED
      BY <1>3, <3>1, <3>2 DEF SyncAnswers, NoticedInv, OnItsWay
  <2> HIDE DEF applied
  <2>5. QED
    BY <2>2, <2>3, <2>4, PassOverNotices
<1>4. CASE SyncFails
  <2>1. PassOver(FALSE) /\ UNCHANGED <<disk, news, missed>>
    BY <1>4 DEF SyncFails, ghosts
  <2>2. QED
    BY <2>1, PassOverNotices
<1>5. CASE Mount
  BY <1>5, CalmNotices DEF Mount, Fetch, ghosts, Calm
<1>6. ASSUME NEW p \in Pages, AskPage(p) PROVE NoticedInv'
  BY <1>6, CalmNotices DEF AskPage, Fetch, ghosts, Calm
<1>7. CASE MountAnswers
  <2>1. /\ UNCHANGED <<disk, news, missed, banner, sync>> /\ unguarded \subseteq unguarded'
        /\ tab' = loose.answer.copy
        /\ \A d \in Docs \ unguarded' : loose.answer.copy.seen[d] = tab.seen[d]
    BY <1>7 DEF MountAnswers, Load
  <2>2. QED
    BY <2>1, CalmNotices DEF Calm
<1>8. CASE PageAnswers
  <2>1. Quiet
    BY <1>1, <1>8, FetchesAreQuiet DEF Fetches, PageAnswers, MountAnswers, SyncAnswers, TypeInv,
       NoFetch, IndexFetches, PageFetches
  <2>2. QED
    BY <1>8, <2>1, CalmNotices DEF PageAnswers, Quiet, Calm
<1>9. QED
  BY <1>2, <1>3, <1>4, <1>5, <1>6, <1>7, <1>8 DEF Fetches

LEMMA NoticedStep == ASSUME TypedSeen, NoticedInv, [Next]_vars PROVE NoticedInv'
<1>1. TypeInv
  BY DEF TypedSeen, TypedFlags
<1>2. CASE Author
  BY <1>2, AuthorNotices
<1>3. CASE Saves
  BY <1>1, <1>3, SavesAreCalm, CalmNotices
<1>4. CASE Others
  BY <1>1, <1>4, OthersNotice
<1>5. CASE Fetches
  BY <1>5, FetchesNotice
<1>6. CASE UNCHANGED vars
  BY <1>6, CalmNotices DEF vars, ghosts, Calm
<1>7. QED
  BY <1>2, <1>3, <1>4, <1>5, <1>6 DEF Next

(* A change of another writer is in the tab, or announced to it, or the    *)
(* author was warned of it, whatever the author, a save and the reloads do *)
(* in between (ConfigUpdatedBanner.tsx, onConfigUpdated; editorLiveSync.ts, *)
(* reloadEditor).                                                          *)
THEOREM OthersAreNoticed == Spec => []ChangesAreNoticed
<1>1. Init => NoticedInv
  <2>1. ASSUME Init PROVE tab.seen = disk.stamp /\ sync = NoFetch
    BY <2>1 DEF Init, Answer
  <2>2. QED
    BY <2>1 DEF NoticedInv, ChangesAreNoticed, OnItsWay, Current, NoFetch
<1>2. NoticedInv /\ TypedSeen /\ [Next]_vars => NoticedInv'
  BY NoticedStep
<1>3. NoticedInv => ChangesAreNoticed
  BY DEF NoticedInv
<1>4. QED
  BY <1>1, <1>2, <1>3, SeenAlways, PTL DEF Spec

-----------------------------------------------------------------------------
(* No edit is forgotten.  What the server holds of a document, as a        *)
(* function of the disk.                                                   *)

StoredOn(k, d) ==
    IF d = Index THEN IndexOf(k)
    ELSE IF k.place[d] = Nowhere THEN Missing
    ELSE IF k.doc[k.place[d]][d] = Missing THEN Empty ELSE k.doc[k.place[d]][d]

(* The tab reflects every change of another writer to the document.        *)
Reflected(d) == Current(d) /\ Current(Index)

(* No copy is newer than the disk.                                         *)
Aged(k) == {copy \in Copy : \A d \in Docs : copy.seen[d] <= k.stamp[d]}
AgesInv ==
    /\ tab \in Aged(disk) /\ past \in Seq(Aged(disk)) /\ future \in Seq(Aged(disk))
    /\ sync.phase = "asked" => sync.answer.copy \in Aged(disk)
    /\ loose.phase = "index" => loose.answer.copy \in Aged(disk)
    /\ loose.phase = "page" => loose.seen <= disk.stamp[loose.page]

(* The two promises, of one document each.                                 *)
Covered(p) ==
    p \in InTree(tab) \ forgotten /\ Reflected(p) /\ StoredOn(disk, p) # tab.body[p]
        => p \in dirtyPages
CoverInv == \A p \in Pages : Covered(p)

CleanInv ==
    ~dirty => \A d \in Docs \ forgotten : Reflected(d) => StoredOn(disk, d) = Content(tab, d)

(* What a page needs to be sent with its content.                          *)
LoadedCover == dirtyPages \subseteq loaded \cup forgotten

(* A page whose change travels with the save is dirty still, and the save  *)
(* holds what the tab shows; once it is done, so does the server.          *)
Travels(p) ==
    /\ p \in dirtyPages /\ p \in InTree(save.copy) /\ tab.body[p] = save.copy.body[p]
    /\ save.phase = "pages" =>
           /\ p \in save.loaded
           /\ Current(Index) => disk.place[p] # Nowhere
           /\ p \in save.done /\ Reflected(p) => StoredOn(disk, p) = tab.body[p]
FlightInv == \A p \in Pages : p \in InFlight /\ p \in InTree(tab) \ forgotten => Travels(p)

(* A page that the save does not put into the index is dirty.              *)
NewPages ==
    save.phase = "index" =>
        \A p \in Pages : p \in InTree(tab) \ forgotten => p \in InTree(save.copy) \cup dirtyPages

RunInv ==
    /\ save.phase = "index" => save.done = {} /\ ~save.bad
    /\ save.phase = "pages" =>
           /\ save.left \cup save.done \subseteq save.want
           /\ ~save.bad => save.want \cap InTree(save.copy) \subseteq save.left \cup save.done

(* As long as nothing was edited, the tab is what is being saved.          *)
SavedCopy ==
    Saving /\ ~save.stale =>
        /\ \A d \in Docs \ forgotten : Content(tab, d) = Content(save.copy, d)
        /\ save.phase \in {"pages", "rest"} /\ Current(Index) /\ forgotten # Docs =>
               IndexOf(disk) = IndexOf(save.copy)
        /\ save.phase \in {"index", "pages"} => dirtyPages \subseteq save.want \cup forgotten
        /\ save.phase = "rest" => dirtyPages \cap InTree(tab) \subseteq forgotten

(* What a good reload brings of a document is what the server holds, unless *)
(* another writer changed it meanwhile.                                    *)
FreshAnswer ==
    sync.phase = "asked" /\ ~sync.stale =>
        \A d \in Docs :
            sync.answer.copy.seen[d] = disk.stamp[d]
            /\ sync.answer.copy.seen[Index] = disk.stamp[Index]
                => StoredOn(disk, d) = Content(sync.answer.copy, d)

BookInv ==
    /\ CoverInv /\ CleanInv /\ LoadedCover
    /\ FlightInv /\ NewPages /\ RunInv /\ SavedCopy
    /\ FreshAnswer

LEMMA StoredIs ==
    ASSUME NEW d \in Docs
    PROVE  Stored(d) = StoredOn(disk, d) /\ Content(Answer.copy, d) = StoredOn(disk, d)
BY DEF Stored, StoredOn, Content, Answer, Served, IndexOf, Docs

LEMMA BookMeansNoneForgotten == ASSUME BookInv PROVE NoEditForgotten
<1>1. BooksCover
  <2>1. SUFFICES ASSUME NEW p \in InTree(tab) \ forgotten, Current(p), Current(Index),
                        Stored(p) # Content(tab, p)
                 PROVE  p \in dirtyPages
    BY DEF BooksCover
  <2>2. p \in Pages /\ p \in Docs /\ p # Index /\ Content(tab, p) = tab.body[p]
    BY <2>1, ConstantsAssumption DEF InTree, Docs, Content
  <2>3. Stored(p) = StoredOn(disk, p)
    BY <2>2, StoredIs
  <2>4. QED
    BY <2>1, <2>2, <2>3 DEF BookInv, CoverInv, Covered, Reflected
<1>2. SavedIsOnDisk
  BY StoredIs DEF BookInv, CleanInv, SavedIsOnDisk, Reflected
<1>3. QED
  BY <1>1, <1>2 DEF NoEditForgotten

-----------------------------------------------------------------------------
(* Ages.                                                                   *)

LEMMA AnswerAged == ASSUME TypeInv PROVE Answer.copy \in Aged(disk)
<1>1. Answer.copy \in Copy /\ Answer.copy.seen = disk.stamp
  BY AnswerType DEF Fetched, Answer
<1>2. \A d \in Docs : disk.stamp[d] \in Nat
  BY DEF TypeInv, Server
<1>3. \A d \in Docs : disk.stamp[d] <= disk.stamp[d]
  BY <1>2
<1>4. QED
  BY <1>1, <1>3 DEF Aged

LEMMA AgedKept ==
    ASSUME TypeInv, TypeInv', Copy \subseteq Copy',
           \A d \in Docs : disk.stamp[d] <= disk'.stamp[d]
    PROVE  Aged(disk) \subseteq Aged(disk)' /\ Seq(Aged(disk)) \subseteq Seq(Aged(disk)')
<1>1. \A d \in Docs : disk.stamp[d] \in Nat /\ disk'.stamp[d] \in Nat
  <2>1. disk \in Server /\ disk' \in Server'
    BY DEF TypeInv
  <2>2. QED
    BY <2>1 DEF Server
<1>2. ASSUME NEW copy \in Aged(disk) PROVE copy \in Aged(disk)'
  <2>1. copy \in Copy /\ copy \in Copy' /\ \A d \in Docs : copy.seen[d] <= disk.stamp[d]
    BY <1>2 DEF Aged
  <2>2. \A d \in Docs : copy.seen[d] \in Nat
    BY <2>1 DEF Copy
  <2>3. \A d \in Docs : copy.seen[d] <= disk'.stamp[d]
    BY <1>1, <2>1, <2>2
  <2>4. QED
    BY <2>1, <2>3 DEF Aged, Docs
<1>3. Aged(disk) \subseteq Aged(disk)'
  BY <1>2
<1>4. QED
  BY <1>3

LEMMA SnapshotOf ==
    ASSUME NEW S, past \in Seq(S), future \in Seq(S), tab \in S, ThrottledSnapshot,
           Len(past) <= MaxHistory
    PROVE  past' \in Seq(S) /\ future' \in Seq(S)
<1>1. CASE UNCHANGED history
  BY <1>1 DEF history
<1>2. CASE PushSnapshot
  <2> DEFINE kept == IF Len(past) >= MaxHistory
                     THEN SubSeq(past, Len(past) - MaxHistory + 2, Len(past)) ELSE past
  <2>1. past' = Append(kept, tab) /\ future' = <<>>
    BY <1>2 DEF PushSnapshot
  <2>2. kept \in Seq(S)
    <3>1. CASE Len(past) >= MaxHistory
      <4>1. Len(past) = MaxHistory /\ kept = SubSeq(past, 2, Len(past))
        BY <3>1, BoundsAssumption
      <4>2. QED
        BY <4>1
    <3>2. CASE ~(Len(past) >= MaxHistory)
      BY <3>2
    <3>3. QED
      BY <3>1, <3>2
  <2>3. QED
    BY <2>1, <2>2
<1>3. QED
  BY <1>1, <1>2 DEF ThrottledSnapshot

(* A step that keeps the disk and the history and brings nothing newer.    *)
LEMMA AgesOn ==
    ASSUME TypeInv, TypeInv', AgesInv, UNCHANGED <<turn, disk>>,
           past' \in Seq(Aged(disk)), future' \in Seq(Aged(disk)),
           tab' \in Aged(disk), SyncGoesOn,
           \/ UNCHANGED loose \/ loose'.phase = "idle"
           \/ loose'.phase = "index" /\ loose'.answer = Answer
           \/ loose'.phase = "page" /\ loose'.seen <= disk.stamp[loose'.page]
    PROVE  AgesInv'
<1>1. Aged(disk)' = Aged(disk)
  BY SetsSame DEF Aged, Docs
<1>2. Answer.copy \in Aged(disk)
  BY AnswerAged
<1>3. sync'.phase = "asked" => sync'.answer.copy \in Aged(disk)
  BY <1>2 DEF SyncGoesOn, AgesInv, Asked, NoFetch
<1>4. /\ loose'.phase = "index" => loose'.answer.copy \in Aged(disk)
      /\ loose'.phase = "page" => loose'.seen <= disk.stamp[loose'.page]
  BY <1>2 DEF AgesInv
<1>5. QED
  BY <1>1, <1>3, <1>4 DEF AgesInv

LEMMA AuthorAges ==
    ASSUME TypeInv, TypeInv', AgesInv, Author, ~PageReload
    PROVE  AgesInv'
<1>1. /\ tab \in Aged(disk) /\ past \in Seq(Aged(disk)) /\ future \in Seq(Aged(disk))
      /\ Len(past) \in Nat /\ Len(future) \in Nat /\ Len(past) + Len(future) <= MaxHistory
  BY DEF AgesInv, TypeInv
<1>2. CASE EditingSteps
  <2>1. Edited
    BY <1>2, EditingIsEdited
  <2>2. /\ Touched /\ UNCHANGED <<turn, disk, loose>> /\ ThrottledSnapshot
        /\ tab' \in Copy /\ tab'.seen = tab.seen
    BY <2>1 DEF Edited, Edits, Changing
  <2>3. tab' \in Aged(disk)
    BY <1>1, <2>2 DEF Aged
  <2>4. past' \in Seq(Aged(disk)) /\ future' \in Seq(Aged(disk))
    BY <1>1, <2>2, SnapshotOf, BoundsAssumption
  <2>5. QED
    BY <2>2, <2>3, <2>4, TouchedGoesOn, AgesOn
<1>3. CASE Undo
  <2>1. /\ past # <<>> /\ past' = SubSeq(past, 1, Len(past) - 1) /\ future' = <<tab>> \o future
        /\ tab' = past[Len(past)] /\ Touched /\ UNCHANGED <<turn, disk, loose>>
    BY <1>3 DEF Undo, Restore, Edits, Changing
  <2>2. past[Len(past)] \in Aged(disk) /\ past' \in Seq(Aged(disk)) /\ future' \in Seq(Aged(disk))
    <3>1. past' \in Seq(Aged(disk))
      BY <1>1, <2>1
    <3>2. <<tab>> \in Seq(Aged(disk))
      BY <1>1
    <3>3. future' \in Seq(Aged(disk))
      BY <1>1, <2>1, <3>2
    <3>4. Len(past) \in 1..Len(past)
      BY <1>1, <2>1
    <3>5. QED
      BY <1>1, <3>1, <3>3, <3>4
  <2>3. QED
    BY <2>1, <2>2, TouchedGoesOn, AgesOn
<1>4. CASE Redo
  <2>1. /\ future # <<>> /\ past' = Append(past, tab) /\ future' = Tail(future)
        /\ tab' = Head(future) /\ Touched /\ UNCHANGED <<turn, disk, loose>>
    BY <1>4 DEF Redo, Restore, Changing
  <2>2. Head(future) \in Aged(disk) /\ past' \in Seq(Aged(disk)) /\ future' \in Seq(Aged(disk))
    BY <1>1, <2>1
  <2>3. QED
    BY <2>1, <2>2, TouchedGoesOn, AgesOn
<1>5. CASE KeepUnsaved
  BY <1>1, <1>5, AgesOn DEF KeepUnsaved, counts, history, SyncGoesOn
<1>6. QED
  BY <1>2, <1>3, <1>4, <1>5 DEF Author, EditingSteps

(* A step that brings nothing into the tab.                                *)
LEMMA AgesGrow ==
    ASSUME TypeInv, TypeInv', AgesInv, Copy \subseteq Copy',
           \A d \in Docs : disk.stamp[d] <= disk'.stamp[d],
           UNCHANGED <<tab, past, future, sync, loose>>
    PROVE  AgesInv'
<1>1. Aged(disk) \subseteq Aged(disk)' /\ Seq(Aged(disk)) \subseteq Seq(Aged(disk)')
  BY AgedKept
<1>2. tab' \in Aged(disk)' /\ past' \in Seq(Aged(disk)') /\ future' \in Seq(Aged(disk)')
  BY <1>1 DEF AgesInv
<1>3. /\ sync'.phase = "asked" => sync'.answer.copy \in Aged(disk)'
      /\ loose'.phase = "index" => loose'.answer.copy \in Aged(disk)'
  BY <1>1 DEF AgesInv
<1>4. loose'.phase = "page" => loose'.seen <= disk'.stamp[loose'.page]
  <2>1. SUFFICES ASSUME loose.phase = "page" PROVE loose.seen <= disk'.stamp[loose.page]
    OBVIOUS
  <2>2. loose \in PageFetches
    BY <2>1 DEF TypeInv, NoFetch, IndexFetches
  <2>3. loose.page \in Docs /\ loose.seen \in Nat
    BY <2>2 DEF PageFetches, Docs
  <2>4. disk.stamp[loose.page] \in Nat /\ disk'.stamp[loose.page] \in Nat
    <3>1. disk \in Server /\ disk' \in Server'
      BY DEF TypeInv
    <3>2. QED
      BY <2>3, <3>1 DEF Server, Docs
  <2>5. loose.seen <= disk.stamp[loose.page]
    BY <2>1 DEF AgesInv
  <2>6. QED
    BY <2>3, <2>4, <2>5
<1>5. QED
  BY <1>2, <1>3, <1>4 DEF AgesInv

LEMMA SavesAges ==
    ASSUME TypeInv, TypeInv', AgesInv, Saves
    PROVE  AgesInv'
<1>1. ASSUME disk'.stamp = disk.stamp, UNCHANGED <<turn, tab, past, future, sync, loose>>
      PROVE  AgesInv'
  <2>1. \A d \in Docs : disk.stamp[d] \in Nat
    BY DEF TypeInv, Server
  <2>2. \A d \in Docs : disk.stamp[d] <= disk'.stamp[d]
    BY <1>1, <2>1
  <2>3. Copy \subseteq Copy'
    BY <1>1, SetsSame
  <2>4. QED
    BY <1>1, <2>2, <2>3, AgesGrow
<1>2. CASE Save
  BY <1>1, <1>2 DEF Save, history, counts
<1>3. ASSUME NEW out \in {"ok", "failed", "lost"}, PutIndex(out) PROVE AgesInv'
  <2>1. disk \in Server /\ (disk' = disk \/ disk' = Rewritten(save.copy))
    BY <1>3 DEF PutIndex, TypeInv
  <2>2. disk'.stamp = disk.stamp
    BY <2>1 DEF Rewritten, Server
  <2>3. QED
    BY <1>1, <1>3, <2>2 DEF PutIndex, SaveKeeps, history
<1>4. ASSUME NEW p \in Pages, NEW out \in {"ok", "failed", "lost"}, PutPage(p, out)
      PROVE  AgesInv'
  <2>1. disk \in Server
        /\ (disk' = disk \/ disk' = [disk EXCEPT !.doc[save.copy.place[p]][p] = PageSent(p)])
    BY <1>4 DEF PutPage, TypeInv
  <2>2. disk'.stamp = disk.stamp
    BY <2>1 DEF Server
  <2>3. QED
    BY <1>1, <1>4, <2>2 DEF PutPage, SaveKeeps, history
<1>5. CASE PutIndexRefused \/ PagesDone
  BY <1>1, <1>5 DEF PutIndexRefused, PagesDone, SaveKeeps, history
<1>6. ASSUME NEW p \in Pages, PutPageRefused(p) PROVE AgesInv'
  BY <1>1, <1>6 DEF PutPageRefused, SaveKeeps, history
<1>7. ASSUME NEW works \in BOOLEAN, RestDone(works) PROVE AgesInv'
  BY <1>1, <1>7 DEF RestDone, history
<1>8. QED
  BY <1>2, <1>3, <1>4, <1>5, <1>6, <1>7 DEF Saves

LEMMA OthersAges ==
    ASSUME TypeInv, TypeInv', AgesInv, DocsInPlace(disk), Others
    PROVE  AgesInv'
<1>1. CASE LoseEvent
  <2>1. UNCHANGED <<turn, disk, tab, past, future, sync, loose>>
    BY <1>1 DEF LoseEvent, history
  <2>2. QED
    BY <2>1, AgesOn DEF AgesInv, SyncGoesOn
<1>2. ASSUME OtherChanges, NEW touched, Overwrites(touched) PROVE AgesInv'
  <2>1. turn \in Nat /\ turn' = turn + 1 /\ UNCHANGED <<tab, past, future, sync, loose>>
    BY <1>2, BoundsAssumption DEF OtherChanges, TypeInv, history
  <2>2. \A d \in Docs : disk.stamp[d] <= disk'.stamp[d]
    BY <1>2, StampedSame DEF Overwrites
  <2>3. QED
    BY <2>1, <2>2, SetsGrow, AgesGrow
<1>3. QED
  BY <1>1, <1>2, PageOverwritten, PageDropped, IndexOverwritten
     DEF Others, OtherWritesPage, OtherWritesIndex, OtherDeletesPage

LEMMA FetchesAges ==
    ASSUME TypeInv, TypeInv', AgesInv, Fetches
    PROVE  AgesInv'
<1>1. /\ tab \in Aged(disk) /\ past \in Seq(Aged(disk)) /\ future \in Seq(Aged(disk))
      /\ <<>> \in Seq(Aged(disk)) /\ Answer.copy \in Aged(disk)
  BY AnswerAged DEF AgesInv
<1>2. CASE Hear
  <2>1. SyncGoesOn
    BY <1>2, HearGoesOn
  <2>2. QED
    BY <1>1, <1>2, <2>1, AgesOn DEF Hear, counts, history
<1>3. ASSUME NEW applied, PassOver(applied) PROVE SyncGoesOn
  BY <1>3 DEF PassOver, SyncGoesOn
<1>4. CASE SyncAnswers
  <2>1. SyncGoesOn /\ UNCHANGED <<turn, disk, loose>>
    BY <1>3, <1>4 DEF SyncAnswers, counts
  <2>2. tab' \in Aged(disk)
    BY <1>1, <1>4 DEF SyncAnswers, Load, AgesInv
  <2>3. past' \in Seq(Aged(disk)) /\ future' \in Seq(Aged(disk))
    <3>1. UNCHANGED <<past, future>> \/ (past' = <<>> /\ future' = <<>>)
      BY <1>4 DEF SyncAnswers, history, ClearHistory
    <3>2. QED
      BY <1>1, <3>1
  <2>4. QED
    BY <2>1, <2>2, <2>3, AgesOn
<1>5. CASE SyncFails
  BY <1>1, <1>3, <1>5, AgesOn DEF SyncFails, history
<1>6. CASE Mount
  <2>1. loose'.phase = "index" /\ loose'.answer = Answer
    BY <1>6 DEF Mount, Fetch
  <2>2. QED
    BY <1>1, <1>6, <2>1, AgesOn DEF Mount, Fetch, history, SyncGoesOn
<1>7. ASSUME NEW p \in Pages, AskPage(p) PROVE AgesInv'
  <2>1. tab.seen[p] <= disk.stamp[p] /\ disk.stamp[p] <= disk.stamp[p]
    <3>1. p \in Docs /\ disk.stamp[p] \in Nat
      BY DEF Docs, TypeInv, Server
    <3>2. QED
      BY <1>1, <3>1 DEF Aged
  <2>2. loose'.phase = "page" /\ loose'.page = p /\ loose'.seen \in {tab.seen[p], disk.stamp[p]}
    BY <1>7 DEF AskPage, Fetch
  <2>3. QED
    BY <1>1, <1>7, <2>1, <2>2, AgesOn DEF AskPage, Fetch, history, SyncGoesOn
<1>8. CASE MountAnswers
  <2>1. tab' \in Aged(disk) /\ loose'.phase = "idle"
    BY <1>8 DEF MountAnswers, Load, AgesInv, NoFetch
  <2>2. QED
    BY <1>1, <1>8, <2>1, AgesOn DEF MountAnswers, history, counts, SyncGoesOn
<1>9. CASE PageAnswers
  <2>1. loose \in PageFetches /\ loose.page \in Pages /\ UNCHANGED <<turn, disk, past, future, sync>>
        /\ loose'.phase = "idle"
    BY <1>9 DEF PageAnswers, TypeInv, NoFetch, IndexFetches, PageFetches, counts, history
  <2>2. tab' \in Aged(disk)
    <3>1. tab' \in Copy
      <4>1. tab' \in Copy'
        BY DEF TypeInv
      <4>2. QED
        BY <2>1, <4>1, SetsSame
    <3>2. CASE tab' = tab
      BY <1>1, <3>2
    <3>3. CASE tab' # tab
      <4>1. tab' = [tab EXCEPT !.body[loose.page] = loose.body, !.seen[loose.page] = loose.seen]
        BY <1>9, <3>3 DEF PageAnswers
      <4>2. tab \in Copy /\ tab.seen \in [Docs -> 0..turn] /\ loose.page \in Docs
        BY <2>1 DEF TypeInv, Copy, Docs
      <4>3. tab'.seen = [tab.seen EXCEPT ![loose.page] = loose.seen]
        BY <4>1, <4>2 DEF Copy
      <4>4. \A d \in Docs : tab'.seen[d] <= disk.stamp[d]
        BY <1>1, <1>9, <4>2, <4>3 DEF Aged, AgesInv, PageAnswers
      <4>5. QED
        BY <3>1, <4>4 DEF Aged
    <3>4. QED
      BY <3>2, <3>3
  <2>3. QED
    BY <1>1, <2>1, <2>2, AgesOn DEF SyncGoesOn
<1>10. QED
  BY <1>2, <1>4, <1>5, <1>6, <1>7, <1>8, <1>9 DEF Fetches

LEMMA AgesStep ==
    ASSUME TypeInv, TypeInv', AgesInv, DocsInPlace(disk), [Next]_vars
    PROVE  AgesInv'
<1>1. CASE PageReload
  <2>1. /\ UNCHANGED <<turn, disk>> /\ tab' = Answer.copy /\ past' = <<>> /\ future' = <<>>
        /\ sync' = NoFetch /\ loose' = NoFetch
    BY <1>1 DEF PageReload, counts, ClearHistory
  <2>2. tab' \in Aged(disk) /\ past' \in Seq(Aged(disk)) /\ future' \in Seq(Aged(disk))
    BY <2>1, AnswerAged
  <2>3. QED
    BY <2>1, <2>2, AgesOn DEF SyncGoesOn, NoFetch
<1>2. CASE UNCHANGED vars
  BY <1>2, AgesOn DEF vars, history, counts, AgesInv, SyncGoesOn
<1>3. QED
  BY <1>1, <1>2, AuthorAges, SavesAges, OthersAges, FetchesAges DEF Next

LEMMA FreshOn ==
    ASSUME FreshAnswer, UNCHANGED disk, SyncGoesOn
    PROVE  FreshAnswer'
<1>1. sync'.phase = "asked" /\ ~sync'.stale =>
        \A d \in Docs :
            sync'.answer.copy.seen[d] = disk.stamp[d]
            /\ sync'.answer.copy.seen[Index] = disk.stamp[Index]
                => StoredOn(disk, d) = Content(sync'.answer.copy, d)
  <2>1. CASE sync' = NoFetch
    BY <2>1 DEF NoFetch
  <2>2. ASSUME NEW applied, sync' = Asked(applied)
        PROVE  \A d \in Docs : StoredOn(disk, d) = Content(sync'.answer.copy, d)
    <3>1. sync'.answer = Answer
      BY <2>2 DEF Asked
    <3>2. QED
      BY <3>1, StoredIs
  <2>3. CASE /\ sync.phase = "asked" /\ sync'.phase = "asked"
             /\ sync'.answer = sync.answer /\ (~sync'.stale => ~sync.stale)
    BY <2>3 DEF FreshAnswer
  <2>4. CASE UNCHANGED sync
    BY <2>4 DEF FreshAnswer
  <2>5. QED
    BY <2>1, <2>2, <2>3, <2>4 DEF SyncGoesOn
<1>2. QED
  BY <1>1 DEF FreshAnswer, Docs

(* Steps that leave the tab, the disk and the save alone.                  *)
LEMMA StillBooks ==
    ASSUME BookInv, SyncGoesOn,
           UNCHANGED <<disk, tab, loaded, dirtyPages, dirty, forgotten, save>>
    PROVE  BookInv'
<1>1. CoverInv' /\ CleanInv' /\ LoadedCover'
  BY DEF BookInv, CoverInv, Covered, CleanInv, LoadedCover, Reflected, Current, InTree, Content,
         IndexOf, Docs
<1>2. FlightInv' /\ NewPages' /\ RunInv'
  BY DEF BookInv, FlightInv, Travels, NewPages, RunInv, InFlight, Reflected, Current, InTree
<1>3. SavedCopy'
  BY DEF BookInv, SavedCopy, Saving, Current, InTree, Content, IndexOf, Docs
<1>4. FreshAnswer'
  BY FreshOn DEF BookInv
<1>5. QED
  BY <1>1, <1>2, <1>3, <1>4 DEF BookInv

(* What an edit does to a page: nothing, a change, or it takes it away.    *)
Kept(p) ==
    /\ tab'.place[p] # Nowhere <=> tab.place[p] # Nowhere
    /\ tab'.body[p] = tab.body[p]
    /\ p \in dirtyPages' <=> p \in dirtyPages
    /\ p \in loaded' <=> p \in loaded
Changed(p) ==
    /\ p \in dirtyPages'
    /\ p \in loaded' \cup forgotten'
    /\ p \in InFlight => p \in forgotten'
Dropped(p) == tab'.place[p] = Nowhere /\ p \notin dirtyPages'

(* The save goes on with what it has, and knows of the change.             *)
LEMMA TouchedSave ==
    ASSUME TypeInv, Touched
    PROVE  /\ Saving' => Saving /\ save'.stale
           /\ save'.phase = save.phase
           /\ Saving => /\ save'.copy = save.copy /\ save'.want = save.want
                        /\ save'.loaded = save.loaded /\ save'.left = save.left
                        /\ save'.done = save.done /\ save'.bad = save.bad
           /\ InFlight' = InFlight
<1>1. CASE Saving
  <2>1. save \in SaveFields /\ save' = [save EXCEPT !.stale = TRUE]
    BY <1>1, RunFields DEF Touched
  <2>2. /\ save'.phase = save.phase /\ save'.stale
        /\ save'.copy = save.copy /\ save'.want = save.want
        /\ save'.loaded = save.loaded /\ save'.left = save.left
        /\ save'.done = save.done /\ save'.bad = save.bad
    BY <2>1 DEF SaveFields
  <2>3. QED
    BY <1>1, <2>2 DEF Saving, InFlight
<1>2. CASE ~Saving
  <2>1. save' = save
    BY <1>2 DEF Touched
  <2>2. QED
    BY <1>2, <2>1 DEF Saving, InFlight
<1>3. QED
  BY <1>1, <1>2

LEMMA TouchedBooks ==
    ASSUME TypeInv, BookInv, Touched, UNCHANGED disk,
           CoverInv', LoadedCover', NewPages',
           \A p \in Pages : p \in InFlight /\ p \in InTree(tab)' \ forgotten' => Travels(p)'
    PROVE  BookInv'
<1>1. /\ Saving' => Saving /\ save'.stale
      /\ save'.phase = save.phase
      /\ Saving => /\ save'.copy = save.copy /\ save'.want = save.want
                   /\ save'.loaded = save.loaded /\ save'.left = save.left
                   /\ save'.done = save.done /\ save'.bad = save.bad
      /\ InFlight' = InFlight
  BY TouchedSave
<1>2. CleanInv'
  BY DEF Touched, CleanInv
<1>3. FlightInv'
  BY <1>1 DEF FlightInv
<1>4. RunInv'
  BY <1>1 DEF BookInv, RunInv, Saving, InTree
<1>5. SavedCopy'
  BY <1>1 DEF SavedCopy
<1>6. FreshAnswer'
  BY TouchedGoesOn, FreshOn DEF BookInv
<1>7. QED
  BY <1>2, <1>3, <1>4, <1>5, <1>6 DEF BookInv

LEMMA EditBooks ==
    ASSUME TypeInv, BookInv, Touched, UNCHANGED disk, tab'.seen = tab.seen,
           forgotten \subseteq forgotten', dirtyPages' \subseteq Pages,
           \A p \in Pages : Kept(p) \/ Changed(p) \/ Dropped(p)
    PROVE  BookInv'
<1>1. /\ save'.phase = save.phase
      /\ Saving => /\ save'.copy = save.copy /\ save'.want = save.want
                   /\ save'.loaded = save.loaded /\ save'.left = save.left
                   /\ save'.done = save.done /\ save'.bad = save.bad
  BY TouchedSave
<1>2. \A d \in Docs : Current(d)' = Current(d)
  BY DEF Current, Docs
<1>3. Index \in Docs /\ Pages \subseteq Docs
  BY DEF Docs
<1>4. \A p \in Pages : /\ p \in InTree(tab) <=> tab.place[p] # Nowhere
                       /\ p \in InTree(tab)' <=> tab'.place[p] # Nowhere
  BY DEF InTree
<1>5. CoverInv'
  <2>1. SUFFICES ASSUME NEW p \in Pages PROVE Covered(p)'
    BY DEF CoverInv
  <2>2. Covered(p) /\ Reflected(p)' = Reflected(p)
    BY <1>2, <1>3 DEF BookInv, CoverInv, Reflected
  <2>3. StoredOn(disk', p) = StoredOn(disk, p)
    OBVIOUS
  <2>4. CASE Kept(p)
    BY <1>4, <2>2, <2>3, <2>4 DEF Covered, Kept
  <2>5. CASE Changed(p)
    BY <2>5 DEF Covered, Changed
  <2>6. CASE Dropped(p)
    BY <1>4, <2>6 DEF Covered, Dropped
  <2>7. QED
    BY <2>4, <2>5, <2>6
<1>6. LoadedCover'
  BY DEF BookInv, LoadedCover, Kept, Changed, Dropped
<1>7. NewPages'
  <2>1. SUFFICES ASSUME save'.phase = "index", NEW p \in Pages, p \in InTree(tab)' \ forgotten'
                 PROVE  p \in InTree(save'.copy) \cup dirtyPages'
    BY DEF NewPages, InTree
  <2>2. Saving /\ save'.copy = save.copy
    BY <1>1, <2>1 DEF Saving
  <2>3. CASE Kept(p)
    <3>1. p \in InTree(save.copy) \cup dirtyPages
      BY <1>1, <1>4, <2>1, <2>3 DEF BookInv, NewPages, Kept
    <3>2. QED
      BY <2>2, <2>3, <3>1 DEF Kept
  <2>4. CASE Changed(p)
    BY <2>4 DEF Changed
  <2>5. CASE Dropped(p)
    BY <1>4, <2>1, <2>5 DEF Dropped
  <2>6. QED
    BY <2>3, <2>4, <2>5
<1>8. ASSUME NEW p \in Pages, p \in InFlight, p \in InTree(tab)' \ forgotten' PROVE Travels(p)'
  <2>1. Kept(p) /\ p \in InTree(tab) \ forgotten
    BY <1>4, <1>8 DEF Kept, Changed, Dropped
  <2>2. Travels(p)
    BY <1>8, <2>1 DEF BookInv, FlightInv
  <2>3. Saving
    BY <1>8 DEF InFlight, Saving
  <2>4. Reflected(p)' = Reflected(p) /\ Current(Index)' = Current(Index)
    BY <1>2, <1>3 DEF Reflected
  <2>5. QED
    BY <1>1, <2>1, <2>2, <2>3, <2>4 DEF Travels, Kept, InTree
<1>9. QED
  BY <1>5, <1>6, <1>7, <1>8, TouchedBooks

LEMMA EditingBooks == ASSUME TypeInv, BookInv, EditingSteps PROVE BookInv'
<1>1. Edited
  BY EditingIsEdited
<1>2. Touched /\ UNCHANGED disk /\ tab'.seen = tab.seen /\ dirtyPages' \subseteq Pages
  BY <1>1 DEF Edited, Edits, Changing
<1>3. /\ tab \in Copy /\ tab.place \in [Pages -> Roots \cup {Nowhere}]
      /\ tab.body \in [Pages -> Made]
  BY DEF TypeInv, Copy, Rooted
<1>4. Nowhere \notin Roots
  BY ConstantsAssumption
<1>5. ASSUME NEW p \in Pages, NEW body \in Bodies \cup {Empty}, EditPage(p, body)
      PROVE  /\ forgotten \subseteq forgotten'
             /\ \A q \in Pages : Kept(q) \/ Changed(q) \/ Dropped(q)
  <2>1. tab'.place = tab.place /\ \A q \in Pages : q # p => tab'.body[q] = tab.body[q]
    BY <1>3, <1>5 DEF EditPage, Copy
  <2>2. Changed(p)
    BY <1>5 DEF EditPage, Changed
  <2>3. \A q \in Pages : q # p => Kept(q)
    BY <1>5, <2>1 DEF EditPage, Kept
  <2>4. QED
    BY <1>5, <2>2, <2>3 DEF EditPage
<1>6. ASSUME NEW p \in Pages, NEW r \in Pages, NEW arrived \in Bodies,
             MoveWidget(p, r, Empty, arrived)
      PROVE  /\ forgotten \subseteq forgotten'
             /\ \A q \in Pages : Kept(q) \/ Changed(q) \/ Dropped(q)
  <2>1. /\ tab'.place = tab.place
        /\ \A q \in Pages : q \notin {p, r} => tab'.body[q] = tab.body[q]
    BY <1>3, <1>6 DEF MoveWidget, Copy
  <2>2. Changed(p) /\ Changed(r)
    BY <1>6 DEF MoveWidget, Changed
  <2>3. \A q \in Pages : q \notin {p, r} => Kept(q)
    BY <1>6, <2>1 DEF MoveWidget, Kept
  <2>4. QED
    BY <1>6, <2>2, <2>3 DEF MoveWidget
<1>7. ASSUME NEW shell \in Shells, EditIndex(shell)
      PROVE  /\ forgotten \subseteq forgotten'
             /\ \A q \in Pages : Kept(q) \/ Changed(q) \/ Dropped(q)
  <2>1. tab'.place = tab.place /\ tab'.body = tab.body
    BY <1>3, <1>7 DEF EditIndex, Copy
  <2>2. QED
    BY <1>7, <2>1 DEF EditIndex, Kept
<1>8. ASSUME NEW p \in Pages, NEW root \in Roots, NEW body \in Bodies \cup {Empty},
             AddPage(p, root, body)
      PROVE  /\ forgotten \subseteq forgotten'
             /\ \A q \in Pages : Kept(q) \/ Changed(q) \/ Dropped(q)
  <2>1. \A q \in Pages : q # p => tab'.place[q] = tab.place[q] /\ tab'.body[q] = tab.body[q]
    BY <1>3, <1>8 DEF AddPage, Copy
  <2>2. Changed(p)
    BY <1>8 DEF AddPage, Changed
  <2>3. \A q \in Pages : q # p => Kept(q)
    BY <1>8, <2>1 DEF AddPage, Kept
  <2>4. QED
    BY <1>8, <2>2, <2>3 DEF AddPage
<1>9. ASSUME NEW p \in Pages, DeletePage(p)
      PROVE  /\ forgotten \subseteq forgotten'
             /\ \A q \in Pages : Kept(q) \/ Changed(q) \/ Dropped(q)
  <2>1. /\ \A q \in Pages : q # p => tab'.place[q] = tab.place[q] /\ tab'.body[q] = tab.body[q]
        /\ tab'.place[p] = Nowhere
    BY <1>3, <1>9 DEF DeletePage, Copy
  <2>2. Dropped(p)
    BY <1>9, <2>1 DEF DeletePage, Dropped
  <2>3. \A q \in Pages : q # p => Kept(q)
    BY <1>9, <2>1 DEF DeletePage, Kept
  <2>4. QED
    BY <1>9, <2>2, <2>3 DEF DeletePage
<1>10. ASSUME NEW p \in Pages, NEW root \in Roots, MovePage(p, root)
       PROVE  /\ forgotten \subseteq forgotten'
              /\ \A q \in Pages : Kept(q) \/ Changed(q) \/ Dropped(q)
  <2>1. OtherRoot(root) \in Roots
    BY DEF OtherRoot, Roots
  <2>2. /\ \A q \in Pages : q # p => tab'.place[q] = tab.place[q]
        /\ tab'.place[p] = root /\ tab.place[p] # Nowhere /\ tab'.body = tab.body
    BY <1>3, <1>4, <1>10, <2>1 DEF MovePage, Copy
  <2>3. QED
    BY <1>4, <1>10, <2>2 DEF MovePage, Kept
<1>11. forgotten \subseteq forgotten' /\ \A q \in Pages : Kept(q) \/ Changed(q) \/ Dropped(q)
  BY <1>5, <1>6, <1>7, <1>8, <1>9, <1>10 DEF EditingSteps
<1>12. QED
  BY <1>2, <1>11, EditBooks

(* What undo and redo make of the books.                                   *)
LEMMA ReckonedHolds ==
    ASSUME NEW set, NEW copy \in Copy, NEW p \in Pages
    PROVE  copy.place[p] # Nowhere /\ copy.body[p] # Empty => p \in Reckoned(set, copy)
BY DEF Reckoned, Hydrated, Placed, Copy, Rooted, Roots

LEMMA RestoreBooks ==
    ASSUME TypeInv, BookInv, Touched, UNCHANGED disk, NEW copy \in Copy, Restore(copy)
    PROVE  BookInv'
<1>1. /\ tab' = copy /\ forgotten \subseteq forgotten' /\ InFlight \subseteq forgotten'
      /\ loaded' = Reckoned(loaded, copy) /\ dirtyPages' = Reckoned(dirtyPages, copy)
      /\ {p \in InTree(copy) \ Reckoned(dirtyPages, copy) : copy.body[p] = Empty} \subseteq forgotten'
  BY DEF Restore
<1>2. \A p \in Pages : p \in InTree(tab)' \ forgotten' => p \in dirtyPages'
  BY <1>1, ReckonedHolds DEF InTree
<1>3. CoverInv' /\ NewPages'
  BY <1>2 DEF CoverInv, Covered, NewPages, InTree
<1>4. LoadedCover'
  BY <1>1 DEF BookInv, LoadedCover, Reckoned
<1>5. \A p \in Pages : p \in InFlight /\ p \in InTree(tab)' \ forgotten' => Travels(p)'
  BY <1>1
<1>6. QED
  BY <1>3, <1>4, <1>5, TouchedBooks

LEMMA HistoryBooks == ASSUME TypeInv, BookInv, Undo \/ Redo PROVE BookInv'
<1>1. past \in Seq(Copy) /\ future \in Seq(Copy)
  BY DEF TypeInv
<1>2. Touched /\ UNCHANGED disk
  BY DEF Undo, Redo, Edits, Changing
<1>3. CASE Undo
  <2>1. past # <<>> /\ Restore(past[Len(past)])
    BY <1>3 DEF Undo
  <2>2. past[Len(past)] \in Copy
    BY <1>1, <2>1
  <2>3. QED
    BY <1>2, <2>1, <2>2, RestoreBooks
<1>4. CASE Redo
  <2>1. future # <<>> /\ Restore(Head(future))
    BY <1>4 DEF Redo
  <2>2. Head(future) \in Copy
    BY <1>1, <2>1
  <2>3. QED
    BY <1>2, <2>1, <2>2, RestoreBooks
<1>5. QED
  BY <1>3, <1>4

(* Nothing is dirty, and no save runs.                                     *)
LEMMA LoadedBooks ==
    ASSUME dirtyPages' = {}, ~Saving',
           \A d \in Docs \ forgotten' : Reflected(d)' => StoredOn(disk', d) = Content(tab', d),
           FreshAnswer'
    PROVE  BookInv'
<1>1. CoverInv'
  <2>1. SUFFICES ASSUME NEW p \in Pages, p \in InTree(tab)' \ forgotten', Reflected(p)'
                 PROVE  StoredOn(disk', p) = tab'.body[p]
    BY DEF CoverInv, Covered, InTree
  <2>2. p \in Docs /\ p # Index /\ tab'.place[p] # Nowhere
    BY <2>1, ConstantsAssumption DEF Docs, InTree
  <2>3. QED
    BY <2>1, <2>2 DEF Content
<1>2. CleanInv'
  BY DEF CleanInv, Content, Docs
<1>3. LoadedCover'
  BY DEF LoadedCover
<1>4. FlightInv' /\ NewPages' /\ RunInv' /\ SavedCopy'
  BY DEF FlightInv, NewPages, RunInv, SavedCopy, InFlight, Saving
<1>5. QED
  BY <1>1, <1>2, <1>3, <1>4 DEF BookInv

LEMMA PageReloadBooks == ASSUME TypeInv, PageReload PROVE BookInv'
<1>1. /\ UNCHANGED disk /\ tab' = Answer.copy /\ dirtyPages' = {} /\ save' = NoSave
      /\ sync' = NoFetch
  BY DEF PageReload
<1>2. \A d \in Docs : StoredOn(disk', d) = Content(tab', d)
  BY <1>1, StoredIs
<1>3. FreshAnswer'
  BY <1>1 DEF FreshAnswer, NoFetch
<1>4. QED
  BY <1>1, <1>2, <1>3, LoadedBooks DEF Saving, NoSave

LEMMA SyncAnswersBooks ==
    ASSUME TypeInv, FlagsInv, BookInv, SyncAnswers
    PROVE  BookInv'
<1>1. SyncGoesOn
  BY DEF SyncAnswers, PassOver, SyncGoesOn
<1>2. CASE sync.stale
  BY <1>1, <1>2, StillBooks DEF SyncAnswers, books
<1>3. CASE ~sync.stale
  <2>1. ~dirty /\ ~Saving /\ sync.phase = "asked"
    BY <1>3 DEF FlagsInv, SyncAnswers
  <2>2. /\ UNCHANGED <<disk, save>> /\ tab' = sync.answer.copy /\ dirtyPages' = {}
    BY <1>3 DEF SyncAnswers, Load
  <2>3. \A d \in Docs : Reflected(d)' => StoredOn(disk', d) = Content(tab', d)
    BY <1>3, <2>1, <2>2 DEF BookInv, FreshAnswer, Reflected, Current, Docs
  <2>4. FreshAnswer'
    BY <1>1, <2>2, FreshOn DEF BookInv
  <2>5. QED
    BY <2>1, <2>2, <2>3, <2>4, LoadedBooks DEF Saving
<1>4. QED
  BY <1>2, <1>3

LEMMA MountAnswersBooks ==
    ASSUME TypeInv, FlagsInv, BookInv, MountAnswers
    PROVE  BookInv'
<1>1. /\ UNCHANGED <<disk, dirty, save, sync>> /\ tab' = loose.answer.copy /\ dirtyPages' = {}
  BY DEF MountAnswers, Load
<1>2. FreshAnswer'
  BY <1>1, FreshOn DEF BookInv, SyncGoesOn
<1>3. CASE ~dirty
  <2>1. forgotten' = {d \in Docs : Content(loose.answer.copy, d) # Stored(d)}
    BY <1>3 DEF MountAnswers
  <2>2. \A d \in Docs \ forgotten' : StoredOn(disk', d) = Content(tab', d)
    BY <1>1, <2>1, StoredIs
  <2>3. ~Saving
    BY <1>3 DEF FlagsInv
  <2>4. QED
    BY <1>1, <1>2, <2>2, <2>3, LoadedBooks DEF Saving
<1>4. CASE dirty
  <2>1. forgotten' = Docs /\ Pages \subseteq Docs
    BY <1>4 DEF MountAnswers, Docs
  <2>2. CoverInv' /\ CleanInv' /\ LoadedCover' /\ FlightInv' /\ NewPages'
    BY <1>1, <2>1 DEF CoverInv, Covered, CleanInv, LoadedCover, FlightInv, NewPages, Docs
  <2>3. RunInv'
    BY <1>1 DEF BookInv, RunInv, InTree
  <2>4. SavedCopy'
    BY <1>1, <2>1 DEF SavedCopy, Docs
  <2>5. QED
    BY <1>2, <2>2, <2>3, <2>4 DEF BookInv
<1>5. QED
  BY <1>3, <1>4 DEF TypeInv

(* A page that comes in by itself is as the tab had it, or the tab loses   *)
(* count of it.                                                            *)
LEMMA PageAnswersBooks ==
    ASSUME TypeInv, BookInv, PageAnswers
    PROVE  BookInv'
<1> DEFINE p == loose.page
<1>1. /\ loose \in PageFetches /\ p \in Pages /\ p # Index /\ Pages \subseteq Docs
      /\ tab \in Copy /\ tab.body \in [Pages -> Made] /\ tab.seen \in [Docs -> 0..turn]
  BY ConstantsAssumption DEF PageAnswers, TypeInv, NoFetch, IndexFetches, PageFetches, Copy, Docs
<1>2. /\ UNCHANGED <<disk, dirty, dirtyPages, save, sync>>
      /\ loaded' = loaded \cup {p} /\ forgotten \subseteq forgotten'
  BY DEF PageAnswers
<1>3. /\ tab'.place = tab.place /\ tab'.shell = tab.shell
      /\ \A q \in Pages : q = p \/ tab'.body[q] = tab.body[q]
      /\ \A d \in Docs : d = p \/ tab'.seen[d] = tab.seen[d]
  <2>1. CASE tab' = tab
    BY <2>1
  <2>2. CASE tab' # tab
    <3>1. tab' = [tab EXCEPT !.body[p] = loose.body, !.seen[p] = loose.seen]
      BY <2>2 DEF PageAnswers
    <3>2. /\ tab'.place = tab.place /\ tab'.shell = tab.shell
          /\ tab'.body = [tab.body EXCEPT ![p] = loose.body]
          /\ tab'.seen = [tab.seen EXCEPT ![p] = loose.seen]
      BY <1>1, <3>1 DEF Copy
    <3>3. QED
      BY <1>1, <3>2
  <2>3. QED
    BY <2>1, <2>2
<1>4. p \in forgotten' \/ tab' = tab
  <2>1. CASE tab.body[p] = loose.body /\ tab.seen[p] = loose.seen
    <3>1. [tab EXCEPT !.body[p] = loose.body, !.seen[p] = loose.seen] = tab
      BY <1>1, <2>1 DEF Copy, Docs
    <3>2. QED
      BY <3>1 DEF PageAnswers
  <2>2. CASE ~(tab.body[p] = loose.body /\ tab.seen[p] = loose.seen)
    BY <2>2 DEF PageAnswers
  <2>3. QED
    BY <2>1, <2>2
<1>5. \A d \in Docs \ forgotten' : Reflected(d)' = Reflected(d) /\ Content(tab', d) = Content(tab, d)
  <2>1. SUFFICES ASSUME NEW d \in Docs, d # p \/ tab' = tab
                 PROVE  Reflected(d)' = Reflected(d) /\ Content(tab', d) = Content(tab, d)
    BY <1>4
  <2>2. Reflected(d)' = Reflected(d)
    BY <1>1, <1>2, <1>3, <2>1 DEF Reflected, Current, Docs
  <2>3. Content(tab', d) = Content(tab, d)
    BY <1>1, <1>3, <2>1 DEF Content, IndexOf, Docs
  <2>4. QED
    BY <2>2, <2>3
<1>6. Current(Index)' = Current(Index) /\ InTree(tab)' = InTree(tab)
  BY <1>1, <1>2, <1>3 DEF Current, Docs, InTree
<1>7. \A q \in Pages \ forgotten' : tab'.body[q] = tab.body[q]
  BY <1>3, <1>4
<1>8. CoverInv' /\ LoadedCover' /\ NewPages' /\ RunInv'
  BY <1>1, <1>2, <1>5, <1>6, <1>7 DEF BookInv, CoverInv, Covered, LoadedCover, NewPages, RunInv,
     InTree
<1>9. CleanInv'
  BY <1>2, <1>5 DEF BookInv, CleanInv, Docs
<1>10. FlightInv'
  <2>1. SUFFICES ASSUME NEW q \in Pages, q \in InFlight, q \in InTree(tab) \ forgotten'
                 PROVE  Travels(q)'
    BY <1>2, <1>6 DEF FlightInv, InFlight
  <2>2. Travels(q)
    BY <1>2, <2>1 DEF BookInv, FlightInv
  <2>3. Reflected(q)' = Reflected(q) /\ tab'.body[q] = tab.body[q]
    BY <1>1, <1>5, <1>7, <2>1
  <2>4. QED
    BY <1>2, <1>6, <2>2, <2>3 DEF Travels, InTree
<1>11. SavedCopy'
  <2>1. SUFFICES ASSUME Saving, ~save.stale
                 PROVE  /\ \A d \in Docs \ forgotten' : Content(tab', d) = Content(save.copy, d)
                        /\ save.phase \in {"pages", "rest"} /\ Current(Index)
                               /\ forgotten' # Docs => IndexOf(disk) = IndexOf(save.copy)
                        /\ save.phase \in {"index", "pages"} =>
                               dirtyPages \subseteq save.want \cup forgotten'
                        /\ save.phase = "rest" => dirtyPages \cap InTree(tab) \subseteq forgotten'
    BY <1>2, <1>6 DEF SavedCopy, Saving, Docs
  <2>2. forgotten' # Docs => forgotten # Docs
    <3>1. forgotten' \subseteq Docs
      BY <1>1, <1>2 DEF PageAnswers, TypeInv
    <3>2. QED
      BY <1>2, <3>1
  <2>3. QED
    BY <1>2, <1>5, <2>1, <2>2 DEF BookInv, SavedCopy
<1>12. FreshAnswer'
  BY <1>2, FreshOn DEF BookInv, SyncGoesOn
<1>13. QED
  BY <1>8, <1>9, <1>10, <1>11, <1>12 DEF BookInv

(* A save that ends leaves the books as they are.                          *)
LEMMA EndedBooks ==
    ASSUME BookInv, UNCHANGED <<tab, loaded, dirtyPages, forgotten, sync>>, save' = NoSave,
           CoverInv', CleanInv', FreshAnswer'
    PROVE  BookInv'
<1>1. LoadedCover'
  BY DEF BookInv, LoadedCover
<1>2. FlightInv' /\ NewPages' /\ RunInv' /\ SavedCopy'
  BY DEF NoSave, FlightInv, NewPages, RunInv, SavedCopy, InFlight, Saving
<1>3. QED
  BY <1>1, <1>2 DEF BookInv

LEMMA BooksSame ==
    ASSUME BookInv, UNCHANGED <<disk, tab, dirtyPages, forgotten, sync>>, dirty' \/ UNCHANGED dirty
    PROVE  CoverInv' /\ CleanInv' /\ FreshAnswer'
<1>1. CoverInv' /\ CleanInv'
  BY DEF BookInv, CoverInv, Covered, CleanInv, Reflected, Current, InTree, Content, IndexOf, Docs
<1>2. FreshAnswer'
  BY FreshOn DEF BookInv, SyncGoesOn
<1>3. QED
  BY <1>1, <1>2

LEMMA SaveBooks == ASSUME TypeInv, BookInv, Save PROVE BookInv'
<1>1. /\ UNCHANGED <<disk, tab, loaded, dirtyPages, dirty, forgotten, sync>>
      /\ save'.phase = "index" /\ save'.copy = tab /\ save'.want = dirtyPages
      /\ save'.done = {} /\ ~save'.bad
  BY DEF Save, books, ghosts
<1>2. CoverInv' /\ CleanInv' /\ FreshAnswer'
  BY <1>1, BooksSame
<1>3. LoadedCover' /\ NewPages' /\ RunInv'
  BY <1>1 DEF BookInv, LoadedCover, NewPages, RunInv, InTree
<1>4. FlightInv'
  BY <1>1 DEF FlightInv, Travels, InFlight, InTree
<1>5. SavedCopy'
  BY <1>1 DEF SavedCopy, Content, IndexOf, Docs
<1>6. QED
  BY <1>2, <1>3, <1>4, <1>5 DEF BookInv

LEMMA RewrittenStored ==
    ASSUME TypeInv, DocsInPlace(disk), NEW copy \in Copy, NEW p \in Pages
    PROVE  /\ copy.place[p] = Nowhere => StoredOn(Rewritten(copy), p) = Missing
           /\ copy.place[p] # Nowhere /\ disk.place[p] # Nowhere =>
                  StoredOn(Rewritten(copy), p) = StoredOn(disk, p)
<1> DEFINE r == copy.place[p]
<1>1. /\ Rewritten(copy).place = copy.place
      /\ \A s \in Roots, q \in Pages : Rewritten(copy).doc[s][q] =
             IF copy.place[q] # s THEN Missing
             ELSE IF disk.doc[s][q] # Missing THEN disk.doc[s][q]
             ELSE disk.doc[OtherRoot(s)][q]
  BY RewrittenDisk
<1>2. p # Index /\ r \in Roots \cup {Nowhere} /\ disk.place[p] \in Roots \cup {Nowhere}
  BY ConstantsAssumption DEF TypeInv, Copy, Server, Rooted
<1>3. CASE r = Nowhere
  BY <1>1, <1>2, <1>3 DEF StoredOn
<1>4. CASE r # Nowhere /\ disk.place[p] # Nowhere
  <2>1. r \in Roots /\ disk.place[p] \in Roots /\ OtherRoot(r) \in Roots
        /\ disk.place[p] \in {r, OtherRoot(r)} /\ OtherRoot(r) # r
    BY <1>2, <1>4 DEF Roots, OtherRoot
  <2>2. Rewritten(copy).doc[r][p] = IF disk.doc[r][p] # Missing THEN disk.doc[r][p]
                        ELSE disk.doc[OtherRoot(r)][p]
    BY <1>1, <2>1
  <2>3. /\ disk.place[p] = r => disk.doc[OtherRoot(r)][p] = Missing
        /\ disk.place[p] = OtherRoot(r) => disk.doc[r][p] = Missing
    BY <1>4, <2>1 DEF DocsInPlace
  <2>4. Rewritten(copy).doc[r][p] = disk.doc[disk.place[p]][p]
    BY <2>1, <2>2, <2>3
  <2>5. QED
    BY <1>1, <1>2, <1>4, <2>4 DEF StoredOn
<1>5. QED
  BY <1>3, <1>4

LEMMA NeverMissing == ASSUME TypeInv PROVE Missing \notin Made
<1>1. turn \in 0..MaxOther /\ MaxOther \in Nat
  BY BoundsAssumption DEF TypeInv
<1>2. 1..turn \subseteq 1..MaxOther
  BY <1>1
<1>3. QED
  BY <1>2, ConstantsAssumption DEF Made, Contents, Changes

LEMMA IndexWrittenBooks ==
    ASSUME TypeInv, FlagsInv, Placement, BookInv, NEW out \in {"ok", "lost"}, PutIndex(out)
    PROVE  BookInv'
<1>1. /\ Saving /\ save.phase = "index" /\ dirty
      /\ UNCHANGED <<tab, loaded, dirtyPages, dirty, forgotten, sync>>
      /\ disk' = Rewritten(save.copy)
  BY DEF PutIndex, SaveKeeps, Saving, FlagsInv
<1>2. save \in SaveFields /\ save.copy \in Copy /\ DocsInPlace(disk) /\ disk \in Server /\ tab \in Copy
  BY <1>1, RunFields DEF Placement, TypeInv
<1>3. /\ disk'.place = save.copy.place /\ disk'.shell = save.copy.shell
      /\ disk'.stamp = disk.stamp
  BY <1>1, <1>2, RewrittenDisk
<1>4. \A d \in Docs : Reflected(d)' = Reflected(d)
  BY <1>1, <1>3 DEF Reflected, Current, Docs
<1>5. CoverInv'
  <2>1. SUFFICES ASSUME NEW p \in Pages, p \in InTree(tab) \ forgotten, Reflected(p),
                        StoredOn(disk', p) # tab.body[p]
                 PROVE  p \in dirtyPages
    BY <1>1, <1>4 DEF CoverInv, Covered, InTree, Docs
  <2>2. CASE save.copy.place[p] = Nowhere
    BY <1>1, <2>1, <2>2 DEF BookInv, NewPages, InTree
  <2>3. CASE disk.place[p] = Nowhere
    <3>1. p # Index /\ tab.body[p] \in Made
      BY <1>2, ConstantsAssumption DEF Copy
    <3>2. StoredOn(disk, p) = Missing
      BY <2>3, <3>1 DEF StoredOn
    <3>3. QED
      BY <2>1, <3>1, <3>2, NeverMissing DEF BookInv, CoverInv, Covered
  <2>4. CASE save.copy.place[p] # Nowhere /\ disk.place[p] # Nowhere
    <3>1. StoredOn(disk', p) = StoredOn(disk, p)
      BY <1>1, <1>2, <2>4, RewrittenStored
    <3>2. QED
      BY <2>1, <3>1 DEF BookInv, CoverInv, Covered
  <2>5. QED
    BY <2>2, <2>3, <2>4
<1>6. CleanInv'
  BY <1>1 DEF CleanInv
<1>7. FreshAnswer'
  BY <1>1, SavingIsStale DEF FreshAnswer
<1>8. CASE out = "lost"
  <2>1. save' = NoSave
    BY <1>8 DEF PutIndex
  <2>2. QED
    BY <1>1, <1>5, <1>6, <1>7, <2>1, EndedBooks
<1>9. CASE out = "ok"
  <2>1. save' = [save EXCEPT !.phase = "pages", !.loaded = loaded,
                             !.left = save.want \cap InTree(save.copy)]
    BY <1>9 DEF PutIndex
  <2>2. /\ save'.phase = "pages" /\ save'.loaded = loaded
        /\ save'.left = save.want \cap InTree(save.copy)
        /\ save'.copy = save.copy /\ save'.want = save.want /\ save'.done = save.done
        /\ save'.stale = save.stale /\ save'.bad = save.bad
    BY <1>2, <2>1 DEF SaveFields
  <2>3. LoadedCover' /\ NewPages'
    BY <1>1, <2>2 DEF BookInv, LoadedCover, NewPages
  <2>4. RunInv'
    BY <1>1, <2>2 DEF BookInv, RunInv, InTree
  <2>5. FlightInv'
    <3>1. SUFFICES ASSUME NEW p \in Pages, p \in save.want, p \in InTree(tab) \ forgotten
                   PROVE  Travels(p)'
      BY <1>1, <2>2 DEF FlightInv, InFlight, InTree
    <3>2. Travels(p)
      BY <1>1, <3>1 DEF BookInv, FlightInv, InFlight
    <3>3. p \in loaded /\ save.done = {} /\ save.copy.place[p] # Nowhere
      BY <1>1, <3>1, <3>2 DEF BookInv, LoadedCover, RunInv, Travels, InTree
    <3>4. QED
      BY <1>1, <1>3, <2>2, <3>2, <3>3 DEF Travels, InTree
  <2>6. SavedCopy'
    <3>1. SUFFICES ASSUME ~save.stale
                   PROVE  /\ \A d \in Docs \ forgotten : Content(tab, d) = Content(save.copy, d)
                          /\ IndexOf(disk') = IndexOf(save.copy)
                          /\ dirtyPages \subseteq save.want \cup forgotten
      BY <1>1, <2>2 DEF SavedCopy, Docs, Content, IndexOf
    <3>2. IndexOf(disk') = IndexOf(save.copy)
      BY <1>3 DEF IndexOf
    <3>3. QED
      BY <1>1, <3>1, <3>2 DEF BookInv, SavedCopy
  <2>7. QED
    BY <1>5, <1>6, <1>7, <2>3, <2>4, <2>5, <2>6 DEF BookInv
<1>10. QED
  BY <1>8, <1>9

LEMMA PageWrittenBooks ==
    ASSUME TypeInv, FlagsInv, Placement, BookInv,
           NEW p \in Pages, NEW out \in {"ok", "failed", "lost"}, PutPage(p, out)
    PROVE  BookInv'
<1> DEFINE root == save.copy.place[p]
<1>1. /\ Saving /\ save.phase = "pages" /\ p \in save.left /\ dirty
      /\ UNCHANGED <<tab, loaded, dirtyPages, dirty, forgotten, sync>>
      /\ disk' = disk \/ (out # "failed" /\ disk' = [disk EXCEPT !.doc[root][p] = PageSent(p)])
      /\ out = "ok" => disk' = [disk EXCEPT !.doc[root][p] = PageSent(p)]
  BY DEF PutPage, SaveKeeps, Saving, FlagsInv
<1>2. /\ save \in SaveFields /\ save.copy \in Copy /\ root \in Roots /\ disk \in Server
      /\ PageSent(p) \in Made /\ p # Index /\ p \in Docs /\ save.left \subseteq Pages
  BY <1>1, RunFields, PageSentType, ConstantsAssumption DEF TypeInv, Docs
<1>3. disk.place[p] \in {root, Nowhere} /\ Nowhere \notin Roots /\ disk.place \in Rooted
  BY <1>1, <1>2, ConstantsAssumption DEF Placement, Sendable, Server
<1>4. /\ disk'.stamp = disk.stamp /\ disk'.place = disk.place /\ disk'.shell = disk.shell
      /\ \A r \in Roots, q \in Pages : r # root \/ q # p => disk'.doc[r][q] = disk.doc[r][q]
      /\ disk' # disk => disk'.doc[root][p] = PageSent(p)
      /\ out = "ok" => disk'.doc[root][p] = PageSent(p)
  BY <1>1, <1>2 DEF Server
<1>5. \A d \in Docs : d # p => StoredOn(disk', d) = StoredOn(disk, d)
  BY <1>2, <1>3, <1>4 DEF StoredOn, IndexOf, Docs, Rooted
<1>6. disk' # disk \/ out = "ok" =>
          StoredOn(disk', p) = IF disk.place[p] = Nowhere THEN Missing ELSE PageSent(p)
  BY <1>2, <1>3, <1>4, NeverMissing DEF StoredOn
<1>7. \A d \in Docs : Reflected(d)' = Reflected(d)
  BY <1>1, <1>4 DEF Reflected, Current, Docs
<1>8. p \in InTree(tab) \ forgotten => Travels(p)
  BY <1>1 DEF BookInv, FlightInv, RunInv, InFlight
<1>9. CoverInv'
  <2>1. SUFFICES ASSUME NEW q \in Pages PROVE Covered(q)'
    BY DEF CoverInv
  <2>2. CASE q = p
    BY <1>1, <1>8, <2>2 DEF Covered, Travels, InTree
  <2>3. CASE q # p
    <3>1. Covered(q) /\ StoredOn(disk', q) = StoredOn(disk, q) /\ Reflected(q)' = Reflected(q)
      BY <1>5, <1>7, <2>3 DEF BookInv, CoverInv, Docs
    <3>2. QED
      BY <1>1, <3>1 DEF Covered, InTree
  <2>4. QED
    BY <2>2, <2>3
<1>10. CleanInv' /\ LoadedCover'
  BY <1>1 DEF BookInv, CleanInv, LoadedCover
<1>11. FreshAnswer'
  BY <1>1, SavingIsStale DEF FreshAnswer
<1>12. /\ save'.phase = "pages" /\ save'.copy = save.copy /\ save'.want = save.want
       /\ save'.loaded = save.loaded /\ save'.stale = save.stale
       /\ save'.left = save.left \ {p}
       /\ \/ out = "ok" /\ save'.done = save.done \cup {p} /\ save'.bad = save.bad
          \/ out # "ok" /\ save'.done = save.done /\ save'.bad
  <2>1. CASE out = "ok"
    BY <1>1, <1>2, <2>1 DEF PutPage, SaveFields
  <2>2. CASE out # "ok"
    BY <1>1, <1>2, <2>2 DEF PutPage, SaveFields
  <2>3. QED
    BY <2>1, <2>2
<1>13. NewPages' /\ RunInv'
  BY <1>1, <1>12 DEF BookInv, NewPages, RunInv, InTree
<1>14. FlightInv'
  <2>1. SUFFICES ASSUME NEW q \in Pages, q \in save.want, q \in InTree(tab) \ forgotten
                 PROVE  Travels(q)'
    BY <1>1, <1>12 DEF FlightInv, InFlight, InTree
  <2>2. Travels(q) /\ Current(Index)' = Current(Index) /\ Reflected(q)' = Reflected(q)
    <3>1. Current(Index)' = Current(Index)
      BY <1>1, <1>4 DEF Current, Docs
    <3>2. QED
      BY <1>1, <1>7, <2>1, <3>1 DEF BookInv, FlightInv, InFlight, Docs
  <2>3. q \in save'.done /\ Reflected(q) => StoredOn(disk', q) = tab.body[q]
    <3>1. SUFFICES ASSUME q \in save'.done, Reflected(q) PROVE StoredOn(disk', q) = tab.body[q]
      OBVIOUS
    <3>2. CASE q = p /\ (disk' # disk \/ out = "ok")
      <4>1. disk.place[p] # Nowhere /\ p \in save.loaded /\ tab.body[p] = save.copy.body[p]
        BY <1>1, <2>2, <3>1, <3>2 DEF Travels, Reflected
      <4>2. QED
        BY <1>6, <3>2, <4>1 DEF PageSent
    <3>3. CASE q # p
      <4>1. q \in save.done /\ StoredOn(disk', q) = StoredOn(disk, q)
        BY <1>5, <1>12, <3>1, <3>3 DEF Docs
      <4>2. QED
        BY <1>1, <2>2, <3>1, <4>1 DEF Travels
    <3>4. CASE q = p /\ disk' = disk /\ out # "ok"
      BY <1>1, <1>12, <2>2, <3>1, <3>4 DEF Travels
    <3>5. QED
      BY <3>2, <3>3, <3>4
  <2>4. QED
    BY <1>1, <1>4, <1>12, <2>2, <2>3 DEF Travels, InTree
<1>15. SavedCopy'
  <2>1. SUFFICES ASSUME ~save.stale
                 PROVE  /\ \A d \in Docs \ forgotten : Content(tab, d) = Content(save.copy, d)
                        /\ Current(Index) /\ forgotten # Docs => IndexOf(disk') = IndexOf(save.copy)
                        /\ dirtyPages \subseteq save.want \cup forgotten
    <3>1. Current(Index)' = Current(Index) /\ Saving' /\ Docs' = Docs
      BY <1>1, <1>4, <1>12 DEF Current, Docs, Saving
    <3>2. \A d \in Docs : Content(tab, d)' = Content(tab, d) /\ Content(save.copy, d)' = Content(save.copy, d)
      BY <1>1, <1>12 DEF Content, IndexOf
    <3>3. QED
      BY <1>1, <1>12, <3>1, <3>2 DEF SavedCopy, IndexOf
  <2>2. IndexOf(disk') = IndexOf(disk)
    BY <1>4 DEF IndexOf
  <2>3. QED
    BY <1>1, <2>1, <2>2 DEF BookInv, SavedCopy
<1>16. QED
  BY <1>9, <1>10, <1>11, <1>13, <1>14, <1>15 DEF BookInv

LEMMA RefusedBooks ==
    ASSUME TypeInv, BookInv,
           \/ PutIndexRefused \/ PutIndex("failed")
           \/ \E p \in Pages : PutPageRefused(p)
    PROVE  BookInv'
<1>1. CASE PutIndexRefused \/ PutIndex("failed")
  <2>1. /\ UNCHANGED <<disk, tab, loaded, dirtyPages, dirty, forgotten, sync>>
        /\ save' = NoSave
    BY <1>1 DEF PutIndexRefused, PutIndex, SaveKeeps, books
  <2>2. QED
    BY <2>1, BooksSame, EndedBooks
<1>2. ASSUME NEW p \in Pages, PutPageRefused(p) PROVE BookInv'
  <2>1. /\ UNCHANGED <<disk, tab, loaded, dirtyPages, dirty, forgotten, sync>>
        /\ Saving /\ save.phase = "pages"
    BY <1>2 DEF PutPageRefused, SaveKeeps, books, Saving
  <2>2. save \in SaveFields
    BY <2>1, RunFields
  <2>3. /\ save'.phase = "pages" /\ save'.copy = save.copy /\ save'.want = save.want
        /\ save'.loaded = save.loaded /\ save'.stale = save.stale
        /\ save'.left = save.left \ {p} /\ save'.done = save.done /\ save'.bad
    BY <1>2, <2>1, <2>2 DEF PutPageRefused, SaveFields
  <2>4. CoverInv' /\ CleanInv' /\ FreshAnswer'
    BY <2>1, BooksSame
  <2>5. LoadedCover' /\ NewPages' /\ RunInv'
    BY <2>1, <2>3 DEF BookInv, LoadedCover, NewPages, RunInv, InTree
  <2>6. FlightInv'
    BY <2>1, <2>3 DEF BookInv, FlightInv, Travels, InFlight, Reflected, Current, InTree
  <2>7. SavedCopy'
    <3>1. /\ Current(Index)' = Current(Index) /\ Docs' = Docs /\ InTree(tab)' = InTree(tab)
          /\ IndexOf(disk)' = IndexOf(disk) /\ IndexOf(save.copy)' = IndexOf(save.copy)
          /\ Saving'
      BY <2>1, <2>3 DEF Current, Docs, InTree, IndexOf, Saving
    <3>2. \A d \in Docs : /\ Content(tab, d)' = Content(tab, d)
                          /\ Content(save.copy, d)' = Content(save.copy, d)
      BY <2>1, <2>3 DEF Content, IndexOf
    <3>3. QED
      BY <2>1, <2>3, <3>1, <3>2 DEF BookInv, SavedCopy
  <2>8. QED
    BY <2>4, <2>5, <2>6, <2>7 DEF BookInv
<1>3. QED
  BY <1>1, <1>2

LEMMA PagesDoneBooks == ASSUME TypeInv, FlagsInv, BookInv, PagesDone PROVE BookInv'
<1>1. /\ UNCHANGED <<disk, tab, loaded, dirty, forgotten, sync>>
      /\ Saving /\ save.phase = "pages" /\ save.left = {} /\ dirty
      /\ dirtyPages' = dirtyPages \ save.done
  BY DEF PagesDone, SaveKeeps, Saving, FlagsInv
<1>2. save \in SaveFields
  BY <1>1, RunFields
<1>3. CoverInv'
  <2>1. SUFFICES ASSUME NEW p \in Pages, p \in InTree(tab) \ forgotten, Reflected(p),
                        StoredOn(disk, p) # tab.body[p]
                 PROVE  p \in dirtyPages \ save.done
    BY <1>1 DEF CoverInv, Covered, InTree, Reflected, Current
  <2>2. p \in dirtyPages
    BY <2>1 DEF BookInv, CoverInv, Covered
  <2>3. p \notin save.done
    <3>1. SUFFICES ASSUME p \in save.done PROVE FALSE
      OBVIOUS
    <3>2. p \in InFlight
      BY <1>1, <3>1 DEF BookInv, RunInv, InFlight
    <3>3. Travels(p)
      BY <2>1, <3>2 DEF BookInv, FlightInv
    <3>4. QED
      BY <1>1, <2>1, <3>1, <3>3 DEF Travels
  <2>4. QED
    BY <2>2, <2>3
<1>4. CleanInv' /\ LoadedCover'
  BY <1>1 DEF BookInv, CleanInv, LoadedCover
<1>5. FreshAnswer'
  BY <1>1, FreshOn DEF BookInv, SyncGoesOn
<1>6. CASE save.bad
  <2>1. save' = NoSave
    BY <1>6 DEF PagesDone
  <2>2. FlightInv' /\ NewPages' /\ RunInv' /\ SavedCopy'
    BY <2>1 DEF NoSave, FlightInv, NewPages, RunInv, SavedCopy, InFlight, Saving
  <2>3. QED
    BY <1>3, <1>4, <1>5, <2>2 DEF BookInv
<1>7. CASE ~save.bad
  <2>1. /\ save'.phase = "rest" /\ save'.copy = save.copy /\ save'.stale = save.stale
    BY <1>2, <1>7 DEF PagesDone, SaveFields
  <2>2. FlightInv' /\ NewPages' /\ RunInv'
    BY <2>1 DEF FlightInv, NewPages, RunInv, InFlight
  <2>3. SavedCopy'
    <3>1. SUFFICES ASSUME ~save.stale
                   PROVE  /\ \A d \in Docs \ forgotten : Content(tab, d) = Content(save.copy, d)
                          /\ Current(Index) /\ forgotten # Docs =>
                                 IndexOf(disk) = IndexOf(save.copy)
                          /\ (dirtyPages \ save.done) \cap InTree(tab) \subseteq forgotten
      <4>1. Current(Index)' = Current(Index) /\ Docs' = Docs /\ InTree(tab)' = InTree(tab)
        BY <1>1 DEF Current, Docs, InTree
      <4>2. \A d \in Docs : /\ Content(tab, d)' = Content(tab, d)
                            /\ Content(save.copy, d)' = Content(save.copy, d)
        BY <1>1, <2>1 DEF Content, IndexOf
      <4>3. QED
        BY <1>1, <2>1, <3>1, <4>1, <4>2 DEF SavedCopy, IndexOf
    <3>2. ASSUME NEW p \in (dirtyPages \ save.done) \cap InTree(tab), p \notin forgotten
          PROVE  FALSE
      <4>1. p \in save.want /\ p \in Pages
        BY <1>1, <3>1, <3>2 DEF BookInv, SavedCopy, TypeInv
      <4>2. Travels(p)
        BY <1>1, <3>2, <4>1 DEF BookInv, FlightInv, InFlight
      <4>3. p \in save.left \cup save.done
        BY <1>1, <1>7, <4>1, <4>2 DEF BookInv, RunInv, Travels
      <4>4. QED
        BY <1>1, <3>2, <4>3
    <3>3. QED
      BY <1>1, <3>1, <3>2 DEF BookInv, SavedCopy
  <2>4. QED
    BY <1>3, <1>4, <1>5, <2>2, <2>3 DEF BookInv
<1>8. QED
  BY <1>6, <1>7

LEMMA RestDoneBooks ==
    ASSUME TypeInv, FlagsInv, BookInv, NEW works \in BOOLEAN, RestDone(works)
    PROVE  BookInv'
<1>1. /\ UNCHANGED <<disk, tab, loaded, dirtyPages, forgotten, sync>>
      /\ Saving /\ save.phase = "rest" /\ save' = NoSave /\ dirty
      /\ dirty' = IF works THEN save.stale ELSE dirty
  BY DEF RestDone, Saving, FlagsInv, books, ghosts
<1>2. CASE dirty'
  BY <1>1, <1>2, BooksSame, EndedBooks
<1>3. CASE ~dirty'
  <2>1. ~save.stale
    BY <1>1, <1>3
  <2>2. /\ \A d \in Docs \ forgotten : Content(tab, d) = Content(save.copy, d)
        /\ Current(Index) /\ forgotten # Docs => IndexOf(disk) = IndexOf(save.copy)
        /\ dirtyPages \cap InTree(tab) \subseteq forgotten
    BY <1>1, <2>1 DEF BookInv, SavedCopy
  <2>3. ASSUME NEW d \in Docs \ forgotten, Reflected(d)
        PROVE  StoredOn(disk, d) = Content(tab, d)
    <3>1. IndexOf(disk) = IndexOf(save.copy) /\ Content(tab, d) = Content(save.copy, d)
      BY <2>2, <2>3 DEF Reflected
    <3>2. CASE d = Index
      BY <3>1, <3>2 DEF StoredOn, Content
    <3>3. CASE d \in InTree(tab)
      <4>1. d \in Pages /\ d # Index /\ Content(tab, d) = tab.body[d]
        BY <3>3, ConstantsAssumption DEF InTree, Content
      <4>2. d \notin dirtyPages
        BY <2>2, <2>3, <3>3
      <4>3. QED
        BY <2>3, <3>3, <4>1, <4>2 DEF BookInv, CoverInv, Covered
    <3>4. CASE d # Index /\ d \notin InTree(tab)
      <4>1. d \in Pages /\ Content(tab, d) = Missing
        BY <3>4 DEF Docs, InTree, Content
      <4>2. save.copy.place[d] = Nowhere
        <5>1. save.copy \in Copy
          BY <1>1, RunFields
        <5>2. save.copy.body[d] # Missing
          BY <4>1, <5>1, NeverMissing DEF Copy
        <5>3. QED
          BY <3>1, <3>4, <4>1, <5>2 DEF Content
      <4>3. disk.place[d] = Nowhere
        BY <3>1, <4>2 DEF IndexOf
      <4>4. QED
        BY <3>4, <4>1, <4>3 DEF StoredOn
    <3>5. QED
      BY <3>2, <3>3, <3>4
  <2>4. CleanInv'
    BY <1>1, <2>3 DEF CleanInv, Reflected, Current, Content, IndexOf, Docs
  <2>5. CoverInv'
    BY <1>1 DEF BookInv, CoverInv, Covered, Reflected, Current, InTree
  <2>6. FreshAnswer'
    BY <1>1, FreshOn DEF BookInv, SyncGoesOn
  <2>7. QED
    BY <1>1, <2>4, <2>5, <2>6, EndedBooks
<1>4. QED
  BY <1>2, <1>3

LEMMA SavesBooks ==
    ASSUME TypeInv, FlagsInv, Placement, BookInv, Saves
    PROVE  BookInv'
BY SaveBooks, IndexWrittenBooks, PageWrittenBooks, RefusedBooks, PagesDoneBooks, RestDoneBooks
   DEF Saves

(* What another writer changes is no longer what the tab reflects.         *)
LEMMA OverwrittenBooks ==
    ASSUME TypeInv, AgesInv, BookInv, OtherChanges, NEW touched, Overwrites(touched),
           \/ Index \in touched
           \/ /\ disk'.place = disk.place /\ disk'.shell = disk.shell
    PROVE  BookInv'
<1>1. UNCHANGED <<tab, loaded, dirtyPages, dirty, forgotten, save, sync>>
  BY DEF OtherChanges, books
<1>2. Index \in Docs /\ Pages \subseteq Docs /\ Index \notin Pages
  BY ConstantsAssumption DEF Docs
<1>3. ASSUME NEW d \in Docs, NEW copy \in Aged(disk)
      PROVE  copy.seen[d] = disk'.stamp[d] => d \notin touched /\ copy.seen[d] = disk.stamp[d]
  <2>1. copy.seen[d] <= disk.stamp[d] /\ copy.seen[d] \in Nat /\ disk.stamp[d] \in Nat
    BY <1>3 DEF Aged, Copy, TypeInv, Server
  <2>2. QED
    BY <2>1, StampedSame DEF Overwrites
<1>4. \A d \in Docs : Current(d)' => d \notin touched /\ Current(d)
  BY <1>1, <1>3 DEF AgesInv, Current
<1>5. \A d \in Docs : d \notin touched /\ Index \notin touched => StoredOn(disk', d) = StoredOn(disk, d)
  <2>1. SUFFICES ASSUME NEW d \in Docs, d \notin touched, Index \notin touched
                 PROVE  StoredOn(disk', d) = StoredOn(disk, d)
    OBVIOUS
  <2>2. disk'.place = disk.place /\ disk'.shell = disk.shell /\ disk.place \in Rooted
    BY <2>1 DEF TypeInv, Server
  <2>3. CASE d = Index
    BY <2>2, <2>3 DEF StoredOn, IndexOf
  <2>4. CASE d # Index
    <3>1. d \in Pages /\ \A r \in Roots : disk'.doc[r][d] = disk.doc[r][d]
      BY <2>1, <2>4 DEF Overwrites, Docs
    <3>2. disk.place[d] \in Roots \cup {Nowhere}
      BY <2>2, <3>1 DEF Rooted
    <3>3. QED
      BY <2>2, <2>4, <3>1, <3>2 DEF StoredOn
  <2>5. QED
    BY <2>3, <2>4
<1>6. \A d \in Docs : Reflected(d)' =>
          d \notin touched /\ Index \notin touched /\ Reflected(d)
          /\ StoredOn(disk', d) = StoredOn(disk, d)
  BY <1>2, <1>4, <1>5 DEF Reflected
<1>7. Current(Index)' => /\ Current(Index) /\ disk'.place = disk.place
                         /\ IndexOf(disk') = IndexOf(disk)
  BY <1>2, <1>4 DEF IndexOf
<1>8. CoverInv' /\ CleanInv' /\ LoadedCover'
  <2>1. CoverInv'
    BY <1>1, <1>2, <1>6 DEF BookInv, CoverInv, Covered, InTree
  <2>2. CleanInv'
    <3>1. \A d \in Docs : Content(tab, d)' = Content(tab, d)
      BY <1>1 DEF Content, IndexOf
    <3>2. QED
      BY <1>1, <1>6, <3>1 DEF BookInv, CleanInv, Docs
  <2>3. QED
    BY <1>1, <2>1, <2>2 DEF BookInv, LoadedCover
<1>9. NewPages' /\ RunInv'
  BY <1>1 DEF BookInv, NewPages, RunInv, InTree
<1>10. FlightInv'
  <2>1. SUFFICES ASSUME NEW p \in Pages, p \in InFlight, p \in InTree(tab) \ forgotten
                 PROVE  Travels(p)'
    BY <1>1 DEF FlightInv, InFlight, InTree
  <2>2. Travels(p)
    BY <2>1 DEF BookInv, FlightInv
  <2>3. QED
    BY <1>1, <1>2, <1>6, <1>7, <2>2 DEF Travels, InTree
<1>11. SavedCopy'
  <2>1. \A d \in Docs : /\ Content(tab, d)' = Content(tab, d)
                        /\ Content(save.copy, d)' = Content(save.copy, d)
    BY <1>1 DEF Content, IndexOf
  <2>2. /\ Saving' = Saving /\ Docs' = Docs /\ InTree(tab)' = InTree(tab)
        /\ IndexOf(save.copy)' = IndexOf(save.copy) /\ IndexOf(disk)' = IndexOf(disk')
    BY <1>1 DEF Saving, Docs, InTree, IndexOf
  <2>3. QED
    BY <1>1, <1>7, <2>1, <2>2 DEF BookInv, SavedCopy
<1>12. FreshAnswer'
  <2>1. SUFFICES ASSUME sync.phase = "asked", ~sync.stale, NEW d \in Docs,
                        sync.answer.copy.seen[d] = disk'.stamp[d],
                        sync.answer.copy.seen[Index] = disk'.stamp[Index]
                 PROVE  StoredOn(disk', d) = Content(sync.answer.copy, d)
    BY <1>1 DEF FreshAnswer, Docs, Content, IndexOf
  <2>2. sync.answer.copy \in Aged(disk)
    BY <2>1 DEF AgesInv
  <2>3. /\ d \notin touched /\ sync.answer.copy.seen[d] = disk.stamp[d]
        /\ Index \notin touched /\ sync.answer.copy.seen[Index] = disk.stamp[Index]
    BY <1>2, <1>3, <2>1, <2>2
  <2>4. QED
    BY <1>5, <2>1, <2>3 DEF BookInv, FreshAnswer
<1>13. QED
  BY <1>8, <1>9, <1>10, <1>11, <1>12 DEF BookInv

LEMMA OthersBooks ==
    ASSUME TypeInv, AgesInv, DocsInPlace(disk), BookInv, Others
    PROVE  BookInv'
<1>1. CASE LoseEvent
  BY <1>1, StillBooks DEF LoseEvent, books, SyncGoesOn
<1>2. ASSUME NEW p \in Pages, OtherWritesPage(p) PROVE BookInv'
  BY <1>2, PageOverwritten, OverwrittenBooks DEF OtherWritesPage
<1>3. CASE OtherWritesIndex
  BY <1>3, IndexOverwritten, OverwrittenBooks DEF OtherWritesIndex
<1>4. ASSUME NEW p \in Pages, OtherDeletesPage(p) PROVE BookInv'
  <2>1. OtherChanges /\ Overwrites({p, Index}) /\ Index \in {p, Index}
    BY <1>4, PageDropped DEF OtherDeletesPage
  <2>2. QED
    BY <2>1, OverwrittenBooks
<1>5. QED
  BY <1>1, <1>2, <1>3, <1>4 DEF Others

LEMMA FetchesBooks == ASSUME TypeInv, FlagsInv, BookInv, Fetches PROVE BookInv'
<1>1. CASE Hear
  BY <1>1, HearGoesOn, StillBooks DEF Hear, books, ghosts
<1>2. CASE SyncFails
  BY <1>2, StillBooks DEF SyncFails, PassOver, SyncGoesOn, books, ghosts
<1>3. CASE Mount \/ \E p \in Pages : AskPage(p)
  BY <1>3, StillBooks DEF Mount, AskPage, Fetch, SyncGoesOn, books, ghosts
<1>4. QED
  BY <1>1, <1>2, <1>3, SyncAnswersBooks, MountAnswersBooks, PageAnswersBooks DEF Fetches

LEMMA BookStep ==
    ASSUME TypeInv, FlagsInv, AgesInv, Placement, BookInv, [Next]_vars
    PROVE  BookInv'
<1>1. CASE Author
  <2>1. CASE KeepUnsaved
    BY <2>1, StillBooks DEF KeepUnsaved, books, SyncGoesOn
  <2>2. QED
    BY <1>1, <2>1, EditingBooks, HistoryBooks, PageReloadBooks DEF Author, EditingSteps
<1>2. CASE Saves
  BY <1>2, SavesBooks
<1>3. CASE Others
  BY <1>3, OthersBooks DEF Placement
<1>4. CASE Fetches
  BY <1>4, FetchesBooks
<1>5. CASE UNCHANGED vars
  BY <1>5, StillBooks DEF vars, books, ghosts, SyncGoesOn
<1>6. QED
  BY <1>1, <1>2, <1>3, <1>4, <1>5 DEF Next

LEMMA InitBooks == ASSUME Init PROVE AgesInv /\ BookInv
<1>1. TypeInv
  BY InitType
<1>2. /\ tab = Answer.copy /\ dirtyPages = {} /\ past = <<>> /\ future = <<>>
      /\ save = NoSave /\ sync = NoFetch /\ loose = NoFetch
  BY DEF Init
<1>3. AgesInv
  BY <1>1, <1>2, AnswerAged DEF AgesInv, NoFetch
<1>4. \A d \in Docs : StoredOn(disk, d) = Content(tab, d)
  BY <1>2, StoredIs
<1>5. CoverInv
  <2>1. SUFFICES ASSUME NEW p \in Pages, p \in InTree(tab) PROVE StoredOn(disk, p) = tab.body[p]
    BY DEF CoverInv, Covered
  <2>2. p \in Docs /\ p # Index
    BY ConstantsAssumption DEF Docs
  <2>3. QED
    BY <1>4, <2>1, <2>2 DEF Content, InTree
<1>6. CleanInv /\ LoadedCover /\ FlightInv /\ NewPages /\ RunInv /\ SavedCopy /\ FreshAnswer
  BY <1>2, <1>4 DEF CleanInv, LoadedCover, FlightInv, NewPages, RunInv, SavedCopy, FreshAnswer,
     NoSave, NoFetch, InFlight, Saving
<1>7. QED
  BY <1>3, <1>5, <1>6 DEF BookInv

(* No edit of the author is left out of dirtyPageIds, and so of the next   *)
(* save, while the server does not hold it; and when the editor says that  *)
(* nothing is unsaved, the server holds what the tab shows                 *)
(* (configStore.ts, saveConfigToBackend; projectStore.ts, saveAll).        *)
THEOREM EditsAreKept == Spec => []NoEditForgotten
<1>1. Init => AgesInv /\ BookInv
  BY InitBooks
<1>2. KnowingInv /\ KnowingInv' /\ AgesInv /\ BookInv /\ [Next]_vars => AgesInv' /\ BookInv'
  <2>1. SUFFICES ASSUME KnowingInv, KnowingInv', AgesInv, BookInv, [Next]_vars
                 PROVE  AgesInv' /\ BookInv'
    OBVIOUS
  <2>2. TypeInv /\ FlagsInv /\ Placement /\ DocsInPlace(disk) /\ TypeInv'
    BY <2>1 DEF KnowingInv, TypedSeen, TypedFlags, Knows, Placement
  <2>3. QED
    BY <2>1, <2>2, AgesStep, BookStep
<1>3. BookInv => NoEditForgotten
  BY BookMeansNoneForgotten
<1>4. QED
  BY <1>1, <1>2, <1>3, KnowingAlways, PTL DEF Spec
=============================================================================
