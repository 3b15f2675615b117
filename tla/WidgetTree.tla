----------------------------- MODULE WidgetTree -----------------------------
(***************************************************************************)
(* The editor's tree of pages, page groups and widgets, and what the tree  *)
(* panel does to it: drag and drop, cut, copy and paste, duplicate, delete *)
(* (shared/store/configStore.ts, configStoreHelpers.ts, config/components/ *)
(* editor/WidgetTree).                                                     *)
(*                                                                         *)
(* The tree is kids: what every host holds, in order.  A node that is in   *)
(* no list is not in the project; its own list is then empty.  A page has  *)
(* one section, a group one chrome area, the shell one region; the slots   *)
(* of component instances are left out.                                    *)
(***************************************************************************)
EXTENDS Naturals, Sequences, FiniteSets, Functions

CONSTANTS
    Widgets,     \* widget ids
    Containers,  \* those of a type that holds widgets
    Pages, Groups,
    Chrome,      \* the chrome area of every group
    Region,      \* the shell region
    PagesRoot, DialogsRoot,
    Start,       \* the tree at the beginning
    StartDirty,  \* and its dirty pages
    MaxSteps,    \* bound: changes of the tree, those of the clipboard apart
    MaxClips,    \* bound: times that something is cut or copied
    MaxBatch,    \* bound: nodes that are selected together
    StaleCuts    \* bound: whether a cut is pasted after what was cut changed

PageNodes == Pages \cup Groups
Nodes == Widgets \cup PageNodes
Roots == {PagesRoot, DialogsRoot}
ChromeAreas == Range(Chrome)
WidgetHosts == Containers \cup Pages \cup ChromeAreas \cup {Region}
PageHosts == Groups \cup Roots
Hosts == WidgetHosts \cup PageHosts

ASSUME TreeAssumption ==
    /\ IsFiniteSet(Nodes)
    /\ Containers \subseteq Widgets
    /\ Widgets \cap PageNodes = {} /\ Pages \cap Groups = {}
    /\ Chrome \in Bijection(Groups, ChromeAreas)
    /\ Nodes \cap (ChromeAreas \cup {Region} \cup Roots) = {}
    /\ Region \notin ChromeAreas \cup Roots
    /\ ChromeAreas \cap Roots = {} /\ PagesRoot # DialogsRoot

ASSUME BoundsAssumption ==
    /\ MaxSteps \in Nat /\ MaxClips \in Nat /\ MaxBatch \in Nat \ {0}
    /\ StaleCuts \in BOOLEAN

VARIABLES
    kids,   \* the tree
    dirty,  \* dirtyPageIds
    clip,   \* the clipboard, and whether it is the pending cut
    last,   \* history variable: what the last step did
    steps   \* what MaxSteps counts

vars == <<kids, dirty, clip, last, steps>>

-----------------------------------------------------------------------------
(* Walks.                                                                  *)

InnerHosts(n) == IF n \in Groups THEN {n, Chrome[n]} ELSE {n} \cap Hosts

HostsOf(S) == UNION {InnerHosts(n) : n \in S}
Children(k, S) == UNION {Range(k[h]) : h \in HostsOf(S)}

(* Nodes with everything under them.                                       *)
Below(k, S) ==
    LET grow[T \in SUBSET Nodes] ==
            LET more == Children(k, T)
            IN IF more \subseteq T THEN T ELSE grow[T \cup more]
    IN grow[S]

Subtree(k, n) == Below(k, {n})

Tops(k) == Range(k[Region]) \cup Range(k[PagesRoot]) \cup Range(k[DialogsRoot])
Reached(k) == Below(k, Tops(k))
HostsIn(k) == {Region} \cup Roots \cup HostsOf(Reached(k))

(* findParentInfo                                                          *)
HostOf(k, n) == CHOOSE h \in HostsIn(k) : n \in Range(k[h])
Position(k, n) == CHOOSE i \in 1..Len(k[HostOf(k, n)]) : k[HostOf(k, n)][i] = n

(* findOwningPage: no page, for what lies in the shell or in group chrome. *)
OwningPages(k, host) ==
    {p \in Pages \cap Reached(k) :
        host \in HostsOf(Subtree(k, p))}

PagesUnder(k, n) == Subtree(k, n) \cap Pages

(* Document order: a group shows its chrome before its pages.              *)
Lists(k) ==
    {k[Region] \o k[PagesRoot] \o k[DialogsRoot]} \cup
    {k[h] : h \in Containers \cup Pages} \cup {k[Chrome[g]] \o k[g] : g \in Groups}

Precedes(k, m, n) ==
    \E list \in Lists(k) : \E i, j \in 1..Len(list) :
        i < j /\ m \in Subtree(k, list[i]) /\ n \in Subtree(k, list[j])

(* The tree as it should be: nodes of the kinds their hosts take, each in  *)
(* one place, and nothing in a host that is not there.                     *)
OnePlace(k) ==
    \A a, b \in Hosts : \A i \in 1..Len(k[a]), j \in 1..Len(k[b]) :
        k[a][i] = k[b][j] => a = b /\ i = j

IsTree(k) ==
    /\ k \in [Hosts -> Seq(Nodes)]
    /\ \A h \in WidgetHosts : k[h] \in Seq(Widgets)
    /\ \A h \in PageHosts : k[h] \in Seq(PageNodes)
    /\ OnePlace(k)
    /\ \A h \in Hosts \ HostsIn(k) : k[h] = <<>>

ASSUME StartAssumption ==
    IsTree(Start) /\ StartDirty \subseteq Pages \cap Reached(Start)

-----------------------------------------------------------------------------
(* Edits of the lists.                                                     *)

(* The list with every node replaced by what g gives for it.               *)
Spread(list, g) ==
    LET upTo[i \in 0..Len(list)] ==
            IF i = 0 THEN <<>> ELSE upTo[i - 1] \o g[list[i]]
    IN upTo[Len(list)]

Spared(S) == [n \in Nodes |-> IF n \in S THEN <<>> ELSE <<n>>]
Without(k, S) == [h \in Hosts |-> Spread(k[h], Spared(S))]

(* Nodes that left take their own lists with them.                         *)
Cleared(k, S) == [h \in Hosts |-> IF h \in HostsOf(S) THEN <<>> ELSE k[h]]

(* Array.splice: past the end means at the end.                            *)
Splice(list, at, nodes) ==
    LET cut == IF at < Len(list) THEN at ELSE Len(list)
    IN SubSeq(list, 1, cut) \o nodes \o SubSeq(list, cut + 1, Len(list))

Inserted(k, host, at, nodes) == [k EXCEPT ![host] = Splice(k[host], at, nodes)]
Appended(k, host, nodes) == Inserted(k, host, Len(k[host]), nodes)

(* The selection without what lies under another selected node, in         *)
(* document order (topLevelSelection).                                     *)
TopLevel(S) == {n \in S : \A m \in S \ {n} : n \notin Subtree(kids, m)}

Batches(S) ==
    {order \in Bijection(1..Cardinality(TopLevel(S)), TopLevel(S)) :
        \A i, j \in DOMAIN order : i < j => Precedes(kids, order[i], order[j])}

Selections == {S \in SUBSET (Widgets \cap Reached(kids)) :
                  S # {} /\ Cardinality(S) <= MaxBatch}

-----------------------------------------------------------------------------
Nothing == [kind |-> "nothing"]
EmptyClip ==
    [nodes |-> <<>>, tree |-> [h \in Hosts |-> <<>>], cut |-> FALSE, count |-> 0]

Init ==
    /\ kids = Start
    /\ dirty = StartDirty
    /\ clip = EmptyClip
    /\ last = Nothing
    /\ steps = 0

Step(what) ==
    /\ steps' = steps + 1
    /\ last' = what

-----------------------------------------------------------------------------
(* Dragging widgets.                                                       *)

(* What lies under the widgets that move (collectMovedWidgets): neither    *)
(* these nor the widgets themselves can host the drop.                     *)
DescendantsMutant(batch) ==
    UNION {Range(kids[n]) : n \in Range(batch) \cap Containers}

Descendants(batch) ==
    UNION {Subtree(kids, n) \ {n} : n \in Range(batch)}

(* The widgets leave before they are inserted: an index taken from a list  *)
(* they are in counts without them.                                        *)
IndexAfterRemovalMutant(list, moved, at) == at

IndexAfterRemoval(list, moved, at) ==
    at - Cardinality({i \in 1..at : list[i] \in moved})

SourcePages(S) == UNION {OwningPages(kids, HostOf(kids, n)) : n \in S}

MovedDirtyMutant(batch, host) == dirty \cup OwningPages(kids, host)

MovedDirty(batch, host) == dirty \cup SourcePages(Range(batch)) \cup OwningPages(kids, host)

(* moveWidgetsTo, which refuses a target that the sweep takes away.        *)
MoveWidgetsTo(batch, host, at, what) ==
    /\ batch # <<>>
    /\ host \notin Range(batch) \cup Descendants(batch)
    /\ Step(what)
    /\ kids' = Inserted(Without(kids, Range(batch)), host, at, batch)
    /\ dirty' = MovedDirty(batch, host)
    /\ UNCHANGED clip

(* resolveDropTarget on the upper or lower edge of a widget's row.         *)
DropBeside(S, batch, active, over, after) ==
    LET host == HostOf(kids, over)
        at == Position(kids, over) - (IF after THEN 0 ELSE 1)
    IN /\ active \in S /\ over # active
       /\ over \notin Descendants(batch)
       /\ MoveWidgetsTo(batch, host, IndexAfterRemoval(kids[host], Range(batch), at),
                        [kind |-> "move", batch |-> batch, over |-> over, after |-> after])

(* On the row of something that holds widgets: into it, at the end.        *)
DropInto(batch, host) ==
    /\ host \in WidgetHosts \cap HostsIn(kids)
    /\ MoveWidgetsTo(batch, host, Len(Without(kids, Range(batch))[host]),
                     [kind |-> "move", batch |-> batch, over |-> host, after |-> TRUE])

DragWidgets ==
    \E S \in Selections : \E batch \in Batches(S) :
        \/ \E active \in S, over \in Widgets \cap Reached(kids), after \in BOOLEAN :
               DropBeside(S, batch, active, over, after)
        \/ \E host \in WidgetHosts : DropInto(batch, host)

-----------------------------------------------------------------------------
(* Dragging a page or a group (movePageTo): the documents stay as they are. *)

MovePageTo(n, host, at, what) ==
    /\ n \in PageNodes \cap Reached(kids)
    /\ host \in PageHosts \cap HostsIn(kids)
    /\ host \notin Subtree(kids, n)
    /\ Step(what)
    /\ kids' = Inserted(Without(kids, {n}), host, at, <<n>>)
    /\ UNCHANGED <<dirty, clip>>

DragPage ==
    \E n \in PageNodes \cap Reached(kids) :
        \/ \E over \in (PageNodes \cap Reached(kids)) \ Subtree(kids, n), after \in BOOLEAN :
               LET host == HostOf(kids, over)
                   at == Position(kids, over) - (IF after THEN 0 ELSE 1)
               IN MovePageTo(n, host, IndexAfterRemoval(kids[host], {n}, at),
                             [kind |-> "move", batch |-> <<n>>, over |-> over,
                              after |-> after])
        \/ \E host \in PageHosts \cap HostsIn(kids) :
               MovePageTo(n, host, Len(Without(kids, {n})[host]),
                          [kind |-> "move", batch |-> <<n>>, over |-> host, after |-> TRUE])

-----------------------------------------------------------------------------
(* Adding and deleting.                                                    *)

Unused(S) == S \ Reached(kids)

AddWidget ==
    \E w \in Unused(Widgets), host \in WidgetHosts \cap HostsIn(kids) :
        /\ Step([kind |-> "add"])
        /\ kids' = Appended(kids, host, <<w>>)
        /\ dirty' = dirty \cup OwningPages(kids, host)
        /\ UNCHANGED clip

AddPageNode ==
    \E n \in Unused(PageNodes), host \in PageHosts \cap HostsIn(kids) :
        /\ Step([kind |-> "add"])
        /\ kids' = Appended(kids, host, <<n>>)
        /\ dirty' = dirty \cup ({n} \cap Pages)
        /\ UNCHANGED clip

DeleteWidgets ==
    \E S \in Selections :
        /\ Step([kind |-> "delete"])
        /\ kids' = Cleared(Without(kids, TopLevel(S)), Below(kids, TopLevel(S)))
        /\ dirty' = dirty \cup SourcePages(TopLevel(S))
        /\ UNCHANGED clip

(* A group takes every page under it out of the books.                     *)
DeletePageNode ==
    \E n \in PageNodes \cap Reached(kids) :
        /\ Step([kind |-> "delete"])
        /\ kids' = Cleared(Without(kids, {n}), Subtree(kids, n))
        /\ dirty' = dirty \ PagesUnder(kids, n)
        /\ UNCHANGED clip

-----------------------------------------------------------------------------
(* Copies.  Every node of a copy gets an id that nothing in the project    *)
(* has (deepCloneComponent, regenerateIds): in place of slugs, the ids     *)
(* here are of the same type as the original.                              *)

SameType(n) ==
    CASE n \in Containers -> Containers
      [] n \in Widgets \ Containers -> Widgets \ Containers
      [] n \in Pages -> Pages
      [] OTHER -> Groups

FreshIds(S) == {f \in Injection(S, Unused(Nodes)) : \A n \in S : f[n] \in SameType(n)}

CanCopy(S) == FreshIds(S) # {}

RenamedMutant(f, list) == list

Renamed(f, list) == [i \in 1..Len(list) |-> f[list[i]]]

(* What h copies, when the nodes of the domain of f got the ids of f.      *)
Copied(f, h) ==
    CHOOSE host \in HostsOf(DOMAIN f) : \E n \in DOMAIN f :
        \/ host = n /\ h = f[n]
        \/ n \in Groups /\ host = Chrome[n] /\ h = Chrome[f[n]]

(* k with the lists of the copies filled in; from is the copied tree.      *)
WithCopies(k, from, f) ==
    [h \in Hosts |->
        IF h \in HostsOf(Range(f)) THEN Renamed(f, from[Copied(f, h)]) ELSE k[h]]

(* Each copy directly after its original.                                  *)
Doubled(S, f) == [n \in Nodes |-> IF n \in S THEN <<n, f[n]>> ELSE <<n>>]

(* duplicateComponents                                                     *)
DuplicateWidgets ==
    \E S \in Selections :
        LET copied == Below(kids, TopLevel(S))
            f == CHOOSE g \in FreshIds(copied) : TRUE
            doubled == [h \in Hosts |-> Spread(kids[h], Doubled(TopLevel(S), f))]
        IN /\ CanCopy(copied)
           /\ Step([kind |-> "copy"])
           /\ kids' = WithCopies(doubled, kids, f)
           /\ dirty' = dirty \cup SourcePages(TopLevel(S))
           /\ UNCHANGED clip

-----------------------------------------------------------------------------
(* The clipboard holds the nodes as they were.                             *)

Snapshot(batch) ==
    [h \in Hosts |-> IF h \in HostsOf(Below(kids, Range(batch))) THEN kids[h] ELSE <<>>]

CopyOrCut ==
    \E batch \in (UNION {Batches(S) : S \in Selections}) \cup
                 {<<n>> : n \in PageNodes \cap Reached(kids)}, cut \in BOOLEAN :
        /\ clip.count < MaxClips
        /\ last' = Nothing
        /\ clip' = [nodes |-> batch, tree |-> Snapshot(batch), cut |-> cut,
                    count |-> clip.count + 1]
        /\ UNCHANGED <<kids, dirty, steps>>

(* Escape.                                                                 *)
ClearCut ==
    /\ clip.cut
    /\ last' = Nothing
    /\ clip' = [clip EXCEPT !.cut = FALSE]
    /\ UNCHANGED <<kids, dirty, steps>>

Clipped == Below(clip.tree, Range(clip.nodes))

(* isCutMove: the paste moves what was cut, under its old ids.             *)
IsCutMove == clip.cut /\ Range(clip.nodes) \subseteq Reached(kids)

Stale == Snapshot(clip.nodes) # clip.tree

(* targetAccepts: into a host, at its end, or after a row of the same kind *)
(* that holds nothing itself.                                              *)
Into(host) == [host |-> host, row |-> host, behind |-> FALSE]
Behind(row) == [host |-> HostOf(kids, row), row |-> row, behind |-> TRUE]

AcceptedTargets ==
    IF Range(clip.nodes) \subseteq Widgets
    THEN {Into(h) : h \in WidgetHosts \cap HostsIn(kids)} \cup
         {Behind(w) : w \in (Widgets \ Containers) \cap Reached(kids)}
    ELSE {Into(h) : h \in PageHosts \cap HostsIn(kids)} \cup
         (IF Range(clip.nodes) \subseteq Pages
          THEN {Behind(p) : p \in Pages \cap Reached(kids)} ELSE {})

Landed(k, target, nodes) ==
    Inserted(k, target.host,
             IF target.behind
             THEN CHOOSE i \in 1..Len(k[target.host]) : k[target.host][i] = target.row
             ELSE Len(k[target.host]),
             nodes)

(* What the insertion of the nodes marks dirty: a page is marked itself,   *)
(* a group marks nothing.                                                  *)
InsertMarks(nodes, k, target) ==
    (Range(nodes) \cap Pages) \cup
    (IF Range(nodes) \subseteq Widgets THEN OwningPages(k, target.host) ELSE {})

(* A move is a deletion and an insertion: the deletion of a page or group  *)
(* drops its pages from the books, and keepPageState puts them back.       *)
KeptPages(after) == dirty \cap Reached(after)

PasteMove ==
    IsCutMove /\ \E target \in AcceptedTargets :
        LET moved == Range(clip.nodes)
            removed == Cleared(Without(kids, moved), Below(kids, moved))
            back == [h \in Hosts |->
                        IF h \in HostsOf(Clipped) THEN clip.tree[h] ELSE removed[h]]
            after == Landed(back, target, clip.nodes)
            owners == IF moved \subseteq Widgets THEN SourcePages(moved) ELSE {}
        IN /\ target.row \notin Clipped
           /\ Stale => StaleCuts /\ target.row \notin Below(kids, Clipped)
           /\ Step([kind |-> "move", batch |-> clip.nodes, over |-> target.row,
                    after |-> TRUE])
           /\ kids' = after
           /\ dirty' = (dirty \ UNION {PagesUnder(kids, n) : n \in moved})
                       \cup owners \cup InsertMarks(clip.nodes, kids, target)
                       \cup KeptPages(after)
           /\ clip' = [clip EXCEPT !.cut = FALSE]

PasteCopy ==
    clip.nodes # <<>> /\ ~IsCutMove /\ \E target \in AcceptedTargets :
        LET f == CHOOSE g \in FreshIds(Clipped) : TRUE
            nodes == Renamed(f, clip.nodes)
        IN /\ CanCopy(Clipped)
           /\ Step([kind |-> "copy"])
           /\ kids' = Landed(WithCopies(kids, clip.tree, f), target, nodes)
           /\ dirty' = dirty \cup InsertMarks(nodes, kids, target)
           /\ UNCHANGED clip

Next ==
    /\ steps < MaxSteps
    /\ \/ DragWidgets \/ DragPage
       \/ AddWidget \/ AddPageNode
       \/ DeleteWidgets \/ DeletePageNode
       \/ DuplicateWidgets
       \/ CopyOrCut \/ ClearCut \/ PasteMove \/ PasteCopy

Spec == Init /\ [][Next]_vars

-----------------------------------------------------------------------------
(* What should hold.                                                       *)

(* The tree is made of nodes of the kinds its hosts take; what is dirty is *)
(* a page of the tree; what is not in the tree holds nothing.  No id       *)
(* occurs twice, whatever is copied, duplicated, cut and pasted: every     *)
(* walk of the code finds a node by its id alone.                          *)
TypeOK ==
    /\ IsTree(kids)
    /\ dirty \subseteq Pages \cap Reached(kids)
    /\ clip \in [nodes : Seq(Nodes), tree : [Hosts -> Seq(Nodes)],
                cut : BOOLEAN, count : 0..MaxClips]
    /\ clip.cut => clip.nodes # <<>>
    /\ steps \in 0..MaxSteps

(* A move, by drag or by cut and paste, neither loses a node nor brings    *)
(* one in: a batch that lands where the sweep took the host away would be  *)
(* lost (targetSweptByMove).                                               *)
MovesLoseNothing ==
    [][last'.kind = "move" => Reached(kids') = Reached(kids)]_vars

Under(k, p) == {<<h, k[h]>> : h \in HostsOf(Subtree(k, p))}

(* A page whose content an edit changes is one that the next save will     *)
(* write, the pages that gave a widget away as much as the one it went to; *)
(* and nothing but its deletion takes a page out of the books: the move of *)
(* a group that is put together from a deletion and an insertion does not. *)
ChangedPagesAreDirty ==
    [][\A p \in Pages \cap Reached(kids) \cap Reached(kids') :
           p \in dirty \/ Under(kids, p) # Under(kids', p) => p \in dirty']_vars

(* A batch that is dropped on the edge of a row lands together, in         *)
(* document order, right at that edge, wherever its nodes were before.     *)
LandsWhereShown ==
    [][last'.kind = "move" /\ last'.over \in Nodes \ Range(last'.batch)
         /\ HostOf(kids', last'.batch[1]) = HostOf(kids', last'.over) =>
           LET list == kids'[HostOf(kids', last'.over)]
               at == Position(kids', last'.over)
               first == IF last'.after THEN at + 1 ELSE at - Len(last'.batch)
           IN \A i \in 1..Len(last'.batch) :
                  first + i - 1 \in 1..Len(list) /\ list[first + i - 1] = last'.batch[i]]_vars
=============================================================================
