--------------------------- MODULE SharedDocument ---------------------------
(***************************************************************************)
(* What the revisions of the page documents promise (api/config_api.py,    *)
(* _index_revision and _page_revision): an editor tab and other writers    *)
(* change the same documents, and the tab never replaces a change of       *)
(* another writer that its own copy does not reflect.                      *)
(***************************************************************************)
EXTENDS Naturals

CONSTANTS
    Docs,     \* the page index and every page
    Missing,  \* the content of a document that does not exist
    Index     \* the document that names the pages

VARIABLES
    val,       \* the content of every document
    others,    \* how often another writer changed each
    reflects,  \* how many of these changes the tab's copy of each reflects
    exempt     \* documents that are outside of the promise

vars == <<val, others, reflects, exempt>>

Init ==
    /\ others = [d \in Docs |-> 0]
    /\ reflects = others
    /\ exempt = {}

(* Another writer changes some documents.                                  *)
OtherWrites ==
    \E D \in SUBSET Docs :
        /\ D # {}
        /\ others' = [d \in Docs |-> others[d] + (IF d \in D THEN 1 ELSE 0)]
        /\ \A d \in Docs \ D : val'[d] = val[d]
        /\ UNCHANGED reflects
        /\ exempt \subseteq exempt'

(* The tab writes.  A document that does not exist is nobody's to lose, and *)
(* a page goes with its entry in the index.                                *)
TabMayWrite(d) ==
    \/ reflects[d] = others[d]
    \/ val[d] = Missing
    \/ val'[d] = Missing /\ reflects[Index] = others[Index]
    \/ d \in exempt \/ Index \in exempt

TabWrites ==
    /\ \A d \in Docs : val'[d] # val[d] => TabMayWrite(d)
    /\ UNCHANGED others

(* The tab takes over what it reads, or steps through its own history.     *)
TabReads == UNCHANGED <<val, others>>

Next == OtherWrites \/ TabWrites \/ TabReads

Spec == Init /\ [][Next]_vars
=============================================================================
