\* Two pages, two edits, one change of another writer, one fault or loose fetch.

SPECIFICATION Spec
CONSTANTS
    Pages = {p, q}
    Bodies = {a}
    Shells = {s}
    Empty = empty
    Missing = missing
    Nowhere = nowhere
    MaxHistory = 2
    MaxEdits = 2
    MaxOther = 1
    MaxUpsets = 1
SYMMETRY Symmetry
INVARIANTS
    TypeOK
    NoEditForgotten
    ChangesAreNoticed
PROPERTIES
    ReloadKeepsEdits
    UndoKeepsOthers
    ReplacesNothingUnseen
\* The author, the other writers and the faults are bounded: then nothing happens.
CHECK_DEADLOCK FALSE
