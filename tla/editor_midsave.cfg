\* The author alone, who edits while a save is on its way.

SPECIFICATION Spec
CONSTANTS
    Pages = {p, q}
    Bodies = {a}
    Shells = {s}
    Empty = empty
    Missing = missing
    Nowhere = nowhere
    MaxHistory = 2
    MaxEdits = 2
    MaxOther = 0
    MaxUpsets = 0
SYMMETRY Symmetry
PROPERTIES
    EditedMeanwhileStaysDirty
\* The author, the other writers and the faults are bounded: then nothing happens.
CHECK_DEADLOCK FALSE
