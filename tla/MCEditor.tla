------------------------------ MODULE MCEditor ------------------------------
EXTENDS EditorProject, TLC

Symmetry == Permutations(Pages) \cup Permutations(Bodies) \cup Permutations(Shells)
=============================================================================
