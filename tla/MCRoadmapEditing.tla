-------------------------- MODULE MCRoadmapEditing --------------------------
(* Small instances of RoadmapEditing for TLC. *)
EXTENDS RoadmapEditing, TLC

CONSTANTS d1, d2, a, b

Symmetry == Permutations(Document) \cup Permutations(Title)
=============================================================================
