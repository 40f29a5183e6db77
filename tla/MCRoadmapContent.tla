-------------------------- MODULE MCRoadmapContent --------------------------
(* Small instances of RoadmapContent for TLC. *)
EXTENDS RoadmapContent, TLC

CONSTANTS author, reader, r1, r2, d1, d2, d3, w1, w2, a1, c1, c2

\* The author's roadmap and the reader's, for a fork.
OwnerEach == [r \in Roadmap |-> IF r = r1 THEN author ELSE reader]

\* One behaviour is about roadmaps, about directories, about both, about uploads,
\* about comments or about follows.
Workloads == {
    [ops |-> {"create", "fork", "react", "remove", "update"}, left |-> 7],
    [ops |-> {"mkdir", "move", "rename", "drop"}, left |-> 8],
    [ops |-> {"create", "fork", "react", "remove", "update", "mkdir", "move", "rename", "drop"},
     left |-> 6],
    [ops |-> {"create", "remove", "upload", "put", "complete", "discard"}, left |-> 7],
    [ops |-> {"create", "comment", "edit", "erase"}, left |-> 6],
    [ops |-> {"follow", "unfollow", "prefer", "read"}, left |-> 5]}

ContentSymmetry == Permutations(Directory) \cup Permutations(Request)
=============================================================================
