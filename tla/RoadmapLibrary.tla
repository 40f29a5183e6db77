--------------------------- MODULE RoadmapLibrary ---------------------------
(***************************************************************************)
(* roadmaps.service.ts: the roadmaps of all users, their likes and forks,  *)
(* and the directories of one user.                                        *)
(*                                                                         *)
(* Reactions and forks change a roadmap under its row lock and are single  *)
(* steps.  update, moveDirectory and renameDirectory read a row without a  *)
(* lock and save it later: TypeORM compares what was read with the row of  *)
(* that moment and writes every column that differs, so all of an old row  *)
(* comes back; a row that is gone is inserted again.  Names, titles and    *)
(* graphs are not kept: a write may fail on the unique name of a location. *)
(***************************************************************************)
EXTENDS Integers, FiniteSets

CONSTANTS
    User,
    Owner,        \* [Roadmap -> User]: who would own the roadmap of that id
    Librarian,    \* whose directories these are
    Roadmap,
    Directory,
    Root,         \* no parent, no directory
    Request,
    NULL,
    MaxDepth,     \* directories moveDirectory looks at: 100 in the code
    Workload      \* bound: which requests users make in one behaviour, and how many

Row == [directory : Directory \cup {Root}, visible : BOOLEAN, deleted : BOOLEAN,
        likes : Nat, forks : Nat, forkedFrom : Roadmap \cup {NULL}]

ASSUME LibraryNull ==
    /\ NULL \notin Row \cup Directory \cup {Root} \cup Roadmap
    /\ Root \notin Directory
ASSUME LibraryConstants ==
    /\ Owner \in [Roadmap -> User]
    /\ Librarian \in User
    /\ IsFiniteSet(User) /\ IsFiniteSet(Roadmap)
    /\ MaxDepth \in Nat
    /\ Workload \subseteq [ops : SUBSET STRING, left : Nat]

\* What a request keeps between its steps: what it has read and what it will save
UpdateRequest == [op : {"update"}, roadmap : Roadmap, read : Row, row : Row]
MoveRequest == [op : {"move"}, directory : Directory, to : Directory \cup {Root},
                at : Directory \cup {Root}, depth : 0..MaxDepth, fresh : BOOLEAN]
RenameRequest == [op : {"rename"}, directory : Directory, to : Directory \cup {Root},
                  fresh : BOOLEAN]
DropRequest == [op : {"drop"}, directory : Directory, detached : BOOLEAN, fresh : BOOLEAN]
LibraryRequest == UpdateRequest \cup MoveRequest \cup RenameRequest \cup DropRequest

VARIABLES
    roadmap,        \* [Roadmap -> Row or NULL]
    parent,         \* [Directory -> Directory, Root, or NULL: no such row]
    liked,          \* roadmap_reactions of type LIKE
    request,        \* [Request -> what a request has read, or NULL]
    created,        \* history: directories there have been
    overwritten,    \* history: roadmaps saved from an outdated row
    raced,          \* history: a directory was saved after the tree had changed
    work            \* the requests still to be made

vars == <<roadmap, parent, liked, request, created, overwritten, raced, work>>
shelves == <<parent, created, raced>>
books == <<roadmap, liked, overwritten>>
library == <<shelves, books>>

Exists(d) == parent[d] # NULL
Found(r) == roadmap[r] # NULL /\ ~roadmap[r].deleted
Readable(u, r) == Found(r) /\ (Owner[r] = u \/ roadmap[r].visible)

Made(op) ==
    /\ op \in work.ops
    /\ work.left > 0
    /\ work' = [work EXCEPT !.left = @ - 1]

Begins(w, op, rec) ==
    /\ request[w] = NULL
    /\ Made(op)
    /\ request' = [request EXCEPT ![w] = rec]

Ends(w) == request' = [request EXCEPT ![w] = NULL]

Init ==
    /\ roadmap = [r \in Roadmap |-> NULL]
    /\ parent = [d \in Directory |-> NULL]
    /\ liked = {}
    /\ request = [w \in Request |-> NULL]
    /\ created = {}
    /\ overwritten = {}
    /\ raced = FALSE
    /\ work \in Workload

-----------------------------------------------------------------------------
(* Roadmaps *)

\* create, in a directory requireDirectory found; the foreign key sees to it
\* that it is still there.
Create(r, d, visible) ==
    /\ Made("create")
    /\ roadmap[r] = NULL
    /\ d # Root => Owner[r] = Librarian /\ Exists(d)
    /\ roadmap' = [roadmap EXCEPT ![r] =
          [directory |-> d, visible |-> visible, deleted |-> FALSE,
           likes |-> 0, forks |-> 0, forkedFrom |-> NULL]]
    /\ UNCHANGED <<shelves, liked, request, overwritten>>

\* fork, under the lock of its source
Fork(u, source, r) ==
    /\ Made("fork")
    /\ Readable(u, source)
    /\ roadmap[r] = NULL
    /\ Owner[r] = u
    /\ roadmap' = [roadmap EXCEPT
          ![r] = [directory |-> Root, visible |-> FALSE, deleted |-> FALSE,
                  likes |-> 0, forks |-> 0, forkedFrom |-> source],
          ![source].forks = @ + 1]
    /\ UNCHANGED <<shelves, liked, request, overwritten>>

\* What is new about a reaction that is asked for twice
CountAgain(u, r) == TRUE
FirstLike(u, r) == <<u, r>> \notin liked

BelowZero(n) == n - 1
Pred(n) == IF n = 0 THEN 0 ELSE n - 1

\* setReaction, under the lock of the roadmap; favorites go the same way.
Like(u, r) ==
    /\ Made("react")
    /\ Readable(u, r)
    /\ liked' = liked \cup {<<u, r>>}
    /\ roadmap' = IF FirstLike(u, r) THEN [roadmap EXCEPT ![r].likes = @ + 1] ELSE roadmap
    /\ UNCHANGED <<shelves, request, overwritten>>

Unlike(u, r) ==
    /\ Made("react")
    /\ Readable(u, r)
    /\ liked' = liked \ {<<u, r>>}
    /\ roadmap' = IF <<u, r>> \in liked THEN [roadmap EXCEPT ![r].likes = Pred(@)] ELSE roadmap
    /\ UNCHANGED <<shelves, request, overwritten>>

\* remove: a soft delete writes nothing but its own column.
Remove(r) ==
    /\ Made("remove")
    /\ Found(r)
    /\ roadmap' = [roadmap EXCEPT ![r].deleted = TRUE]
    /\ UNCHANGED <<shelves, liked, request, overwritten>>

\* update: getOwned, requireDirectory, and what the request changes
UpdateBegin(w, r, d, visible) ==
    /\ Found(r)
    /\ d \in Directory => Owner[r] = Librarian /\ Exists(d)
    /\ Begins(w, "update",
              [op |-> "update", roadmap |-> r, read |-> roadmap[r],
               row |-> [roadmap[r] EXCEPT !.directory = IF d = NULL THEN @ ELSE d,
                                          !.visible = visible]])
    /\ UNCHANGED <<shelves, books>>

\* The columns that were not the request's to change
Kept(row) == <<row.likes, row.forks, row.deleted>>

UpdateSave(w) ==
    /\ request[w] # NULL
    /\ request[w].op = "update"
    /\ LET r == request[w].roadmap  row == request[w].row IN
       IF row.directory = Root \/ Exists(row.directory)
       THEN /\ roadmap' = [roadmap EXCEPT ![r] = row]
            /\ overwritten' = IF Kept(roadmap[r]) = Kept(request[w].read)
                              THEN overwritten ELSE overwritten \cup {r}
       ELSE UNCHANGED <<roadmap, overwritten>>
    /\ Ends(w)
    /\ UNCHANGED <<shelves, liked, work>>

-----------------------------------------------------------------------------
(* Directories *)

\* Every other request that has read the tree has read an old one.
EndsAndAges(w) ==
    request' = [v \in Request |->
        IF v = w THEN NULL
        ELSE IF request[v] # NULL /\ request[v].op \in {"move", "rename", "drop"}
        THEN [request[v] EXCEPT !.fresh = FALSE] ELSE request[v]]

\* createDirectory
CreateDirectory(d, p) ==
    /\ Made("mkdir")
    /\ d \notin created
    /\ p # Root => Exists(p)
    /\ parent' = [parent EXCEPT ![d] = p]
    /\ created' = created \cup {d}
    /\ UNCHANGED <<books, request, raced>>

\* moveDirectory: no directory becomes its own parent; a move to the root has
\* nothing to look for.
MoveBegin(w, d, p) ==
    /\ Exists(d)
    /\ p # d
    /\ Begins(w, "move", [op |-> "move", directory |-> d, to |-> p, at |-> p,
                          depth |-> 0, fresh |-> TRUE])
    /\ UNCHANGED <<shelves, books>>

NeverMeetsItself(w) == FALSE
MeetsItself(w) == request[w].at = request[w].directory

\* One look-up of the loop.  A cycle, a directory that is gone and a tree that
\* is too deep are refused.
MoveWalk(w) ==
    /\ request[w] # NULL
    /\ request[w].op = "move"
    /\ request[w].at # Root
    /\ IF MeetsItself(w) \/ ~Exists(request[w].at) \/ request[w].depth = MaxDepth
       THEN Ends(w)
       ELSE request' = [request EXCEPT ![w].at = parent[request[w].at],
                                       ![w].depth = @ + 1]
    /\ UNCHANGED <<shelves, books, work>>

\* save of a directory: updated, or inserted when it is gone
Saved(w, d, p) ==
    IF p = Root \/ Exists(p)
    THEN /\ parent' = [parent EXCEPT ![d] = p]
         /\ raced' = (raced \/ ~request[w].fresh)
         /\ EndsAndAges(w)
    ELSE /\ Ends(w)
         /\ UNCHANGED <<parent, raced>>

MoveSave(w) ==
    /\ request[w] # NULL
    /\ request[w].op = "move"
    /\ request[w].at = Root
    /\ Saved(w, request[w].directory, request[w].to)
    /\ UNCHANGED <<books, created, work>>

\* renameDirectory writes the parent it has read.
RenameBegin(w, d) ==
    /\ Exists(d)
    /\ Begins(w, "rename", [op |-> "rename", directory |-> d, to |-> parent[d], fresh |-> TRUE])
    /\ UNCHANGED <<shelves, books>>

RenameSave(w) ==
    /\ request[w] # NULL
    /\ request[w].op = "rename"
    /\ Saved(w, request[w].directory, request[w].to)
    /\ UNCHANGED <<books, created, work>>

Children(d) == {c \in Directory : parent[c] = d}

\* deleteDirectory: looked up and found without children, then its roadmaps are
\* moved to the root, then the row goes unless a child came meanwhile.
DropBegin(w, d) ==
    /\ Exists(d)
    /\ Children(d) = {}
    /\ Begins(w, "drop", [op |-> "drop", directory |-> d, detached |-> FALSE, fresh |-> TRUE])
    /\ UNCHANGED <<shelves, books>>

Detached(d) ==
    [r \in Roadmap |->
        IF roadmap[r] # NULL /\ roadmap[r].directory = d
        THEN [roadmap[r] EXCEPT !.directory = Root] ELSE roadmap[r]]

DropDetach(w) ==
    /\ request[w] # NULL
    /\ request[w].op = "drop"
    /\ ~request[w].detached
    /\ roadmap' = Detached(request[w].directory)
    /\ request' = [request EXCEPT ![w].detached = TRUE]
    /\ UNCHANGED <<shelves, liked, overwritten, work>>

\* ON DELETE SET NULL for roadmaps, ON DELETE RESTRICT for directories
DropRow(w) ==
    /\ request[w] # NULL
    /\ request[w].op = "drop"
    /\ request[w].detached
    /\ LET d == request[w].directory IN
       IF Children(d) = {}
       THEN /\ parent' = [parent EXCEPT ![d] = NULL]
            /\ roadmap' = Detached(d)
            /\ EndsAndAges(w)
       ELSE /\ Ends(w)
            /\ UNCHANGED <<parent, roadmap>>
    /\ UNCHANGED <<liked, overwritten, created, raced, work>>

\* A request that fails, on the unique name of a location or otherwise.
Abandon(w) ==
    /\ request[w] # NULL
    /\ Ends(w)
    /\ UNCHANGED <<shelves, books, work>>

Next ==
    \/ \E r \in Roadmap, d \in Directory \cup {Root}, v \in BOOLEAN : Create(r, d, v)
    \/ \E u \in User, source, r \in Roadmap : Fork(u, source, r)
    \/ \E u \in User, r \in Roadmap : Like(u, r) \/ Unlike(u, r)
    \/ \E r \in Roadmap : Remove(r)
    \/ \E d \in Directory, p \in Directory \cup {Root} : CreateDirectory(d, p)
    \/ \E w \in Request :
        \/ \E r \in Roadmap, d \in Directory \cup {Root, NULL}, v \in BOOLEAN :
            UpdateBegin(w, r, d, v)
        \/ UpdateSave(w)
        \/ \E d \in Directory, p \in Directory \cup {Root} : MoveBegin(w, d, p)
        \/ MoveWalk(w) \/ MoveSave(w)
        \/ \E d \in Directory : RenameBegin(w, d)
        \/ RenameSave(w)
        \/ \E d \in Directory : DropBegin(w, d)
        \/ DropDetach(w) \/ DropRow(w)
        \/ Abandon(w)

Spec == Init /\ [][Next]_vars

-----------------------------------------------------------------------------
(* Properties *)

\* The types, and what the foreign keys keep: parents and directories exist.
LibraryTypeOK ==
    /\ roadmap \in [Roadmap -> Row \cup {NULL}]
    /\ parent \in [Directory -> Directory \cup {Root, NULL}]
    /\ liked \subseteq User \X Roadmap
    /\ \A d \in Directory : parent[d] \in Directory => Exists(parent[d])
    /\ \A r \in Roadmap :
        roadmap[r] # NULL /\ roadmap[r].directory # Root => Exists(roadmap[r].directory)
    /\ created \subseteq Directory
    /\ overwritten \subseteq Roadmap
    /\ raced \in BOOLEAN
    /\ work \in [ops : SUBSET STRING, left : Nat]

\* A set of directories each of which has its parent in the set
Cycle(D) == D # {} /\ \A d \in D : parent[d] \in D

\* No directory is below itself, as long as no directory is saved after another
\* one was moved, renamed or deleted: the walk of moveDirectory is enough for
\* one request at a time, whatever the tree.
ForestUnlessRaced == ~raced => \A D \in SUBSET Directory : ~Cycle(D)

\* likeCount and forkCount count the reactions and the forks, whoever reacts and
\* forks at the same time; only an update that saves an old row miscounts.
CountsUnlessOverwritten ==
    \A r \in Roadmap :
        roadmap[r] # NULL /\ r \notin overwritten =>
            /\ roadmap[r].likes = Cardinality({u \in User : <<u, r>> \in liked})
            /\ roadmap[r].forks =
                 Cardinality({f \in Roadmap : roadmap[f] # NULL /\ roadmap[f].forkedFrom = r})
=============================================================================
