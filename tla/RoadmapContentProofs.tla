------------------------ MODULE RoadmapContentProofs ------------------------
(* Theorems about RoadmapContent, for every value of its constants. *)
EXTENDS RoadmapContent, FiniteSetTheorems, TLAPS

\* An update still has its roadmap, and will write the columns it has read: the
\* source of a fork never changes.
UpdatesOK ==
    \A w \in Request : Asks(w, "update") =>
        LET q == request[w] IN
        /\ roadmap[q.roadmap] # NULL
        /\ Kept(q.row) = Kept(q.read)
        /\ q.row.forkedFrom = roadmap[q.roadmap].forkedFrom

\* Reactions and forks are of roadmaps there are.
SourcesOK ==
    /\ \A p \in liked : roadmap[p[2]] # NULL
    /\ \A f \in Roadmap : roadmap[f] # NULL /\ roadmap[f].forkedFrom # NULL =>
        roadmap[roadmap[f].forkedFrom] # NULL

\* A set of directories that would be a cycle if d were moved into it
AllBut(d, D) == \A x \in D : x # d => parent[x] \in D

\* A walk that is not outdated has gone up the tree as it is: any cycle the move
\* would close contains the directory the walk has come to.
WalkOK(w) ==
    LET q == request[w] IN
    /\ Exists(q.directory)
    /\ q.at # q.to => Exists(q.to)
    /\ \A D \in SUBSET Directory : q.to \in D /\ AllBut(q.directory, D) => q.at \in D

WalksOK == \A w \in Request : Asks(w, "move") /\ request[w].fresh => WalkOK(w)

\* A rename that is not outdated writes the parent there is.
RenamesOK ==
    \A w \in Request : Asks(w, "rename") /\ request[w].fresh =>
        parent[request[w].directory] = request[w].to

ShelvesOK ==
    /\ \A d \in Directory : Exists(d) => d \in created
    /\ \A w \in Request : Asks(w, "move") \/ Asks(w, "rename") => request[w].directory \in created
    /\ WalksOK
    /\ RenamesOK

\* A complete that has seen the object in the store is late once it is gone.
CompletesOK ==
    \A w \in Request : Handles(w, "complete", "save") =>
        object[request[w].asset] # NULL \/ request[w].late

\* What requests about comments rely on: a row that is there stays, with its
\* roadmap and its parent.
CommentsOKOf(w) ==
    /\ Asks(w, "comment") =>
         LET p == request[w].parent IN
         /\ roadmap[request[w].roadmap] # NULL
         /\ p # NULL => /\ comment[p] # NULL
                        /\ comment[p].parent = NULL
                        /\ comment[p].roadmap = request[w].roadmap
    /\ Asks(w, "edit") =>
         LET c == request[w].comment IN
         /\ comment[c] # NULL
         /\ comment[c].parent = request[w].row.parent
         /\ comment[c].roadmap = request[w].row.roadmap
    /\ Asks(w, "erase") => comment[request[w].comment] # NULL
    /\ Asks(w, "follow") => request[w].by # request[w].about

CommentsOK == \A w \in Request : CommentsOKOf(w)

Telling(k) == {w \in Request : Asks(w, "notify") /\ request[w].cause = k}

NewsOK ==
    /\ arisen \in [Cause -> Nat] /\ untold \in [Cause -> Nat]
    /\ \A k \in Cause : IsFiniteSet(Telling(k))

-----------------------------------------------------------------------------
(* Requests *)

\* The requests of these kinds are the ones there were, or have ended.
Untouched(ops) ==
    \A w \in Request : request'[w] # NULL /\ request'[w].op \in ops => request'[w] = request[w]

LibraryOps == {"update", "move", "rename", "drop"}
UploadOps == {"complete", "discard"}
SocialOps == {"comment", "edit", "erase", "follow", "notify", "prefer"}

RequestsOK == request \in [Request -> ContentRequest \cup {NULL}]

LEMMA RequestKinds ==
    ASSUME NEW q \in ContentRequest
    PROVE  /\ q # NULL
           /\ q.op = "update" => q \in UpdateRequest
           /\ q.op = "move" => q \in MoveRequest
           /\ q.op = "rename" => q \in RenameRequest
           /\ q.op = "drop" => q \in DropRequest
           /\ q.op = "complete" => q \in CompleteRequest
           /\ q.op = "discard" => q \in DiscardRequest
           /\ q.op = "comment" => q \in CommentRequest
           /\ q.op = "edit" => q \in EditRequest
           /\ q.op = "erase" => q \in EraseRequest
           /\ q.op = "follow" => q \in FollowRequest
           /\ q.op = "notify" => q \in NotifyRequest
           /\ q.op = "prefer" => q \in PreferRequest
           /\ q.op \in LibraryOps \cup UploadOps \cup SocialOps
<1> USE DEF UpdateRequest, MoveRequest, RenameRequest, DropRequest, CompleteRequest,
            DiscardRequest, CommentRequest, EditRequest, EraseRequest, FollowRequest,
            NotifyRequest, PreferRequest
<1>1. q \in LibraryRequest => q.op \in LibraryOps
  BY DEF LibraryRequest, LibraryOps
<1>2. q \in UploadRequest => q.op \in UploadOps
  BY DEF UploadRequest, UploadOps
<1>3. q \in SocialRequest => q.op \in SocialOps
  BY DEF SocialRequest, SocialOps
<1>4. q \in LibraryRequest \/ q \in UploadRequest \/ q \in SocialRequest
  BY DEF ContentRequest
<1>5. q \in LibraryRequest =>
        /\ q.op = "update" => q \in UpdateRequest
        /\ q.op = "move" => q \in MoveRequest
        /\ q.op = "rename" => q \in RenameRequest
        /\ q.op = "drop" => q \in DropRequest
  BY DEF LibraryRequest
<1>6. q \in UploadRequest =>
        /\ q.op = "complete" => q \in CompleteRequest
        /\ q.op = "discard" => q \in DiscardRequest
  BY DEF UploadRequest
<1>7. q \in SocialRequest =>
        /\ q.op = "comment" => q \in CommentRequest
        /\ q.op = "edit" => q \in EditRequest
        /\ q.op = "erase" => q \in EraseRequest
        /\ q.op = "follow" => q \in FollowRequest
        /\ q.op = "notify" => q \in NotifyRequest
        /\ q.op = "prefer" => q \in PreferRequest
  BY DEF SocialRequest
<1> HIDE DEF UpdateRequest, MoveRequest, RenameRequest, DropRequest, CompleteRequest,
            DiscardRequest, CommentRequest, EditRequest, EraseRequest, FollowRequest,
            NotifyRequest, PreferRequest
<1>8. q # NULL
  BY RequestNull
<1> QED BY <1>1, <1>2, <1>3, <1>4, <1>5, <1>6, <1>7, <1>8 DEF LibraryOps, UploadOps, SocialOps

\* A request that ends, begins or goes on leaves the others as they are.
LEMMA EndsOK ==
    ASSUME RequestsOK, NEW w \in Request, Ends(w), NEW ops
    PROVE  RequestsOK' /\ Untouched(ops)
BY DEF RequestsOK, Ends, Untouched

LEMMA ReplacedOK ==
    ASSUME RequestsOK, NEW w \in Request, NEW q \in ContentRequest, NEW ops, q.op \notin ops,
           request' = [request EXCEPT ![w] = q]
    PROVE  RequestsOK' /\ Untouched(ops)
BY DEF RequestsOK, Untouched

LEMMA AgesOK ==
    ASSUME RequestsOK, NEW w \in Request, EndsAndAges(w), NEW ops,
           ops \cap {"move", "rename", "drop"} = {}
    PROVE  RequestsOK' /\ Untouched(ops)
<1>1. ASSUME NEW q \in ContentRequest, q.op \in {"move", "rename", "drop"}
      PROVE  /\ [q EXCEPT !.fresh = FALSE] \in ContentRequest
             /\ [q EXCEPT !.fresh = FALSE].op = q.op
  <2>1. CASE q.op = "move"
    BY <2>1, RequestKinds DEF MoveRequest, ContentRequest, LibraryRequest
  <2>2. CASE q.op = "rename"
    BY <2>2, RequestKinds DEF RenameRequest, ContentRequest, LibraryRequest
  <2>3. CASE q.op = "drop"
    BY <2>3, RequestKinds DEF DropRequest, ContentRequest, LibraryRequest
  <2> QED BY <1>1, <2>1, <2>2, <2>3
<1>2. \A v \in Request : request'[v] \in ContentRequest \cup {NULL}
  BY <1>1 DEF RequestsOK, EndsAndAges
<1>3. RequestsOK'
  BY <1>2 DEF RequestsOK, EndsAndAges
<1>4. Untouched(ops)
  BY <1>1 DEF RequestsOK, EndsAndAges, Untouched
<1> QED BY <1>3, <1>4

LEMMA LibraryRequests ==
    ASSUME ContentTypeOK, Next
    PROVE  RequestsOK' /\ Untouched(UploadOps \cup SocialOps)
<1> DEFINE ops == UploadOps \cup SocialOps
           Goal == RequestsOK' /\ Untouched(ops)
<1>ok. RequestsOK
  BY DEF ContentTypeOK, RequestsOK
<1>ops. /\ ops \cap {"move", "rename", "drop"} = {}
        /\ \A o \in LibraryOps : o \notin ops
  BY DEF UploadOps, SocialOps, LibraryOps
<1>kinds. UpdateRequest \cup MoveRequest \cup RenameRequest \cup DropRequest \subseteq ContentRequest
  BY DEF ContentRequest, LibraryRequest
<1> HIDE DEF ops
<1>same. request' = request => Goal
  BY <1>ok DEF RequestsOK, Untouched
<1>2. ASSUME NEW w \in Request, NEW r \in Roadmap, NEW d \in Directory \cup {Root, NULL},
             NEW v \in BOOLEAN, UpdateBegin(w, r, d, v)
      PROVE  Goal
  <2> DEFINE q == [op |-> "update", roadmap |-> r, read |-> roadmap[r],
                   row |-> [roadmap[r] EXCEPT !.directory = IF d = NULL THEN @ ELSE d,
                                              !.visible = v]]
  <2>1. roadmap[r] \in Row
    BY <1>2 DEF UpdateBegin, Found, ContentTypeOK, LibraryTypeOK
  <2>2. [roadmap[r] EXCEPT !.directory = IF d = NULL THEN @ ELSE d, !.visible = v] \in Row
    BY <2>1 DEF Row
  <2>3. q \in UpdateRequest
    BY <2>1, <2>2 DEF UpdateRequest
  <2>4. request' = [request EXCEPT ![w] = q] /\ q.op = "update"
    BY <1>2 DEF UpdateBegin, Begins
  <2> HIDE DEF q
  <2> QED BY <2>3, <2>4, <1>ok, <1>ops, <1>kinds, ReplacedOK DEF LibraryOps
<1>3. ASSUME NEW w \in Request, NEW d \in Directory, NEW p \in Directory \cup {Root}, MoveBegin(w, d, p)
      PROVE  Goal
  <2> DEFINE q == [op |-> "move", directory |-> d, to |-> p, at |-> p, depth |-> 0, fresh |-> TRUE]
  <2>1. q \in MoveRequest
    BY LibraryConstants DEF MoveRequest
  <2>2. request' = [request EXCEPT ![w] = q] /\ q.op = "move"
    BY <1>3 DEF MoveBegin, Begins
  <2> HIDE DEF q
  <2> QED BY <2>1, <2>2, <1>ok, <1>ops, <1>kinds, ReplacedOK DEF LibraryOps
<1>4. ASSUME NEW w \in Request, MoveWalk(w)
      PROVE  Goal
  <2>1. CASE Ends(w)
    BY <2>1, <1>ok, EndsOK
  <2>2. CASE /\ Exists(request[w].at) /\ request[w].depth # MaxDepth
             /\ request' = [request EXCEPT ![w].at = parent[request[w].at], ![w].depth = @ + 1]
    <3> DEFINE q == [request[w] EXCEPT !.at = parent[request[w].at], !.depth = @ + 1]
    <3>1. request[w] \in MoveRequest /\ request[w].at # Root
      BY <1>4, <1>ok, RequestKinds DEF MoveWalk, RequestsOK
    <3>2. parent[request[w].at] \in Directory \cup {Root}
      BY <2>2, <3>1 DEF Exists, MoveRequest, ContentTypeOK, LibraryTypeOK
    <3>3. request[w].depth + 1 \in 0..MaxDepth
      BY <2>2, <3>1, LibraryConstants DEF MoveRequest
    <3>4. q \in MoveRequest
      BY <3>1, <3>2, <3>3 DEF MoveRequest
    <3>5. request' = [request EXCEPT ![w] = q] /\ q.op = "move"
      BY <2>2, <3>4, <1>ok DEF RequestsOK, MoveRequest
    <3> HIDE DEF q
    <3> QED BY <3>4, <3>5, <1>ok, <1>ops, <1>kinds, ReplacedOK DEF LibraryOps
  <2> QED BY <1>4, <2>1, <2>2 DEF MoveWalk
<1>5. ASSUME NEW w \in Request, MoveSave(w) \/ RenameSave(w)
      PROVE  Goal
  <2>1. Ends(w) \/ EndsAndAges(w)
    BY <1>5 DEF MoveSave, RenameSave, Saved
  <2> QED BY <2>1, <1>ok, <1>ops, EndsOK, AgesOK
<1>6. ASSUME NEW w \in Request, NEW d \in Directory, RenameBegin(w, d)
      PROVE  Goal
  <2> DEFINE q == [op |-> "rename", directory |-> d, to |-> parent[d], fresh |-> TRUE]
  <2>1. q \in RenameRequest
    BY <1>6 DEF RenameRequest, RenameBegin, Exists, ContentTypeOK, LibraryTypeOK
  <2>2. request' = [request EXCEPT ![w] = q] /\ q.op = "rename"
    BY <1>6 DEF RenameBegin, Begins
  <2> HIDE DEF q
  <2> QED BY <2>1, <2>2, <1>ok, <1>ops, <1>kinds, ReplacedOK DEF LibraryOps
<1>7. ASSUME NEW w \in Request, NEW d \in Directory, DropBegin(w, d)
      PROVE  Goal
  <2> DEFINE q == [op |-> "drop", directory |-> d, detached |-> FALSE, fresh |-> TRUE]
  <2>1. q \in DropRequest
    BY DEF DropRequest
  <2>2. request' = [request EXCEPT ![w] = q] /\ q.op = "drop"
    BY <1>7 DEF DropBegin, Begins
  <2> HIDE DEF q
  <2> QED BY <2>1, <2>2, <1>ok, <1>ops, <1>kinds, ReplacedOK DEF LibraryOps
<1>8. ASSUME NEW w \in Request, DropDetach(w)
      PROVE  Goal
  <2> DEFINE q == [request[w] EXCEPT !.detached = TRUE]
  <2>1. request[w] \in DropRequest
    BY <1>8, <1>ok, RequestKinds DEF DropDetach, RequestsOK
  <2>2. q \in DropRequest /\ q.op = "drop"
    BY <2>1 DEF DropRequest
  <2>3. request' = [request EXCEPT ![w] = q]
    BY <1>8, <1>ok DEF DropDetach, RequestsOK
  <2> HIDE DEF q
  <2> QED BY <2>2, <2>3, <1>ok, <1>ops, <1>kinds, ReplacedOK DEF LibraryOps
<1>9. ASSUME NEW w \in Request, DropRow(w)
      PROVE  Goal
  <2>1. Ends(w) \/ EndsAndAges(w)
    BY <1>9 DEF DropRow
  <2> QED BY <2>1, <1>ok, <1>ops, EndsOK, AgesOK
<1>10. ASSUME NEW w \in Request, UpdateSave(w) \/ Abandon(w)
       PROVE  Goal
  <2>1. Ends(w)
    BY <1>10 DEF UpdateSave, Abandon
  <2> QED BY <2>1, <1>ok, EndsOK
<1>11. ASSUME \/ \E r \in Roadmap, d \in Directory \cup {Root}, v \in BOOLEAN : Create(r, d, v)
              \/ \E u \in User, source, r \in Roadmap : Fork(u, source, r)
              \/ \E u \in User, r \in Roadmap : Like(u, r) \/ Unlike(u, r)
              \/ \E r \in Roadmap : Remove(r)
              \/ \E d \in Directory, p \in Directory \cup {Root} : CreateDirectory(d, p)
       PROVE  Goal
  BY <1>11, <1>same DEF Create, Fork, Like, Unlike, Remove, CreateDirectory
<1> QED
  <2>1. Goal
    BY <1>2, <1>3, <1>4, <1>5, <1>6, <1>7, <1>8, <1>9, <1>10, <1>11 DEF Next
  <2> QED BY <2>1 DEF ops

LEMMA UploadRequests ==
    ASSUME ContentTypeOK, UploadsNext
    PROVE  RequestsOK' /\ Untouched(LibraryOps \cup SocialOps)
<1> DEFINE ops == LibraryOps \cup SocialOps
           Goal == RequestsOK' /\ Untouched(ops)
<1>ok. RequestsOK
  BY DEF ContentTypeOK, RequestsOK
<1>ops. \A o \in UploadOps : o \notin ops
  BY DEF UploadOps, SocialOps, LibraryOps
<1>kinds. CompleteRequest \cup DiscardRequest \subseteq ContentRequest
  BY DEF ContentRequest, UploadRequest
<1> HIDE DEF ops
<1>same. request' = request => Goal
  BY <1>ok DEF RequestsOK, Untouched
<1>1. ASSUME NEW w \in Request, NEW a \in Asset, CompleteBegin(w, a)
      PROVE  Goal
  <2> DEFINE q == [op |-> "complete", asset |-> a, row |-> asset[a], step |-> "head", late |-> FALSE]
  <2>1. q \in CompleteRequest
    BY <1>1 DEF CompleteRequest, CompleteBegin, ContentTypeOK
  <2>2. request' = [request EXCEPT ![w] = q] /\ q.op = "complete"
    BY <1>1 DEF CompleteBegin, Begins
  <2> HIDE DEF q
  <2> QED BY <2>1, <2>2, <1>ok, <1>ops, <1>kinds, ReplacedOK DEF UploadOps
<1>2. ASSUME NEW w \in Request, NEW a \in Asset, RemoveBegin(w, a)
      PROVE  Goal
  <2> DEFINE q == [op |-> "discard", asset |-> a, step |-> "object"]
  <2>1. q \in DiscardRequest
    BY DEF DiscardRequest
  <2>2. request' = [request EXCEPT ![w] = q] /\ q.op = "discard"
    BY <1>2 DEF RemoveBegin, Begins
  <2> HIDE DEF q
  <2> QED BY <2>1, <2>2, <1>ok, <1>ops, <1>kinds, ReplacedOK DEF UploadOps
<1>3. ASSUME NEW w \in Request, CompleteHead(w)
      PROVE  Goal
  <2>1. CASE Ends(w)
    BY <2>1, <1>ok, EndsOK
  <2>2. ASSUME NEW step \in {"save", "object"}, Continues(w, step)
        PROVE  Goal
    <3> DEFINE q == [request[w] EXCEPT !.step = step]
    <3>1. request[w] \in CompleteRequest
      BY <1>3, <1>ok, RequestKinds DEF CompleteHead, Handles, RequestsOK
    <3>2. q \in CompleteRequest /\ q.op = "complete"
      BY <3>1 DEF CompleteRequest
    <3>3. request' = [request EXCEPT ![w] = q]
      BY <2>2, <1>ok DEF Continues, RequestsOK
    <3> HIDE DEF q
    <3> QED BY <3>2, <3>3, <1>ok, <1>ops, <1>kinds, ReplacedOK DEF UploadOps
  <2> QED BY <1>3, <2>1, <2>2 DEF CompleteHead
<1>4. ASSUME NEW w \in Request, CompleteSave(w) \/ DeleteRow(w)
      PROVE  Goal
  <2>1. Ends(w)
    BY <1>4 DEF CompleteSave, DeleteRow
  <2> QED BY <2>1, <1>ok, EndsOK
<1>5. ASSUME NEW w \in Request, DeleteObject(w)
      PROVE  Goal
  <2>1. /\ request[w] \in CompleteRequest \cup DiscardRequest
        /\ [request[w] EXCEPT !.step = "row"] \in CompleteRequest \cup DiscardRequest
        /\ [request[w] EXCEPT !.step = "row"].op = request[w].op
    <3>1. request[w] \in CompleteRequest \/ request[w] \in DiscardRequest
      BY <1>5, <1>ok, RequestKinds DEF DeleteObject, Handles, RequestsOK
    <3>2. CASE request[w] \in CompleteRequest
      BY <3>2 DEF CompleteRequest
    <3>3. CASE request[w] \in DiscardRequest
      BY <3>3 DEF DiscardRequest
    <3> QED BY <3>1, <3>2, <3>3
  <2>2. ASSUME NEW v \in Request, Handles(v, "complete", "save")
        PROVE  /\ request[v] \in CompleteRequest
               /\ [request[v] EXCEPT !.late = TRUE] \in CompleteRequest
    BY <2>2, <1>ok, RequestKinds DEF Handles, RequestsOK, CompleteRequest
  <2>3. \A q \in CompleteRequest \cup DiscardRequest : q.op \in UploadOps
    BY DEF CompleteRequest, DiscardRequest, UploadOps
  <2>4. /\ DOMAIN request' = Request
        /\ request' = [v \in Request |-> request'[v]]
        /\ \A v \in Request :
             \/ request'[v] = request[v]
             \/ request'[v] \in CompleteRequest \cup DiscardRequest
    BY <1>5, <2>1, <2>2 DEF DeleteObject
  <2>5. RequestsOK'
    BY <2>4, <1>ok, <1>kinds DEF RequestsOK
  <2>6. Untouched(ops)
    BY <2>3, <2>4, <1>ops DEF Untouched
  <2> QED BY <2>5, <2>6
<1>6. ASSUME \/ \E u \in User, a \in Asset, r \in Roadmap \cup {NULL} : CreateUpload(u, a, r)
             \/ \E a \in Asset, o \in Object : Put(a, o)
      PROVE  Goal
  BY <1>6, <1>same DEF CreateUpload, Put
<1> QED
  <2>1. Goal
    BY <1>1, <1>2, <1>3, <1>4, <1>5, <1>6 DEF UploadsNext
  <2> QED BY <2>1 DEF ops

\* What is written to say that a comment or a follow has come about
LEMMA CommentNotifies ==
    ASSUME ContentTypeOK, CommentsOK, NEW w \in Request, Asks(w, "comment"), NEW c \in Comment,
           NEW type \in {"comments", "replies"}
    PROVE  [op |-> "notify", type |-> type, cause |-> c,
            to |-> Recipient(request[w].roadmap, request[w].parent)] \in NotifyRequest
<1>1. request[w] \in CommentRequest
  BY RequestKinds DEF Asks, ContentTypeOK
<1>2. Recipient(request[w].roadmap, request[w].parent) \in User
  <2>1. CASE request[w].parent = NULL
    BY <1>1, <2>1, LibraryConstants DEF Recipient, CommentRequest
  <2>2. CASE request[w].parent # NULL
    <3>1. request[w].parent \in Comment /\ comment[request[w].parent] # NULL
      BY <1>1, <2>2 DEF CommentsOK, CommentsOKOf, CommentRequest
    <3>2. comment[request[w].parent] \in CommentRow
      BY <3>1 DEF ContentTypeOK
    <3> QED BY <2>2, <3>2 DEF Recipient, CommentRow
  <2> QED BY <2>1, <2>2
<1>3. type \in Toggle /\ c \in Cause
  BY SocialConstants DEF Cause
<1> QED BY <1>2, <1>3 DEF NotifyRequest

LEMMA FollowNotifies ==
    ASSUME ContentTypeOK, CommentsOK, NEW w \in Request, Asks(w, "follow")
    PROVE  /\ <<request[w].by, request[w].about>> \in Cause
           /\ [op |-> "notify", type |-> "follows", cause |-> <<request[w].by, request[w].about>>,
               to |-> request[w].about] \in NotifyRequest
<1>1. /\ request[w].by \in User /\ request[w].about \in User
      /\ request[w].by # request[w].about
  BY RequestKinds DEF Asks, ContentTypeOK, CommentsOK, CommentsOKOf, FollowRequest
<1>2. <<request[w].by, request[w].about>> \in Cause
  BY <1>1 DEF Cause
<1> QED BY <1>1, <1>2, SocialConstants DEF NotifyRequest

LEMMA SocialRequests ==
    ASSUME ContentTypeOK, CommentsOK, SocialNext
    PROVE  RequestsOK' /\ Untouched(LibraryOps \cup UploadOps)
<1> DEFINE ops == LibraryOps \cup UploadOps
           Goal == RequestsOK' /\ Untouched(ops)
<1>ok. RequestsOK
  BY DEF ContentTypeOK, RequestsOK
<1>ops. \A o \in SocialOps : o \notin ops
  BY DEF UploadOps, SocialOps, LibraryOps
<1>kinds. SocialRequest \subseteq ContentRequest
  BY DEF ContentRequest
<1> HIDE DEF ops
<1>same. request' = request => Goal
  BY <1>ok DEF RequestsOK, Untouched
<1>put. ASSUME NEW w \in Request, NEW q \in SocialRequest, request' = [request EXCEPT ![w] = q],
               q.op \in SocialOps
        PROVE  Goal
  BY <1>put, <1>ok, <1>ops, <1>kinds, ReplacedOK
<1>ends. ASSUME NEW w \in Request, Ends(w) PROVE Goal
  BY <1>ends, <1>ok, EndsOK
<1>1. ASSUME NEW w \in Request, NEW u \in User, NEW r \in Roadmap, NEW p \in Comment \cup {NULL},
             CommentBegin(w, u, r, p)
      PROVE  Goal
  <2> DEFINE q == [op |-> "comment", by |-> u, roadmap |-> r, parent |-> p]
  <2>1. q \in SocialRequest /\ q.op \in SocialOps
    BY DEF SocialRequest, CommentRequest, SocialOps
  <2>2. request' = [request EXCEPT ![w] = q]
    BY <1>1 DEF CommentBegin, Begins
  <2> HIDE DEF q
  <2> QED BY <2>1, <2>2, <1>put
<1>2. ASSUME NEW w \in Request, NEW c \in Comment, CommentInsert(w, c)
      PROVE  Goal
  <2>1. CASE Ends(w)
    BY <2>1, <1>ends
  <2>2. ASSUME NEW type \in {"comments", "replies"},
               Notifies(w, type, c, Recipient(request[w].roadmap, request[w].parent))
        PROVE  Goal
    <3> DEFINE q == [op |-> "notify", type |-> type, cause |-> c,
                     to |-> Recipient(request[w].roadmap, request[w].parent)]
    <3>4. q \in NotifyRequest /\ Asks(w, "comment") /\ RequestsOK
      BY <1>2, <1>ok, CommentNotifies DEF CommentInsert
    <3>6. q \in SocialRequest /\ q.op \in SocialOps
      BY <3>4 DEF SocialRequest, SocialOps
    <3>5. request' = [request EXCEPT ![w] = q]
      BY <2>2 DEF Notifies
    <3> HIDE DEF q
    <3> QED BY <3>6, <3>5, <1>put
  <2> QED BY <1>2, <2>1, <2>2 DEF CommentInsert
<1>3. ASSUME NEW w \in Request, NEW c \in Comment, EditBegin(w, c)
      PROVE  Goal
  <2> DEFINE q == [op |-> "edit", comment |-> c, row |-> comment[c]]
  <2>1. comment[c] \in CommentRow
    BY <1>3 DEF EditBegin, ContentTypeOK
  <2>2. q \in SocialRequest /\ q.op \in SocialOps
    BY <2>1 DEF SocialRequest, EditRequest, SocialOps
  <2>3. request' = [request EXCEPT ![w] = q]
    BY <1>3 DEF EditBegin, Begins
  <2> HIDE DEF q
  <2> QED BY <2>2, <2>3, <1>put
<1>4. ASSUME NEW w \in Request, NEW c \in Comment, EraseBegin(w, c)
      PROVE  Goal
  <2> DEFINE q == [op |-> "erase", comment |-> c]
  <2>1. q \in SocialRequest /\ q.op \in SocialOps
    BY DEF SocialRequest, EraseRequest, SocialOps
  <2>2. request' = [request EXCEPT ![w] = q]
    BY <1>4 DEF EraseBegin, Begins
  <2> HIDE DEF q
  <2> QED BY <2>1, <2>2, <1>put
<1>5. ASSUME NEW w \in Request, EditSave(w) \/ EraseSave(w) \/ Notify(w) \/ PreferencesSave(w)
      PROVE  Goal
  <2>1. Ends(w)
    BY <1>5 DEF EditSave, EraseSave, Notify, PreferencesSave
  <2> QED BY <2>1, <1>ends
<1>6. ASSUME NEW w \in Request, NEW u \in User, NEW v \in User, FollowBegin(w, u, v)
      PROVE  Goal
  <2> DEFINE q == [op |-> "follow", by |-> u, about |-> v]
  <2>1. q \in SocialRequest /\ q.op \in SocialOps
    BY DEF SocialRequest, FollowRequest, SocialOps
  <2>2. request' = [request EXCEPT ![w] = q]
    BY <1>6 DEF FollowBegin, Begins
  <2> HIDE DEF q
  <2> QED BY <2>1, <2>2, <1>put
<1>7. ASSUME NEW w \in Request, FollowInsert(w)
      PROVE  Goal
  <2>1. CASE Ends(w)
    BY <2>1, <1>ends
  <2>2. CASE Notifies(w, "follows", <<request[w].by, request[w].about>>, request[w].about)
    <3> DEFINE q == [op |-> "notify", type |-> "follows",
                     cause |-> <<request[w].by, request[w].about>>, to |-> request[w].about]
    <3>1. q \in NotifyRequest
      BY <1>7, <1>ok, FollowNotifies DEF FollowInsert
    <3>3. q \in SocialRequest /\ q.op \in SocialOps
      BY <3>1 DEF SocialRequest, SocialOps
    <3>4. request' = [request EXCEPT ![w] = q]
      BY <2>2 DEF Notifies
    <3> HIDE DEF q
    <3> QED BY <3>3, <3>4, <1>put
  <2> QED BY <1>7, <2>1, <2>2 DEF FollowInsert
<1>8. ASSUME NEW w \in Request, NEW u \in User, NEW t \in Toggle, NEW on \in BOOLEAN,
             PreferencesBegin(w, u, t, on)
      PROVE  Goal
  <2> DEFINE q == [op |-> "prefer", user |-> u, read |-> preference[u], toggle |-> t, on |-> on]
  <2>1. preference[u] \in Preference \cup {NULL}
    BY DEF ContentTypeOK
  <2>2. q \in SocialRequest /\ q.op \in SocialOps
    BY <2>1 DEF SocialRequest, PreferRequest, SocialOps
  <2>3. request' = [request EXCEPT ![w] = q]
    BY <1>8 DEF PreferencesBegin, Begins
  <2> HIDE DEF q
  <2> QED BY <2>2, <2>3, <1>put
<1>9. ASSUME \/ \E u, v \in User : Unfollow(u, v)
             \/ \E k \in Cause : MarkRead(k)
             \/ \E u \in User : MarkAllRead(u)
      PROVE  Goal
  BY <1>9, <1>same DEF Unfollow, MarkRead, MarkAllRead
<1> QED
  <2>1. Goal
    BY <1>1, <1>2, <1>3, <1>4, <1>5, <1>6, <1>7, <1>8, <1>9 DEF SocialNext
  <2> QED BY <2>1 DEF ops

-----------------------------------------------------------------------------
(* The rows of the library *)

BooksTypeOK ==
    /\ roadmap \in [Roadmap -> Row \cup {NULL}]
    /\ liked \subseteq User \X Roadmap
    /\ overwritten \subseteq Roadmap

ShelvesTypeOK ==
    /\ parent \in [Directory -> Directory \cup {Root, NULL}]
    /\ \A d \in Directory : parent[d] \in Directory => Exists(parent[d])
    /\ created \subseteq Directory
    /\ raced \in BOOLEAN

PlacedOK ==
    \A r \in Roadmap :
        roadmap[r] # NULL /\ roadmap[r].directory # Root => Exists(roadmap[r].directory)

WorkOK == work \in [ops : SUBSET STRING, left : Nat]

LEMMA LibraryTypeParts ==
    LibraryTypeOK <=> BooksTypeOK /\ ShelvesTypeOK /\ PlacedOK /\ WorkOK
BY DEF LibraryTypeOK, BooksTypeOK, ShelvesTypeOK, PlacedOK, WorkOK

LEMMA MadeOK ==
    ASSUME WorkOK, NEW op, Made(op)
    PROVE  WorkOK'
BY DEF WorkOK, Made

\* A roadmap, once there, is there for good.
RoadmapsStay == \A r \in Roadmap : roadmap[r] # NULL => roadmap'[r] # NULL

LEMMA WorkStep ==
    ASSUME WorkOK, ContentNext
    PROVE  WorkOK'
<1>1. UNCHANGED work => WorkOK'
  BY DEF WorkOK
<1>2. CASE LibraryStep
  BY <1>1, <1>2, MadeOK DEF LibraryStep, Next, Create, Fork, Like, Unlike, Remove, CreateDirectory, UpdateBegin,
     UpdateSave, MoveBegin, MoveWalk, MoveSave, RenameBegin, RenameSave, DropBegin,
     DropDetach, DropRow, Abandon, Begins
<1>3. CASE UploadsNext
  BY <1>1, <1>3, MadeOK DEF UploadsNext, CreateUpload, Put, CompleteBegin, RemoveBegin, CompleteHead,
     CompleteSave, DeleteObject, DeleteRow, Begins
<1>4. CASE SocialNext
  BY <1>1, <1>4, MadeOK DEF SocialNext, Unfollow, MarkRead, MarkAllRead, CommentBegin, CommentInsert,
     EditBegin, EraseBegin, EditSave, EraseSave, FollowBegin, FollowInsert, Notify,
     PreferencesBegin, PreferencesSave, Begins
<1> QED BY <1>2, <1>3, <1>4 DEF ContentNext

\* What a step of the library does to the roadmaps of the others
LEMMA DetachedType ==
    ASSUME BooksTypeOK, NEW d
    PROVE  /\ Detached(d) \in [Roadmap -> Row \cup {NULL}]
           /\ \A r \in Roadmap :
                /\ roadmap[r] # NULL <=> Detached(d)[r] # NULL
                /\ roadmap[r] # NULL =>
                    /\ Kept(Detached(d)[r]) = Kept(roadmap[r])
                    /\ Detached(d)[r].forkedFrom = roadmap[r].forkedFrom
                    /\ Detached(d)[r].directory = IF roadmap[r].directory = d THEN Root
                                                  ELSE roadmap[r].directory
<1>1. ASSUME NEW r \in Roadmap, roadmap[r] # NULL
      PROVE  /\ [roadmap[r] EXCEPT !.directory = Root] \in Row
             /\ Kept([roadmap[r] EXCEPT !.directory = Root]) = Kept(roadmap[r])
             /\ [roadmap[r] EXCEPT !.directory = Root].forkedFrom = roadmap[r].forkedFrom
             /\ [roadmap[r] EXCEPT !.directory = Root].directory = Root
  BY <1>1 DEF BooksTypeOK, Row, Kept
<1>2. \A row \in Row : row # NULL
  BY LibraryNull
<1> QED BY <1>1, <1>2 DEF Detached, BooksTypeOK

LEMMA SavedDirectory ==
    ASSUME RequestsOK, NEW w \in Request, MoveSave(w) \/ RenameSave(w)
    PROVE  /\ request[w].directory \in Directory
           /\ request[w].to \in Directory \cup {Root}
           /\ Saved(w, request[w].directory, request[w].to)
<1>1. request[w] \in MoveRequest \/ request[w] \in RenameRequest
  BY RequestKinds DEF MoveSave, RenameSave, RequestsOK
<1> QED BY <1>1 DEF MoveSave, RenameSave, MoveRequest, RenameRequest

LEMMA BooksStep ==
    ASSUME ContentTypeOK, Next
    PROVE  BooksTypeOK' /\ PlacedOK' /\ RoadmapsStay
<1> DEFINE Goal == BooksTypeOK' /\ PlacedOK' /\ RoadmapsStay
<1> USE LibraryNull
<1>ok. RequestsOK /\ BooksTypeOK /\ ShelvesTypeOK /\ PlacedOK
  BY LibraryTypeParts DEF ContentTypeOK, RequestsOK
<1>row. \A row \in Row : row # NULL
  OBVIOUS
<1>null. NULL \notin Roadmap /\ Root # NULL /\ Root \notin Directory /\ NULL \notin Directory
  OBVIOUS
<1>same. ASSUME UNCHANGED <<roadmap, liked, overwritten>>,
                \A d \in Directory : Exists(d) => Exists(d)'
         PROVE  Goal
  BY <1>same, <1>ok, <1>row DEF BooksTypeOK, PlacedOK, RoadmapsStay, Row
<1>1. ASSUME NEW r \in Roadmap, NEW d \in Directory \cup {Root}, NEW v \in BOOLEAN, Create(r, d, v)
      PROVE  Goal
  <2> DEFINE row == [directory |-> d, visible |-> v, deleted |-> FALSE,
                     likes |-> 0, forks |-> 0, forkedFrom |-> NULL]
  <2>1. row \in Row /\ row.directory = d
    BY DEF Row
  <2>2. /\ roadmap' = [roadmap EXCEPT ![r] = row] /\ roadmap[r] = NULL
        /\ d # Root => Exists(d)
        /\ UNCHANGED <<parent, liked, overwritten>>
    BY <1>1 DEF Create, shelves
  <2> HIDE DEF row
  <2> QED BY <2>1, <2>2, <1>ok, <1>row DEF BooksTypeOK, PlacedOK, RoadmapsStay, Exists
<1>2. ASSUME NEW u \in User, NEW source \in Roadmap, NEW r \in Roadmap, Fork(u, source, r)
      PROVE  Goal
  <2> DEFINE row == [directory |-> Root, visible |-> FALSE, deleted |-> FALSE,
                     likes |-> 0, forks |-> 0, forkedFrom |-> source]
             old == [roadmap[source] EXCEPT !.forks = @ + 1]
  <2>1. row \in Row /\ row.directory = Root
    BY DEF Row
  <2>2. /\ roadmap[r] = NULL /\ roadmap[source] # NULL /\ r # source
        /\ UNCHANGED <<parent, liked, overwritten>>
    BY <1>2 DEF Fork, Readable, Found, shelves
  <2>3. old \in Row /\ old.directory = roadmap[source].directory
    BY <2>2, <1>ok DEF BooksTypeOK, Row
  <2>4. roadmap' = [[roadmap EXCEPT ![r] = row] EXCEPT ![source] = old]
    BY <1>2, <2>2, <1>ok DEF Fork, BooksTypeOK
  <2> HIDE DEF row, old
  <2> QED BY <2>1, <2>2, <2>3, <2>4, <1>ok, <1>row DEF BooksTypeOK, PlacedOK, RoadmapsStay, Exists
<1>3. ASSUME NEW u \in User, NEW r \in Roadmap, Like(u, r) \/ Unlike(u, r)
      PROVE  Goal
  <2>1. roadmap[r] \in Row /\ liked' \subseteq User \X Roadmap /\ UNCHANGED <<parent, overwritten>>
    BY <1>3, <1>ok DEF Like, Unlike, Readable, Found, BooksTypeOK, shelves
  <2>2. \/ roadmap' = roadmap
        \/ roadmap' = [roadmap EXCEPT ![r] = [roadmap[r] EXCEPT !.likes = roadmap[r].likes + 1]]
        \/ roadmap' = [roadmap EXCEPT ![r] = [roadmap[r] EXCEPT !.likes = Pred(roadmap[r].likes)]]
    <3>1. CASE Like(u, r)
      BY <3>1, <1>ok DEF Like, BooksTypeOK
    <3>2. CASE Unlike(u, r)
      BY <3>2, <1>ok DEF Unlike, BooksTypeOK
    <3> QED BY <1>3, <3>1, <3>2
  <2>3. \A n \in {roadmap[r].likes + 1, Pred(roadmap[r].likes)} :
          /\ [roadmap[r] EXCEPT !.likes = n] \in Row
          /\ [roadmap[r] EXCEPT !.likes = n].directory = roadmap[r].directory
    BY <2>1 DEF Row, Pred
  <2>4. \/ roadmap' = roadmap
        \/ \E n \in {roadmap[r].likes + 1, Pred(roadmap[r].likes)} :
             roadmap' = [roadmap EXCEPT ![r] = [roadmap[r] EXCEPT !.likes = n]]
    BY <2>2
  <2> QED BY <2>1, <2>3, <2>4, <1>ok, <1>row DEF BooksTypeOK, PlacedOK, RoadmapsStay, Exists
<1>4. ASSUME NEW r \in Roadmap, Remove(r)
      PROVE  Goal
  <2> DEFINE row == [roadmap[r] EXCEPT !.deleted = TRUE]
  <2>1. roadmap[r] \in Row
    BY <1>4, <1>ok DEF Remove, Found, BooksTypeOK
  <2>2. row \in Row /\ row.directory = roadmap[r].directory
    BY <2>1 DEF Row
  <2>3. roadmap' = [roadmap EXCEPT ![r] = row] /\ UNCHANGED <<parent, liked, overwritten>>
    BY <1>4, <1>ok DEF Remove, BooksTypeOK, shelves
  <2> HIDE DEF row
  <2> QED BY <2>1, <2>2, <2>3, <1>ok, <1>row DEF BooksTypeOK, PlacedOK, RoadmapsStay, Exists
<1>5. ASSUME NEW w \in Request, UpdateSave(w)
      PROVE  Goal
  <2>1. request[w].roadmap \in Roadmap /\ request[w].row \in Row
    BY <1>5, <1>ok, RequestKinds DEF UpdateSave, RequestsOK, UpdateRequest
  <2>2. UNCHANGED <<parent, liked>>
    BY <1>5 DEF UpdateSave, shelves
  <2>3. CASE UNCHANGED <<roadmap, overwritten>>
    BY <2>2, <2>3, <1>same DEF Exists
  <2>4. CASE /\ request[w].row.directory = Root \/ Exists(request[w].row.directory)
             /\ roadmap' = [roadmap EXCEPT ![request[w].roadmap] = request[w].row]
             /\ overwritten' \subseteq overwritten \cup {request[w].roadmap}
    BY <2>1, <2>2, <2>4, <1>ok, <1>row DEF BooksTypeOK, PlacedOK, RoadmapsStay, Exists
  <2> QED BY <1>5, <2>3, <2>4 DEF UpdateSave
<1>6. ASSUME NEW d \in Directory, NEW p \in Directory \cup {Root}, CreateDirectory(d, p)
      PROVE  Goal
  <2>1. \A e \in Directory : Exists(e) => Exists(e)'
    BY <1>6, <1>ok, <1>null DEF CreateDirectory, Exists, ShelvesTypeOK
  <2> QED BY <2>1, <1>6, <1>same DEF CreateDirectory, books
<1>7. ASSUME NEW w \in Request, MoveSave(w) \/ RenameSave(w)
      PROVE  Goal
  <2>1. \A e \in Directory : Exists(e) => Exists(e)'
    BY <1>7, <1>ok, <1>null, SavedDirectory DEF Saved, Exists, ShelvesTypeOK
  <2> QED BY <2>1, <1>7, <1>same DEF MoveSave, RenameSave, books
<1>8. ASSUME NEW w \in Request, DropDetach(w)
      PROVE  Goal
  <2>1. roadmap' = Detached(request[w].directory) /\ UNCHANGED <<parent, liked, overwritten>>
    BY <1>8 DEF DropDetach, shelves
  <2>2. BooksTypeOK' /\ RoadmapsStay
    BY <2>1, <1>ok, DetachedType DEF BooksTypeOK, RoadmapsStay
  <2>3. PlacedOK'
    BY <2>1, <1>ok, DetachedType DEF PlacedOK, Exists
  <2> QED BY <2>2, <2>3
<1>9. ASSUME NEW w \in Request, DropRow(w)
      PROVE  Goal
  <2>1. request[w].directory \in Directory /\ UNCHANGED <<liked, overwritten>>
    BY <1>9, <1>ok, RequestKinds DEF DropRow, RequestsOK, DropRequest
  <2>2. CASE UNCHANGED <<parent, roadmap>>
    BY <2>1, <2>2, <1>same DEF Exists
  <2>3. CASE /\ parent' = [parent EXCEPT ![request[w].directory] = NULL]
             /\ roadmap' = Detached(request[w].directory)
    <3>1. BooksTypeOK' /\ RoadmapsStay
      BY <2>1, <2>3, <1>ok, DetachedType DEF BooksTypeOK, RoadmapsStay
    <3>2. ASSUME NEW r \in Roadmap, roadmap'[r] # NULL, roadmap'[r].directory # Root
          PROVE  parent'[roadmap'[r].directory] # NULL
      <4>1. /\ roadmap[r] # NULL /\ roadmap[r] \in Row
            /\ roadmap'[r].directory = roadmap[r].directory
            /\ roadmap[r].directory # request[w].directory
        BY <3>2, <2>3, <1>ok, DetachedType DEF BooksTypeOK
      <4>2. Exists(roadmap[r].directory) /\ roadmap[r].directory \in Directory
        BY <3>2, <4>1, <1>ok DEF PlacedOK, Row
      <4> QED BY <4>1, <4>2, <2>3, <1>ok DEF Exists, ShelvesTypeOK
    <3> QED BY <3>1, <3>2 DEF PlacedOK, Exists
  <2> QED BY <1>9, <2>2, <2>3 DEF DropRow
<1>10. ASSUME UNCHANGED <<shelves, books>>
       PROVE  Goal
  BY <1>10, <1>same DEF shelves, books, Exists
<1>11. ASSUME NEW w \in Request,
              \/ \E r \in Roadmap, d \in Directory \cup {Root, NULL}, v \in BOOLEAN :
                   UpdateBegin(w, r, d, v)
              \/ \E d \in Directory, p \in Directory \cup {Root} : MoveBegin(w, d, p)
              \/ MoveWalk(w)
              \/ \E d \in Directory : RenameBegin(w, d) \/ DropBegin(w, d)
              \/ Abandon(w)
       PROVE  Goal
  BY <1>10, <1>11 DEF UpdateBegin, MoveBegin, MoveWalk, RenameBegin, DropBegin, Abandon
<1> QED BY <1>1, <1>2, <1>3, <1>4, <1>5, <1>6, <1>7, <1>8, <1>9, <1>11 DEF Next

LEMMA ShelvesTypeStep ==
    ASSUME ContentTypeOK, Next
    PROVE  ShelvesTypeOK'
<1> USE LibraryNull
<1>ok. RequestsOK /\ ShelvesTypeOK
  BY LibraryTypeParts DEF ContentTypeOK, RequestsOK
<1>null. Root # NULL /\ Root \notin Directory /\ NULL \notin Directory
  OBVIOUS
<1>same. UNCHANGED shelves => ShelvesTypeOK'
  BY <1>ok DEF shelves, ShelvesTypeOK, Exists
<1>1. ASSUME NEW d \in Directory, NEW p \in Directory \cup {Root}, CreateDirectory(d, p)
      PROVE  ShelvesTypeOK'
  BY <1>1, <1>ok, <1>null DEF CreateDirectory, Exists, ShelvesTypeOK
<1>2. ASSUME NEW w \in Request, MoveSave(w) \/ RenameSave(w)
      PROVE  ShelvesTypeOK'
  <2> DEFINE d == request[w].directory
             p == request[w].to
  <2>1. d \in Directory /\ p \in Directory \cup {Root} /\ Saved(w, d, p) /\ created' = created
    BY <1>2, <1>ok, SavedDirectory DEF MoveSave, RenameSave
  <2> HIDE DEF d, p
  <2>2. CASE UNCHANGED <<parent, raced>>
    BY <2>1, <2>2, <1>same DEF shelves
  <2>3. CASE (p = Root \/ Exists(p)) /\ parent' = [parent EXCEPT ![d] = p]
             /\ raced' = (raced \/ ~request[w].fresh)
    <3>1. raced' \in BOOLEAN
      BY <2>3
    <3> QED BY <3>1, <2>1, <2>3, <1>ok, <1>null DEF ShelvesTypeOK, Exists
  <2> QED BY <2>1, <2>2, <2>3 DEF Saved
<1>3. ASSUME NEW w \in Request, DropRow(w)
      PROVE  ShelvesTypeOK'
  <2>1. request[w].directory \in Directory /\ UNCHANGED <<created, raced>>
    BY <1>3, <1>ok, RequestKinds DEF DropRow, RequestsOK, DropRequest
  <2>2. CASE UNCHANGED parent
    BY <2>1, <2>2, <1>same DEF shelves
  <2>3. CASE /\ Children(request[w].directory) = {}
             /\ parent' = [parent EXCEPT ![request[w].directory] = NULL]
    BY <2>1, <2>3, <1>ok, <1>null DEF ShelvesTypeOK, Exists, Children
  <2> QED BY <1>3, <2>2, <2>3 DEF DropRow
<1>4. ASSUME \/ \E r \in Roadmap, d \in Directory \cup {Root}, v \in BOOLEAN : Create(r, d, v)
             \/ \E u \in User, source, r \in Roadmap : Fork(u, source, r)
             \/ \E u \in User, r \in Roadmap : Like(u, r) \/ Unlike(u, r)
             \/ \E r \in Roadmap : Remove(r)
             \/ \E w \in Request :
                 \/ \E r \in Roadmap, d \in Directory \cup {Root, NULL}, v \in BOOLEAN :
                      UpdateBegin(w, r, d, v)
                 \/ UpdateSave(w)
                 \/ \E d \in Directory, p \in Directory \cup {Root} : MoveBegin(w, d, p)
                 \/ MoveWalk(w)
                 \/ \E d \in Directory : RenameBegin(w, d) \/ DropBegin(w, d)
                 \/ DropDetach(w) \/ Abandon(w)
      PROVE  ShelvesTypeOK'
  BY <1>4, <1>same DEF Create, Fork, Like, Unlike, Remove, UpdateBegin, UpdateSave, MoveBegin,
                       MoveWalk, RenameBegin, DropBegin, DropDetach, Abandon
<1> QED BY <1>1, <1>2, <1>3, <1>4 DEF Next

LEMMA LibraryKept ==
    ASSUME UploadsNext \/ SocialNext
    PROVE  UNCHANGED <<roadmap, liked, overwritten, parent, created, raced>>
<1>1. UploadsNext => UNCHANGED library
  BY DEF UploadsNext, CreateUpload, Put, CompleteBegin, RemoveBegin, CompleteHead, CompleteSave,
         DeleteObject, DeleteRow
<1>2. SocialNext => UNCHANGED library
  BY DEF SocialNext, Unfollow, MarkRead, MarkAllRead, CommentBegin, CommentInsert, EditBegin,
         EraseBegin, EditSave, EraseSave, FollowBegin, FollowInsert, Notify, PreferencesBegin,
         PreferencesSave
<1> QED BY <1>1, <1>2 DEF library, books, shelves

\* LibraryTypeOK and RoadmapsStay, for every step
LEMMA LibraryTypeStep ==
    ASSUME ContentTypeOK, ContentNext
    PROVE  LibraryTypeOK' /\ RoadmapsStay
<1>1. WorkOK'
  BY WorkStep, LibraryTypeParts DEF ContentTypeOK
<1>2. CASE LibraryStep
  <2>1. BooksTypeOK' /\ ShelvesTypeOK' /\ PlacedOK' /\ RoadmapsStay
    BY <1>2, BooksStep, ShelvesTypeStep DEF LibraryStep
  <2> QED BY <1>1, <2>1
          DEF LibraryTypeOK, BooksTypeOK, ShelvesTypeOK, PlacedOK, WorkOK, Exists
<1>3. CASE UploadsNext \/ SocialNext
  <2>1. BooksTypeOK /\ ShelvesTypeOK /\ PlacedOK
    BY LibraryTypeParts DEF ContentTypeOK
  <2>2. BooksTypeOK' /\ ShelvesTypeOK' /\ PlacedOK' /\ RoadmapsStay
    BY <1>3, <2>1, LibraryKept DEF BooksTypeOK, ShelvesTypeOK, PlacedOK, Exists, RoadmapsStay
  <2> QED BY <1>1, <2>2
          DEF LibraryTypeOK, BooksTypeOK, ShelvesTypeOK, PlacedOK, WorkOK, Exists
<1> QED BY <1>2, <1>3 DEF ContentNext

-----------------------------------------------------------------------------
(* The rows of uploads and comments *)

UploadTypeOK ==
    /\ asset \in [Asset -> Upload \cup {NULL}]
    /\ object \in [Asset -> Object \cup {NULL}]

LEMMA UploadTypeStep ==
    ASSUME ContentTypeOK, UploadsNext
    PROVE  UploadTypeOK'
<1>ok. RequestsOK /\ UploadTypeOK
  BY DEF ContentTypeOK, RequestsOK, UploadTypeOK
<1>1. ASSUME NEW u \in User, NEW a \in Asset, NEW r \in Roadmap \cup {NULL}, CreateUpload(u, a, r)
      PROVE  UploadTypeOK'
  BY <1>1, <1>ok DEF CreateUpload, UploadTypeOK, Upload
<1>2. ASSUME NEW a \in Asset, NEW o \in Object, Put(a, o)
      PROVE  UploadTypeOK'
  BY <1>2, <1>ok DEF Put, UploadTypeOK
<1>3. ASSUME NEW w \in Request, CompleteSave(w)
      PROVE  UploadTypeOK'
  <2>1. request[w].asset \in Asset /\ request[w].row \in Upload
    BY <1>3, <1>ok, RequestKinds DEF CompleteSave, Handles, RequestsOK, CompleteRequest
  <2>2. [request[w].row EXCEPT !.ready = TRUE] \in Upload
    BY <2>1 DEF Upload
  <2> QED BY <2>1, <2>2, <1>3, <1>ok DEF CompleteSave, UploadTypeOK
<1>4. ASSUME NEW w \in Request, DeleteObject(w) \/ DeleteRow(w)
      PROVE  UploadTypeOK'
  <2>1. request[w].asset \in Asset
    BY <1>4, <1>ok, RequestKinds DEF DeleteObject, DeleteRow, HalfWay, Handles, RequestsOK,
                                     CompleteRequest, DiscardRequest
  <2> QED BY <2>1, <1>4, <1>ok DEF DeleteObject, DeleteRow, UploadTypeOK
<1>5. ASSUME NEW w \in Request,
             \/ \E a \in Asset : CompleteBegin(w, a) \/ RemoveBegin(w, a)
             \/ CompleteHead(w)
      PROVE  UploadTypeOK'
  BY <1>5, <1>ok DEF CompleteBegin, RemoveBegin, CompleteHead, uploads, UploadTypeOK
<1> QED BY <1>1, <1>2, <1>3, <1>4, <1>5 DEF UploadsNext

ThreadsOK ==
    \A c \in Comment : comment[c] # NULL =>
        LET p == comment[c].parent IN
        /\ roadmap[comment[c].roadmap] # NULL
        /\ p # NULL => /\ comment[p] # NULL
                       /\ comment[p].parent = NULL
                       /\ comment[p].roadmap = comment[c].roadmap

CommentTypeOK == comment \in [Comment -> CommentRow \cup {NULL}]

\* A comment, once there, stays on its roadmap and below its parent.
CommentsStay ==
    \A c \in Comment : comment[c] # NULL =>
        /\ comment'[c] # NULL
        /\ comment'[c].roadmap = comment[c].roadmap
        /\ comment'[c].parent = comment[c].parent

Thread(c) ==
    LET p == comment[c].parent IN
    /\ roadmap[comment[c].roadmap] # NULL
    /\ p # NULL => /\ comment[p] # NULL
                   /\ comment[p].parent = NULL
                   /\ comment[p].roadmap = comment[c].roadmap

LEMMA ThreadStays ==
    ASSUME ThreadsOK, CommentTypeOK, RoadmapsStay, CommentsStay,
           NEW c \in Comment, comment[c] # NULL
    PROVE  Thread(c)'
<1>1. /\ comment[c] # NULL /\ comment[c] \in CommentRow
      /\ comment'[c].roadmap = comment[c].roadmap
      /\ comment'[c].parent = comment[c].parent
  BY DEF CommentsStay, CommentTypeOK
<1>2. comment[c].roadmap \in Roadmap /\ comment[c].parent \in Comment \cup {NULL}
  BY <1>1 DEF CommentRow
<1>3. roadmap'[comment[c].roadmap] # NULL
  BY <1>1, <1>2 DEF ThreadsOK, RoadmapsStay
<1>4. ASSUME comment[c].parent # NULL
      PROVE  LET p == comment[c].parent IN
             /\ comment'[p] # NULL
             /\ comment'[p].parent = NULL
             /\ comment'[p].roadmap = comment[c].roadmap
  BY <1>1, <1>2, <1>4 DEF ThreadsOK, CommentsStay
<1> QED BY <1>1, <1>3, <1>4 DEF Thread

\* What a request relies on stays true, and of the others there is nothing to say.
LEMMA CommentsKept ==
    ASSUME RequestsOK, CommentsOK, RoadmapsStay, CommentsStay, NEW w \in Request,
           \/ request'[w] = request[w]
           \/ request'[w] = NULL
           \/ request'[w].op \notin {"comment", "edit", "erase", "follow"}
    PROVE  CommentsOKOf(w)'
<1>1. CASE request'[w] = NULL \/ request'[w].op \notin {"comment", "edit", "erase", "follow"}
  BY <1>1 DEF CommentsOKOf, Asks
<1>2. CASE request'[w] = request[w]
  <2>1. CommentsOKOf(w)
    BY DEF CommentsOK, CommentsOKOf
  <2>2. ASSUME Asks(w, "comment")
        PROVE  LET p == request[w].parent IN
               /\ roadmap'[request[w].roadmap] # NULL
               /\ p # NULL => /\ comment'[p] # NULL
                              /\ comment'[p].parent = NULL
                              /\ comment'[p].roadmap = request[w].roadmap
    <3>1. request[w].roadmap \in Roadmap /\ request[w].parent \in Comment \cup {NULL}
      BY <2>2, RequestKinds DEF Asks, RequestsOK, CommentRequest
    <3> QED BY <2>1, <2>2, <3>1 DEF CommentsOKOf, RoadmapsStay, CommentsStay
  <2>3. ASSUME Asks(w, "edit")
        PROVE  LET c == request[w].comment IN
               /\ comment'[c] # NULL
               /\ comment'[c].parent = request[w].row.parent
               /\ comment'[c].roadmap = request[w].row.roadmap
    <3>1. request[w].comment \in Comment
      BY <2>3, RequestKinds DEF Asks, RequestsOK, EditRequest
    <3> QED BY <2>1, <2>3, <3>1 DEF CommentsOKOf, CommentsStay
  <2>4. ASSUME Asks(w, "erase")
        PROVE  comment'[request[w].comment] # NULL
    <3>1. request[w].comment \in Comment
      BY <2>4, RequestKinds DEF Asks, RequestsOK, EraseRequest
    <3> QED BY <2>1, <2>4, <3>1 DEF CommentsOKOf, CommentsStay
  <2> QED BY <1>2, <2>1, <2>2, <2>3, <2>4 DEF CommentsOKOf, Asks
<1> QED BY <1>1, <1>2

\* The rest of the types
SocialTypeOK ==
    /\ follows \subseteq User \X User
    /\ \A u \in User : <<u, u>> \notin follows
    /\ preference \in [User -> Preference \cup {NULL}]
    /\ told \in [Cause -> Nat]
    /\ \A k \in Cause : unread[k] \in 0..told[k]

LEMMA CommentStep ==
    ASSUME ContentTypeOK, CommentsOK, SocialNext
    PROVE  CommentTypeOK' /\ ThreadsOK' /\ CommentsOK'
<1> DEFINE Goal == CommentTypeOK' /\ ThreadsOK' /\ CommentsOK'
<1>ok. RequestsOK /\ CommentTypeOK /\ ThreadsOK
  BY DEF ContentTypeOK, RequestsOK, CommentTypeOK, ThreadsOK
<1>row. \A row \in CommentRow : row # NULL
  BY SocialConstants
<1>stay. RoadmapsStay
  BY LibraryKept DEF RoadmapsStay
\* Comments stay, none appears, and the requests are fine.
<1>put. ASSUME CommentTypeOK', CommentsStay,
               \A c \in Comment : comment'[c] # NULL => comment[c] # NULL,
               NEW w \in Request, CommentsOKOf(w)',
               \A v \in Request : v # w => request'[v] = request[v]
        PROVE  Goal
  <2>1. ThreadsOK'
    BY <1>put, <1>ok, <1>stay, ThreadStays DEF ThreadsOK, Thread
  <2>2. CommentsOK'
    <3>1. \A v \in Request : v # w => CommentsOKOf(v)'
      BY <1>put, <1>ok, <1>stay, CommentsKept
    <3> QED BY <1>put, <3>1 DEF CommentsOK
  <2> QED BY <1>put, <2>1, <2>2
<1>same. ASSUME comment' = comment,
                NEW w \in Request, CommentsOKOf(w)',
                \A v \in Request : v # w => request'[v] = request[v]
         PROVE  Goal
  <2>1. CommentTypeOK' /\ CommentsStay /\ \A c \in Comment : comment'[c] # NULL => comment[c] # NULL
    BY <1>same, <1>ok DEF CommentTypeOK, CommentsStay
  <2> QED BY <2>1, <1>same, <1>put
<1>1. ASSUME NEW w \in Request, NEW u \in User, NEW r \in Roadmap, NEW p \in Comment \cup {NULL},
             CommentBegin(w, u, r, p)
      PROVE  Goal
  <2>1. /\ comment' = comment /\ roadmap' = roadmap /\ roadmap[r] # NULL
        /\ p # NULL => comment[p] # NULL /\ comment[p].parent = NULL /\ comment[p].roadmap = r
        /\ request' = [request EXCEPT ![w] =
              [op |-> "comment", by |-> u, roadmap |-> r, parent |-> p]]
    BY <1>1 DEF CommentBegin, Begins, Readable, Found, library, books, social
  <2>2. CommentsOKOf(w)' /\ \A v \in Request : v # w => request'[v] = request[v]
    BY <2>1, <1>ok DEF CommentsOKOf, Asks, RequestsOK
  <2> QED BY <2>1, <2>2, <1>same
<1>2. ASSUME NEW w \in Request, NEW c \in Comment, CommentInsert(w, c)
      PROVE  Goal
  <2> DEFINE row == [author |-> request[w].by, roadmap |-> request[w].roadmap,
                     parent |-> request[w].parent, deleted |-> FALSE]
  <2>1. request[w] \in CommentRequest /\ Asks(w, "comment") /\ comment[c] = NULL
    BY <1>2, <1>ok, RequestKinds DEF CommentInsert, Asks, RequestsOK
  <2>2. /\ row \in CommentRow
        /\ row.roadmap = request[w].roadmap /\ row.parent = request[w].parent
    BY <2>1 DEF CommentRequest, CommentRow
  <2>3. comment' = [comment EXCEPT ![c] = row]
    BY <1>2 DEF CommentInsert
  <2>4. /\ \A v \in Request : v # w => request'[v] = request[v]
        /\ request'[w] = NULL \/ request'[w].op = "notify"
    BY <1>2, <1>ok DEF CommentInsert, Ends, Notifies, RequestsOK
  <2> HIDE DEF row
  <2>5. CommentTypeOK' /\ CommentsStay
    BY <2>1, <2>2, <2>3, <1>ok, <1>row DEF CommentTypeOK, CommentsStay
  <2>6. CommentsOK'
    BY <2>4, <2>5, <1>ok, <1>stay, CommentsKept DEF CommentsOK
  <2>7. ASSUME NEW x \in Comment, comment'[x] # NULL
        PROVE  Thread(x)'
    <3>1. CASE x = c
      <4>1. CommentsOKOf(w) /\ request[w].roadmap \in Roadmap /\ request[w].parent \in Comment \cup {NULL}
        BY <2>1 DEF CommentsOK, CommentRequest
      <4>2. comment'[c] = row /\ roadmap'[row.roadmap] # NULL
        BY <4>1, <2>1, <2>2, <2>3, <1>ok, <1>stay DEF CommentTypeOK, CommentsOKOf, RoadmapsStay
      <4>3. ASSUME row.parent # NULL
            PROVE  /\ comment'[row.parent] # NULL
                   /\ comment'[row.parent].parent = NULL
                   /\ comment'[row.parent].roadmap = row.roadmap
        BY <4>1, <4>3, <2>1, <2>2, <2>5 DEF CommentsOKOf, CommentsStay
      <4> QED BY <3>1, <4>2, <4>3 DEF Thread
    <3>2. CASE x # c
      <4>1. comment[x] # NULL
        BY <2>3, <2>7, <3>2, <1>ok DEF CommentTypeOK
      <4> QED BY <4>1, <2>5, <1>ok, <1>stay, ThreadStays
    <3> QED BY <3>1, <3>2
  <2> QED BY <2>5, <2>6, <2>7 DEF ThreadsOK, Thread
<1>3. ASSUME NEW w \in Request, NEW c \in Comment, EditBegin(w, c) \/ EraseBegin(w, c)
      PROVE  Goal
  <2>1. /\ comment' = comment /\ comment[c] # NULL
        /\ \/ request' = [request EXCEPT ![w] = [op |-> "edit", comment |-> c, row |-> comment[c]]]
           \/ request' = [request EXCEPT ![w] = [op |-> "erase", comment |-> c]]
    BY <1>3 DEF EditBegin, EraseBegin, Begins, social
  <2>2. CommentsOKOf(w)' /\ \A v \in Request : v # w => request'[v] = request[v]
    BY <2>1, <1>ok DEF CommentsOKOf, Asks, RequestsOK
  <2> QED BY <2>1, <2>2, <1>same
<1>4. ASSUME NEW w \in Request, EditSave(w)
      PROVE  Goal
  <2> DEFINE c == request[w].comment
             row == request[w].row
  <2>1. c \in Comment /\ row \in CommentRow
    BY <1>4, <1>ok, RequestKinds DEF EditSave, Asks, RequestsOK, EditRequest
  <2>2. comment[c] # NULL /\ comment[c].parent = row.parent /\ comment[c].roadmap = row.roadmap
    BY <1>4 DEF EditSave, CommentsOK, CommentsOKOf
  <2>3. comment' = [comment EXCEPT ![c] = row] /\ Ends(w)
    BY <1>4 DEF EditSave
  <2> HIDE DEF c, row
  <2>4. /\ CommentTypeOK' /\ CommentsStay
        /\ \A x \in Comment : comment'[x] # NULL => comment[x] # NULL
    BY <2>1, <2>2, <2>3, <1>ok, <1>row DEF CommentTypeOK, CommentsStay
  <2>5. CommentsOKOf(w)' /\ \A v \in Request : v # w => request'[v] = request[v]
    BY <2>3, <1>ok DEF CommentsOKOf, Asks, RequestsOK, Ends
  <2> QED BY <2>4, <2>5, <1>put
<1>5. ASSUME NEW w \in Request, EraseSave(w)
      PROVE  Goal
  <2> DEFINE c == request[w].comment
             row == [comment[c] EXCEPT !.deleted = TRUE]
  <2>1. c \in Comment
    BY <1>5, <1>ok, RequestKinds DEF EraseSave, Asks, RequestsOK, EraseRequest
  <2>2. comment[c] # NULL /\ comment[c] \in CommentRow
    BY <1>5, <2>1, <1>ok DEF EraseSave, CommentsOK, CommentsOKOf, CommentTypeOK
  <2>3. row \in CommentRow /\ comment[c].parent = row.parent /\ comment[c].roadmap = row.roadmap
    BY <2>2 DEF CommentRow
  <2>4. comment' = [comment EXCEPT ![c] = row] /\ Ends(w)
    BY <1>5, <2>1, <1>ok DEF EraseSave, CommentTypeOK
  <2> HIDE DEF c, row
  <2>5. /\ CommentTypeOK' /\ CommentsStay
        /\ \A x \in Comment : comment'[x] # NULL => comment[x] # NULL
    BY <2>1, <2>2, <2>3, <2>4, <1>ok, <1>row DEF CommentTypeOK, CommentsStay
  <2>6. CommentsOKOf(w)' /\ \A v \in Request : v # w => request'[v] = request[v]
    BY <2>4, <1>ok DEF CommentsOKOf, Asks, RequestsOK, Ends
  <2> QED BY <2>5, <2>6, <1>put
<1>6. ASSUME NEW w \in Request, NEW u \in User, NEW v \in User, FollowBegin(w, u, v)
      PROVE  Goal
  <2>1. /\ comment' = comment /\ u # v
        /\ request' = [request EXCEPT ![w] = [op |-> "follow", by |-> u, about |-> v]]
    BY <1>6 DEF FollowBegin, Begins, social
  <2>2. CommentsOKOf(w)' /\ \A x \in Request : x # w => request'[x] = request[x]
    BY <2>1, <1>ok DEF CommentsOKOf, Asks, RequestsOK
  <2> QED BY <2>1, <2>2, <1>same
<1>7. ASSUME NEW w \in Request,
             \/ FollowInsert(w) \/ Notify(w) \/ PreferencesSave(w)
             \/ \E u \in User, t \in Toggle, on \in BOOLEAN : PreferencesBegin(w, u, t, on)
      PROVE  Goal
  <2>1. comment' = comment
    BY <1>7 DEF FollowInsert, Notify, PreferencesSave, PreferencesBegin, social
  <2>2. /\ \A v \in Request : v # w => request'[v] = request[v]
        /\ request'[w] = NULL \/ request'[w].op \in {"notify", "prefer"}
    BY <1>7, <1>ok DEF FollowInsert, Notify, PreferencesSave, PreferencesBegin, Begins, Ends,
                       Notifies, RequestsOK
  <2>3. CommentsOKOf(w)'
    BY <2>2 DEF CommentsOKOf, Asks
  <2> QED BY <2>1, <2>2, <2>3, <1>same
<1>8. ASSUME \/ \E u, v \in User : Unfollow(u, v)
             \/ \E k \in Cause : MarkRead(k)
             \/ \E u \in User : MarkAllRead(u)
      PROVE  Goal
  <2>1. comment' = comment /\ request' = request
    BY <1>8 DEF Unfollow, MarkRead, MarkAllRead
  <2>2. CommentTypeOK' /\ CommentsStay /\ \A c \in Comment : comment'[c] # NULL => comment[c] # NULL
    BY <2>1, <1>ok DEF CommentTypeOK, CommentsStay
  <2>3. ThreadsOK'
    BY <2>2, <1>ok, <1>stay, ThreadStays DEF ThreadsOK, Thread
  <2>4. CommentsOK'
    BY <2>1, <2>2, <1>ok, <1>stay, CommentsKept DEF CommentsOK
  <2> QED BY <2>2, <2>3, <2>4
<1> QED
  <2>1. Goal
    BY <1>1, <1>2, <1>3, <1>4, <1>5, <1>6, <1>7, <1>8 DEF SocialNext
  <2> QED BY <2>1

LEMMA SocialTypeStep ==
    ASSUME ContentTypeOK, CommentsOK, unread \in [Cause -> Nat], SocialNext
    PROVE  SocialTypeOK' /\ (unread \in [Cause -> Nat])'
<1> DEFINE Goal == SocialTypeOK' /\ (unread \in [Cause -> Nat])'
<1>ok. RequestsOK /\ SocialTypeOK
  BY DEF ContentTypeOK, RequestsOK, SocialTypeOK
<1>same. ASSUME UNCHANGED <<follows, preference, told, unread>> PROVE Goal
  BY <1>same, <1>ok DEF SocialTypeOK
<1>1. ASSUME NEW w \in Request, FollowInsert(w)
      PROVE  Goal
  <2>1. request[w].by \in User /\ request[w].about \in User /\ request[w].by # request[w].about
    BY <1>1, <1>ok, RequestKinds DEF FollowInsert, Asks, RequestsOK, CommentsOK, CommentsOKOf, FollowRequest
  <2>2. follows' = follows \/ follows' = follows \cup {<<request[w].by, request[w].about>>}
    BY <1>1 DEF FollowInsert
  <2>3. UNCHANGED <<preference, told, unread>>
    BY <1>1 DEF FollowInsert
  <2> QED BY <2>1, <2>2, <2>3, <1>ok DEF SocialTypeOK
<1>2. ASSUME NEW u \in User, NEW v \in User, Unfollow(u, v)
      PROVE  Goal
  BY <1>2, <1>ok DEF Unfollow, news, SocialTypeOK
<1>3. ASSUME NEW w \in Request, Notify(w)
      PROVE  Goal
  <2>1. request[w].cause \in Cause
    BY <1>3, <1>ok, RequestKinds DEF Notify, Asks, RequestsOK, NotifyRequest
  <2>2. \/ UNCHANGED <<told, unread>>
        \/ /\ told' = [told EXCEPT ![request[w].cause] = @ + 1]
           /\ unread' = [unread EXCEPT ![request[w].cause] = @ + 1]
    BY <1>3 DEF Notify
  <2>3. UNCHANGED <<follows, preference>>
    BY <1>3 DEF Notify
  <2>4. told' \in [Cause -> Nat] /\ unread' \in [Cause -> Nat]
    BY <2>1, <2>2, <1>ok DEF SocialTypeOK
  <2>5. \A k \in Cause : unread'[k] \in 0..told'[k]
    BY <2>1, <2>2, <1>ok DEF SocialTypeOK
  <2> QED BY <2>3, <2>4, <2>5, <1>ok DEF SocialTypeOK
<1>4. ASSUME NEW k \in Cause, MarkRead(k)
      PROVE  Goal
  <2>1. /\ unread' = [unread EXCEPT ![k] = @ - 1] /\ unread[k] > 0
        /\ UNCHANGED <<follows, preference, told>>
    BY <1>4 DEF MarkRead
  <2>2. unread' \in [Cause -> Nat]
    BY <2>1
  <2>3. \A x \in Cause : unread'[x] \in 0..told'[x]
    <3> SUFFICES ASSUME NEW x \in Cause PROVE unread'[x] \in 0..told[x]
      BY <2>1
    <3>1. told[x] \in Nat /\ unread[x] \in 0..told[x]
      BY <1>ok DEF SocialTypeOK
    <3>2. unread'[x] = unread[x] \/ (unread'[x] = unread[x] - 1 /\ unread[x] > 0)
      BY <2>1
    <3> QED BY <3>1, <3>2
  <2> QED BY <2>1, <2>2, <2>3, <1>ok DEF SocialTypeOK
<1>5. ASSUME NEW u \in User, MarkAllRead(u)
      PROVE  Goal
  <2>1. /\ \A k \in Cause : unread'[k] = 0 \/ unread'[k] = unread[k]
        /\ DOMAIN unread' = Cause /\ unread' = [k \in Cause |-> unread'[k]]
        /\ UNCHANGED <<follows, preference, told>>
    BY <1>5 DEF MarkAllRead
  <2>2. unread' \in [Cause -> Nat]
    BY <2>1
  <2>3. \A x \in Cause : unread'[x] \in 0..told'[x]
    <3> SUFFICES ASSUME NEW x \in Cause PROVE unread'[x] \in 0..told[x]
      BY <2>1
    <3>1. told[x] \in Nat /\ unread[x] \in 0..told[x]
      BY <1>ok DEF SocialTypeOK
    <3>2. unread'[x] = 0 \/ unread'[x] = unread[x]
      BY <2>1
    <3> QED BY <3>1, <3>2
  <2> QED BY <2>1, <2>2, <2>3, <1>ok DEF SocialTypeOK
<1>6. ASSUME NEW w \in Request, PreferencesSave(w)
      PROVE  Goal
  <2>1. request[w] \in PreferRequest
    BY <1>6, <1>ok, RequestKinds DEF PreferencesSave, Asks, RequestsOK
  <2> DEFINE saved == IF request[w].read # NULL THEN request[w].read
                      ELSE IF preference[request[w].user] # NULL THEN preference[request[w].user]
                      ELSE [on |-> Toggle]
             row == [on |-> IF request[w].on THEN saved.on \cup {request[w].toggle}
                            ELSE saved.on \ {request[w].toggle}]
  <2>2. saved \in Preference
    BY <2>1, <1>ok DEF PreferRequest, SocialTypeOK, Preference
  <2>3. row \in Preference
    BY <2>1, <2>2 DEF PreferRequest, Preference
  <2>4. preference' = [preference EXCEPT ![request[w].user] = row]
    BY <1>6 DEF PreferencesSave
  <2> HIDE DEF row
  <2>5. preference' \in [User -> Preference \cup {NULL}]
    BY <2>1, <2>3, <2>4, <1>ok DEF PreferRequest, SocialTypeOK
  <2> QED BY <2>5, <1>6, <1>ok DEF PreferencesSave, news, SocialTypeOK
<1>7. ASSUME NEW w \in Request,
             \/ \E u \in User, r \in Roadmap, p \in Comment \cup {NULL} : CommentBegin(w, u, r, p)
             \/ \E c \in Comment : CommentInsert(w, c) \/ EditBegin(w, c) \/ EraseBegin(w, c)
             \/ EditSave(w) \/ EraseSave(w)
             \/ \E u, v \in User : FollowBegin(w, u, v)
             \/ \E u \in User, t \in Toggle, on \in BOOLEAN : PreferencesBegin(w, u, t, on)
      PROVE  Goal
  BY <1>7, <1>same DEF CommentBegin, CommentInsert, EditBegin, EraseBegin, EditSave, EraseSave,
                       FollowBegin, PreferencesBegin, social, news
<1> QED
  <2>1. Goal
    BY <1>1, <1>2, <1>3, <1>4, <1>5, <1>6, <1>7 DEF SocialNext
  <2> QED BY <2>1

-----------------------------------------------------------------------------
(* The types *)

ContentTypeInv == ContentTypeOK /\ CommentsOK /\ unread \in [Cause -> Nat]

LEMMA ContentTypeStep == ContentTypeInv /\ [ContentNext]_contentVars => ContentTypeInv'
<1> SUFFICES ASSUME ContentTypeInv, [ContentNext]_contentVars
             PROVE  ContentTypeInv'
  OBVIOUS
<1> USE DEF ContentTypeInv
<1>ok. /\ RequestsOK /\ UploadTypeOK /\ CommentTypeOK /\ ThreadsOK /\ SocialTypeOK
  BY DEF ContentTypeOK, RequestsOK, UploadTypeOK, CommentTypeOK, ThreadsOK, SocialTypeOK
<1>join. ASSUME LibraryTypeOK', RequestsOK', UploadTypeOK', CommentTypeOK', ThreadsOK', SocialTypeOK'
         PROVE  ContentTypeOK'
  BY <1>join DEF ContentTypeOK, RequestsOK, UploadTypeOK, CommentTypeOK, ThreadsOK, SocialTypeOK
<1>1. CASE ContentNext
  <2>1. LibraryTypeOK' /\ RoadmapsStay
    BY <1>1, LibraryTypeStep
  \* Neither the library nor uploads touch comments.
  <2>2. ASSUME UNCHANGED <<comment, follows, preference, told, unread>>, Untouched(SocialOps)
        PROVE  CommentTypeOK' /\ ThreadsOK' /\ SocialTypeOK' /\ CommentsOK'
               /\ (unread \in [Cause -> Nat])'
    <3>1. CommentTypeOK' /\ SocialTypeOK' /\ CommentsStay
      BY <2>2, <1>ok DEF CommentTypeOK, SocialTypeOK, CommentsStay
    <3>2. ThreadsOK'
      BY <2>1, <2>2, <3>1, <1>ok, ThreadStays DEF ThreadsOK, Thread
    <3>3. CommentsOK'
      BY <2>1, <2>2, <3>1, <1>ok, CommentsKept DEF CommentsOK, Untouched, SocialOps
    <3> QED BY <2>2, <3>1, <3>2, <3>3
  <2>3. CASE LibraryStep
    <3>1. RequestsOK' /\ Untouched(UploadOps \cup SocialOps) /\ UNCHANGED <<asset, object>>
          /\ UNCHANGED <<comment, follows, preference, told, unread>>
      BY <2>3, LibraryRequests DEF LibraryStep
    <3>2. UploadTypeOK' /\ Untouched(SocialOps)
      BY <3>1, <1>ok DEF UploadTypeOK, Untouched
    <3> QED BY <2>1, <2>2, <3>1, <3>2, <1>join
  <2>4. CASE UploadsNext /\ UNCHANGED social
    <3>1. RequestsOK' /\ Untouched(LibraryOps \cup SocialOps) /\ UploadTypeOK'
      BY <2>4, UploadRequests, UploadTypeStep
    <3>2. UNCHANGED <<comment, follows, preference, told, unread>> /\ Untouched(SocialOps)
      BY <2>4, <3>1 DEF social, Untouched
    <3> QED BY <2>1, <2>2, <3>1, <3>2, <1>join
  <2>5. CASE SocialNext /\ UNCHANGED uploads
    <3>1. RequestsOK' /\ CommentTypeOK' /\ ThreadsOK' /\ CommentsOK' /\ SocialTypeOK'
          /\ (unread \in [Cause -> Nat])'
      BY <2>5, SocialRequests, CommentStep, SocialTypeStep
    <3>2. UploadTypeOK'
      BY <2>5, <1>ok DEF uploads, UploadTypeOK
    <3> QED BY <2>1, <3>1, <3>2, <1>join
  <2> QED BY <1>1, <2>3, <2>4, <2>5 DEF ContentNext
<1>2. CASE UNCHANGED contentVars
  BY <1>2 DEF contentVars, vars, uploads, social, ContentTypeOK, LibraryTypeOK, Exists, CommentsOK,
              CommentsOKOf, Asks
<1> QED BY <1>1, <1>2

LEMMA ContentTypeInit == ContentInit => ContentTypeInv
<1> SUFFICES ASSUME ContentInit PROVE ContentTypeInv
  OBVIOUS
<1> USE DEF ContentInit, Init, UploadsInit, SocialInit
<1>1. LibraryTypeOK
  <2>1. work \in [ops : SUBSET STRING, left : Nat]
    BY LibraryConstants
  <2>2. \A d \in Directory : parent[d] \notin Directory
    BY LibraryNull
  <2> QED BY <2>1, <2>2 DEF LibraryTypeOK
<1>2. RequestsOK /\ UploadTypeOK /\ CommentTypeOK /\ ThreadsOK
  BY DEF RequestsOK, UploadTypeOK, CommentTypeOK, ThreadsOK
<1>3. SocialTypeOK /\ unread \in [Cause -> Nat]
  BY DEF SocialTypeOK
<1>4. CommentsOK
  BY DEF CommentsOK, CommentsOKOf, Asks
<1> QED BY <1>1, <1>2, <1>3, <1>4
        DEF ContentTypeInv, ContentTypeOK, RequestsOK, UploadTypeOK, CommentTypeOK, ThreadsOK, SocialTypeOK

LEMMA ContentTypeInvariant == ContentSpec => []ContentTypeInv
BY ContentTypeInit, ContentTypeStep, PTL DEF ContentSpec

\* The rows keep their types and their foreign keys: a parent directory, the
\* directory of a roadmap, the roadmap of a comment and the comment a reply is
\* to are there, whichever requests run in parallel and wherever one ends.
THEOREM ContentTypes == ContentSpec => []ContentTypeOK
<1>1. ContentTypeInv => ContentTypeOK
  BY DEF ContentTypeInv
<1> QED BY <1>1, ContentTypeInvariant, PTL

-----------------------------------------------------------------------------
(* Whose requests a step changes *)

\* A step of roadmaps.service ends a request of another service or leaves it.
LEMMA LibraryHolds ==
    ASSUME Next, NEW w \in Request, request[w] # NULL, request[w].op \notin LibraryOps, RequestsOK
    PROVE  request'[w] \in {request[w], NULL}
<1> USE DEF RequestsOK
<1>1. ASSUME NEW v \in Request, request[v] = NULL, NEW q, request' = [request EXCEPT ![v] = q]
      PROVE  request'[w] = request[w]
  BY <1>1
<1>2. ASSUME NEW v \in Request, Ends(v)
      PROVE  request'[w] \in {request[w], NULL}
  BY <1>2 DEF Ends
<1>3. ASSUME NEW v \in Request, EndsAndAges(v)
      PROVE  request'[w] \in {request[w], NULL}
  BY <1>3 DEF EndsAndAges, LibraryOps
<1>4. ASSUME NEW v \in Request, MoveWalk(v)
      PROVE  request'[w] \in {request[w], NULL}
  <2>1. request[v].op = "move" /\ \A x \in Request : x # v => request'[x] = request[x]
    BY <1>4 DEF MoveWalk, Ends
  <2> QED BY <2>1 DEF LibraryOps
<1>5. ASSUME NEW v \in Request, DropDetach(v)
      PROVE  request'[w] \in {request[w], NULL}
  BY <1>5 DEF DropDetach, LibraryOps
<1>6. ASSUME NEW v \in Request,
             \/ UpdateSave(v) \/ MoveSave(v) \/ RenameSave(v) \/ DropRow(v) \/ Abandon(v)
      PROVE  request'[w] \in {request[w], NULL}
  BY <1>6, <1>2, <1>3 DEF UpdateSave, MoveSave, RenameSave, DropRow, Abandon, Saved
<1>7. ASSUME NEW v \in Request,
             \/ \E r \in Roadmap, d \in Directory \cup {Root, NULL}, b \in BOOLEAN :
                  UpdateBegin(v, r, d, b)
             \/ \E d \in Directory, p \in Directory \cup {Root} : MoveBegin(v, d, p)
             \/ \E d \in Directory : RenameBegin(v, d) \/ DropBegin(v, d)
      PROVE  request'[w] \in {request[w], NULL}
  BY <1>7, <1>1 DEF UpdateBegin, MoveBegin, RenameBegin, DropBegin, Begins
<1>8. ASSUME \/ \E r \in Roadmap, d \in Directory \cup {Root}, v \in BOOLEAN : Create(r, d, v)
             \/ \E u \in User, source, r \in Roadmap : Fork(u, source, r)
             \/ \E u \in User, r \in Roadmap : Like(u, r) \/ Unlike(u, r)
             \/ \E r \in Roadmap : Remove(r)
             \/ \E d \in Directory, p \in Directory \cup {Root} : CreateDirectory(d, p)
      PROVE  request'[w] \in {request[w], NULL}
  BY <1>8 DEF Create, Fork, Like, Unlike, Remove, CreateDirectory
<1> QED BY <1>4, <1>5, <1>6, <1>7, <1>8 DEF Next

\* Uploads and comments leave the requests of the other services.
LEMMA UploadsHold ==
    ASSUME UploadsNext, NEW w \in Request, request[w] # NULL, request[w].op \notin UploadOps, RequestsOK
    PROVE  request'[w] = request[w]
<1> USE DEF RequestsOK
<1>1. ASSUME NEW v \in Request,
             \/ \E a \in Asset : CompleteBegin(v, a) \/ RemoveBegin(v, a)
             \/ CompleteHead(v) \/ CompleteSave(v) \/ DeleteRow(v)
      PROVE  request'[w] = request[w]
  <2>1. request[v] = NULL \/ request[v].op \in UploadOps
    BY <1>1 DEF CompleteBegin, RemoveBegin, Begins, CompleteHead, CompleteSave, DeleteRow, HalfWay,
                Handles, UploadOps
  <2>2. \A x \in Request : x # v => request'[x] = request[x]
    BY <1>1 DEF CompleteBegin, RemoveBegin, Begins, CompleteHead, CompleteSave, DeleteRow, Ends,
                Continues
  <2> QED BY <2>1, <2>2
<1>2. ASSUME NEW v \in Request, DeleteObject(v)
      PROVE  request'[w] = request[w]
  BY <1>2 DEF DeleteObject, Handles, UploadOps
<1> QED BY <1>1, <1>2 DEF UploadsNext, CreateUpload, Put

LEMMA SocialHolds ==
    ASSUME SocialNext, NEW w \in Request, request[w] # NULL, request[w].op \notin SocialOps, RequestsOK
    PROVE  request'[w] = request[w]
<1> USE DEF RequestsOK
<1>1. ASSUME NEW v \in Request,
             \/ \E u \in User, r \in Roadmap, p \in Comment \cup {NULL} : CommentBegin(v, u, r, p)
             \/ \E c \in Comment : CommentInsert(v, c) \/ EditBegin(v, c) \/ EraseBegin(v, c)
             \/ EditSave(v) \/ EraseSave(v)
             \/ \E u, x \in User : FollowBegin(v, u, x)
             \/ FollowInsert(v) \/ Notify(v)
             \/ \E u \in User, t \in Toggle, on \in BOOLEAN : PreferencesBegin(v, u, t, on)
             \/ PreferencesSave(v)
      PROVE  request'[w] = request[w]
  <2>1. request[v] = NULL \/ request[v].op \in SocialOps
    BY <1>1 DEF CommentBegin, CommentInsert, EditBegin, EraseBegin, EditSave, EraseSave, FollowBegin,
                FollowInsert, Notify, PreferencesBegin, PreferencesSave, Begins, Asks, SocialOps
  <2>2. \A x \in Request : x # v => request'[x] = request[x]
    BY <1>1 DEF CommentBegin, CommentInsert, EditBegin, EraseBegin, EditSave, EraseSave, FollowBegin,
                FollowInsert, Notify, PreferencesBegin, PreferencesSave, Begins, Ends, Notifies
  <2> QED BY <2>1, <2>2
<1> QED BY <1>1 DEF SocialNext, Unfollow, MarkRead, MarkAllRead

-----------------------------------------------------------------------------
(* Uploads *)

ReadyInv == ReadyHasObject /\ CompletesOK

\* Nothing but uploads touches the rows, the objects and what requests know of them.
LEMMA ReadyElsewhere ==
    ASSUME ReadyInv, RequestsOK, RequestsOK', Untouched(UploadOps),
           UNCHANGED <<asset, object, reinserted>>, interrupted \subseteq interrupted',
           \A w \in Request : HalfWay(w) =>
               request'[w] = request[w] \/ request[w].asset \in interrupted'
    PROVE  ReadyInv'
<1>1. ReadyHasObject'
  <2> SUFFICES ASSUME NEW a \in Asset, asset[a] # NULL, asset[a].ready, object[a] = NULL
               PROVE  \/ a \in reinserted' \cup interrupted'
                      \/ \E w \in Request : HalfWay(w)' /\ request'[w].asset = a
    BY DEF ReadyHasObject
  <2>1. CASE a \in reinserted \cup interrupted
    BY <2>1
  <2>2. ASSUME NEW w \in Request, HalfWay(w), request[w].asset = a
        PROVE  a \in interrupted' \/ (HalfWay(w)' /\ request'[w].asset = a)
    <3>1. CASE request'[w] = request[w]
      BY <2>2, <3>1 DEF HalfWay, Handles
    <3> QED BY <2>2, <3>1
  <2> QED BY <2>1, <2>2 DEF ReadyInv, ReadyHasObject
<1>2. CompletesOK'
  BY DEF ReadyInv, CompletesOK, Handles, Untouched, UploadOps
<1> QED BY <1>1, <1>2 DEF ReadyInv

LEMMA ReadyStep == ContentTypeInv /\ ReadyInv /\ [ContentNext]_contentVars => ReadyInv'
<1> SUFFICES ASSUME ContentTypeInv, ReadyInv, [ContentNext]_contentVars
             PROVE  ReadyInv'
  OBVIOUS
<1>ok. RequestsOK /\ UploadTypeOK /\ ContentTypeOK /\ CommentsOK
  BY DEF ContentTypeInv, ContentTypeOK, RequestsOK, UploadTypeOK
<1>half. \A w \in Request : HalfWay(w) =>
            /\ request[w] # NULL /\ request[w].op \in UploadOps
            /\ request[w].op \notin LibraryOps /\ request[w].op \notin SocialOps
  BY DEF HalfWay, Handles, UploadOps, LibraryOps, SocialOps
<1>1. CASE LibraryStep
  <2>1. RequestsOK' /\ Untouched(UploadOps)
    BY <1>1, <1>ok, LibraryRequests DEF LibraryStep, Untouched
  <2>2. /\ UNCHANGED <<asset, object, reinserted>>
        /\ interrupted' = interrupted \cup GivesUpHalfWay /\ Next
    BY <1>1 DEF LibraryStep
  <2>3. ASSUME NEW w \in Request, HalfWay(w)
        PROVE  request'[w] = request[w] \/ request[w].asset \in interrupted'
    BY <2>2, <2>3, <1>ok, <1>half, LibraryHolds DEF GivesUpHalfWay
  <2> QED BY <2>1, <2>2, <2>3, <1>ok, ReadyElsewhere
<1>2. CASE SocialNext /\ UNCHANGED uploads
  <2>1. RequestsOK' /\ Untouched(UploadOps)
    BY <1>2, <1>ok, SocialRequests DEF Untouched
  <2>2. \A w \in Request : HalfWay(w) => request'[w] = request[w]
    BY <1>2, <1>ok, <1>half, SocialHolds
  <2>3. UNCHANGED <<asset, object, reinserted, interrupted>>
    BY <1>2 DEF uploads
  <2> QED BY <2>1, <2>2, <2>3, <1>ok, ReadyElsewhere
<1>3. CASE UNCHANGED contentVars
  BY <1>3 DEF contentVars, vars, uploads, ReadyInv, ReadyHasObject, CompletesOK, HalfWay, Handles
<1>4. ASSUME UploadsNext
      PROVE  ReadyInv'
  <2> DEFINE Body(a) == \/ a \in reinserted' \cup interrupted'
                        \/ \E w \in Request : HalfWay(w)' /\ request'[w].asset = a
             Save(w) == Handles(w, "complete", "save")' =>
                          object'[request'[w].asset] # NULL \/ request'[w].late
  <2>all. ASSUME \A a \in Asset :
                   asset'[a] # NULL /\ asset'[a].ready /\ object'[a] = NULL => Body(a),
                 \A w \in Request : Save(w)
          PROVE  ReadyInv'
    BY <2>all DEF ReadyInv, ReadyHasObject, CompletesOK
  <2> HIDE DEF Body, Save
  \* What was so before is still so, for the requests that are not changed.
  <2>same. ASSUME NEW a \in Asset, asset[a] # NULL, asset[a].ready, object[a] = NULL,
                  reinserted \subseteq reinserted', interrupted \subseteq interrupted',
                  \A v \in Request : HalfWay(v) /\ request[v].asset = a => request'[v] = request[v]
           PROVE  Body(a)
    <3>1. \/ a \in reinserted \cup interrupted
          \/ \E w \in Request : HalfWay(w) /\ request[w].asset = a
      BY <2>same DEF ReadyInv, ReadyHasObject
    <3> QED BY <3>1, <2>same DEF Body, HalfWay, Handles
  <2>1. ASSUME NEW u \in User, NEW b \in Asset, NEW r \in Roadmap \cup {NULL}, CreateUpload(u, b, r)
        PROVE  ReadyInv'
    <3>1. /\ asset' = [asset EXCEPT ![b] = [owner |-> u, roadmap |-> r, ready |-> FALSE]]
          /\ UNCHANGED <<request, object, reinserted, interrupted>>
      BY <2>1 DEF CreateUpload
    <3>2. ASSUME NEW a \in Asset, asset'[a] # NULL, asset'[a].ready, object'[a] = NULL
          PROVE  Body(a)
      BY <3>1, <3>2, <2>same, <1>ok DEF UploadTypeOK
    <3>3. \A w \in Request : Save(w)
      BY <3>1 DEF Save, ReadyInv, CompletesOK, Handles
    <3> QED BY <3>2, <3>3, <2>all
  <2>2. ASSUME NEW b \in Asset, NEW o \in Object, Put(b, o)
        PROVE  ReadyInv'
    <3>1. /\ object' = [object EXCEPT ![b] = o] /\ o # NULL
          /\ UNCHANGED <<request, asset, reinserted, interrupted>>
      BY <2>2, UploadNull DEF Put
    <3>2. ASSUME NEW a \in Asset, asset'[a] # NULL, asset'[a].ready, object'[a] = NULL
          PROVE  Body(a)
      BY <3>1, <3>2, <2>same, <1>ok DEF UploadTypeOK
    <3>3. ASSUME NEW w \in Request, Handles(w, "complete", "save")'
          PROVE  object'[request'[w].asset] # NULL \/ request'[w].late
      <4>1. object[request[w].asset] # NULL \/ request[w].late
        BY <3>1, <3>3 DEF ReadyInv, CompletesOK, Handles
      <4>2. request[w].asset \in Asset
        BY <3>1, <3>3, <1>ok, RequestKinds DEF Handles, RequestsOK, CompleteRequest
      <4> QED BY <3>1, <4>1, <4>2, <1>ok DEF UploadTypeOK
    <3>4. \A w \in Request : Save(w)
      BY <3>3 DEF Save
    <3> QED BY <3>2, <3>4, <2>all
  <2>3. ASSUME NEW w \in Request, NEW b \in Asset, CompleteBegin(w, b) \/ RemoveBegin(w, b)
        PROVE  ReadyInv'
    <3>1. /\ UNCHANGED <<asset, object, reinserted, interrupted>> /\ request[w] = NULL
          /\ request'[w] = NULL \/ request'[w].step # "save"
          /\ \A v \in Request : v # w => request'[v] = request[v]
      BY <2>3, <1>ok DEF CompleteBegin, RemoveBegin, Begins, uploads, RequestsOK
    <3>2. ASSUME NEW a \in Asset, asset'[a] # NULL, asset'[a].ready, object'[a] = NULL
          PROVE  Body(a)
      BY <3>1, <3>2, <2>same, <1>half
    <3>3. \A v \in Request : Save(v)
      BY <3>1 DEF Save, ReadyInv, CompletesOK, Handles
    <3> QED BY <3>2, <3>3, <2>all
  <2>4. ASSUME NEW w \in Request, CompleteHead(w)
        PROVE  ReadyInv'
    <3>1. /\ UNCHANGED <<asset, object, reinserted, interrupted>> /\ request[w].step = "head"
          /\ \A v \in Request : v # w => request'[v] = request[v]
      BY <2>4, <1>ok DEF CompleteHead, Handles, Continues, Ends, uploads, RequestsOK
    <3>2. ASSUME NEW a \in Asset, asset'[a] # NULL, asset'[a].ready, object'[a] = NULL
          PROVE  Body(a)
      BY <3>1, <3>2, <2>same DEF HalfWay, Handles
    <3>3. Handles(w, "complete", "save")' => object'[request'[w].asset] # NULL
      <4>1. request[w] \in CompleteRequest
        BY <2>4, <1>ok, RequestKinds DEF CompleteHead, Handles, RequestsOK
      <4>2. CASE Ends(w)
        BY <4>2, <1>ok DEF Ends, Handles, RequestsOK
      <4>3. CASE object[request[w].asset] # NULL /\ Continues(w, "object")
        BY <4>1, <4>3, <3>1, <1>ok DEF Continues, RequestsOK, CompleteRequest
      <4>4. CASE AsApproved(request[w].asset) /\ Continues(w, "save")
        BY <4>1, <4>4, <3>1, <1>ok, UploadNull DEF AsApproved, Continues, RequestsOK, CompleteRequest, Object
      <4> QED BY <2>4, <4>2, <4>3, <4>4 DEF CompleteHead
    <3>4. \A v \in Request : Save(v)
      BY <3>1, <3>3 DEF Save, ReadyInv, CompletesOK, Handles
    <3> QED BY <3>2, <3>4, <2>all
  <2>5. ASSUME NEW w \in Request, CompleteSave(w)
        PROVE  ReadyInv'
    <3> DEFINE b == request[w].asset
    <3>1. /\ UNCHANGED <<object, interrupted>> /\ request' = [request EXCEPT ![w] = NULL]
          /\ asset' = [asset EXCEPT ![b] = [request[w].row EXCEPT !.ready = TRUE]]
          /\ reinserted \subseteq reinserted'
          /\ request[w].late => b \in reinserted'
      BY <2>5 DEF CompleteSave, Ends
    <3>2. object[b] # NULL \/ request[w].late
      BY <2>5 DEF CompleteSave, ReadyInv, CompletesOK
    <3>3. ASSUME NEW a \in Asset, asset'[a] # NULL, asset'[a].ready, object'[a] = NULL
          PROVE  Body(a)
      <4>1. CASE a = b
        BY <3>1, <3>2, <3>3, <4>1 DEF Body
      <4>2. CASE a # b
        BY <3>1, <3>3, <4>2, <2>same, <1>ok DEF UploadTypeOK, RequestsOK
      <4> QED BY <4>1, <4>2
    <3>4. \A v \in Request : Save(v)
      BY <3>1, <1>ok DEF Save, ReadyInv, CompletesOK, Handles, RequestsOK
    <3> QED BY <3>3, <3>4, <2>all
  <2>6. ASSUME NEW w \in Request, DeleteObject(w)
        PROVE  ReadyInv'
    <3> DEFINE b == request[w].asset
               q == [request[w] EXCEPT !.step = "row"]
    <3>1. /\ UNCHANGED <<asset, reinserted, interrupted>>
          /\ object' = [object EXCEPT ![b] = NULL]
          /\ request'[w] = q
          /\ \A v \in Request : v # w /\ ~(Handles(v, "complete", "save") /\ request[v].asset = b)
               => request'[v] = request[v]
          /\ \A v \in Request : v # w /\ Handles(v, "complete", "save") /\ request[v].asset = b
               => request'[v] = [request[v] EXCEPT !.late = TRUE]
      BY <2>6 DEF DeleteObject
    <3>2. q # NULL /\ q.op \in {"complete", "discard"} /\ q.op = request[w].op
          /\ q.step = "row" /\ q.asset = b
          /\ request[w].step = "object" /\ b \in Asset
      <4>1. /\ request[w] \in CompleteRequest \/ request[w] \in DiscardRequest
            /\ request[w].step = "object"
        BY <2>6, <1>ok, RequestKinds DEF DeleteObject, Handles, RequestsOK
      <4>2. CASE request[w] \in CompleteRequest
        <5>1. q \in CompleteRequest
          BY <4>2 DEF CompleteRequest
        <5> QED BY <4>1, <4>2, <5>1, RequestNull DEF CompleteRequest, ContentRequest, UploadRequest
      <4>3. CASE request[w] \in DiscardRequest
        <5>1. q \in DiscardRequest
          BY <4>3 DEF DiscardRequest
        <5> QED BY <4>1, <4>3, <5>1, RequestNull DEF DiscardRequest, ContentRequest, UploadRequest
      <4> QED BY <4>1, <4>2, <4>3
    <3> HIDE DEF b, q
    <3>3. ASSUME NEW a \in Asset, asset'[a] # NULL, asset'[a].ready, object'[a] = NULL
          PROVE  Body(a)
      <4>1. CASE a = b
        <5>1. HalfWay(w)' /\ request'[w].asset = a
          BY <3>1, <3>2, <4>1 DEF HalfWay, Handles
        <5> QED BY <5>1 DEF Body
      <4>2. CASE a # b
        <5>1. \A v \in Request : HalfWay(v) => request'[v] = request[v]
          BY <3>1, <3>2 DEF HalfWay, Handles
        <5> QED BY <5>1, <3>1, <3>2, <3>3, <4>2, <2>same, <1>ok DEF UploadTypeOK
      <4> QED BY <4>1, <4>2
    <3>4. ASSUME NEW v \in Request, Handles(v, "complete", "save")'
          PROVE  object'[request'[v].asset] # NULL \/ request'[v].late
      <4>1. v # w
        BY <3>1, <3>2, <3>4 DEF Handles
      <4>2. CASE Handles(v, "complete", "save") /\ request[v].asset = b
        <5>1. request[v] \in CompleteRequest
          BY <4>2, <1>ok, RequestKinds DEF Handles, RequestsOK
        <5>2. [request[v] EXCEPT !.late = TRUE].late
          BY <5>1 DEF CompleteRequest
        <5> QED BY <3>1, <4>1, <4>2, <5>2
      <4>3. CASE ~(Handles(v, "complete", "save") /\ request[v].asset = b)
        <5>1. request'[v] = request[v] /\ Handles(v, "complete", "save") /\ request[v].asset # b
          BY <3>1, <3>4, <4>1, <4>3 DEF Handles
        <5>2. request[v].asset \in Asset
          BY <5>1, <1>ok, RequestKinds DEF Handles, RequestsOK, CompleteRequest
        <5> QED BY <3>1, <5>1, <5>2, <1>ok DEF ReadyInv, CompletesOK, UploadTypeOK
      <4> QED BY <4>2, <4>3
    <3>5. \A v \in Request : Save(v)
      BY <3>4 DEF Save
    <3> QED BY <3>3, <3>5, <2>all
  <2>7. ASSUME NEW w \in Request, DeleteRow(w)
        PROVE  ReadyInv'
    <3>1. /\ UNCHANGED <<object, reinserted, interrupted>> /\ request' = [request EXCEPT ![w] = NULL]
          /\ asset' = [asset EXCEPT ![request[w].asset] = NULL]
      BY <2>7 DEF DeleteRow, Ends
    <3>2. ASSUME NEW a \in Asset, asset'[a] # NULL, asset'[a].ready, object'[a] = NULL
          PROVE  Body(a)
      <4>1. a # request[w].asset /\ asset[a] = asset'[a]
        BY <3>1, <3>2, <1>ok DEF UploadTypeOK
      <4> QED BY <3>1, <3>2, <4>1, <2>same, <1>ok DEF RequestsOK
    <3>3. \A v \in Request : Save(v)
      BY <3>1, <1>ok DEF Save, ReadyInv, CompletesOK, Handles, RequestsOK
    <3> QED BY <3>2, <3>3, <2>all
  <2> QED BY <1>4, <2>1, <2>2, <2>3, <2>4, <2>5, <2>6, <2>7 DEF UploadsNext
<1> QED BY <1>1, <1>2, <1>3, <1>4 DEF ContentNext

\* complete and remove keep the row and the object of an upload together: an
\* asset that is shown as ready has its object, but for a removal that is under
\* way or was given up and a complete that saves after it.
THEOREM UploadsHaveObjects == ContentSpec => []ReadyHasObject
<1>1. ContentInit => ReadyInv
  BY DEF ContentInit, Init, UploadsInit, ReadyInv, ReadyHasObject, CompletesOK, Handles
<1>2. ReadyInv => ReadyHasObject
  BY DEF ReadyInv
<1> QED BY <1>1, <1>2, ReadyStep, ContentTypeInvariant, PTL DEF ContentSpec

-----------------------------------------------------------------------------
(* Notifications *)

NewsInv == EachIsToldOnce /\ NewsOK

\* What has come about is told, not told, or still to be told, of one cause.
ToldOnce(k) == arisen[k] = told[k] + untold[k] + Cardinality(Telling(k))

LEMMA NewsParts ==
    NewsInv <=> /\ arisen \in [Cause -> Nat] /\ untold \in [Cause -> Nat]
                /\ \A k \in Cause : ToldOnce(k) /\ IsFiniteSet(Telling(k))
BY DEF NewsInv, NewsOK, EachIsToldOnce, ToldOnce, Telling

LEMMA NewsStep == ContentTypeInv /\ NewsInv /\ [ContentNext]_contentVars => NewsInv'
<1> SUFFICES ASSUME ContentTypeInv, NewsInv, [ContentNext]_contentVars
             PROVE  NewsInv'
  OBVIOUS
<1>ok. /\ RequestsOK /\ ContentTypeOK /\ CommentsOK /\ told \in [Cause -> Nat]
       /\ arisen \in [Cause -> Nat] /\ untold \in [Cause -> Nat]
  BY NewsParts DEF ContentTypeInv, ContentTypeOK, RequestsOK
<1>told. told' \in [Cause -> Nat]
  BY ContentTypeStep DEF ContentTypeInv, ContentTypeOK
<1>old. \A k \in Cause : ToldOnce(k) /\ IsFiniteSet(Telling(k)) /\ Cardinality(Telling(k)) \in Nat
  BY NewsParts, FS_CardinalityType
<1>all. ASSUME arisen' \in [Cause -> Nat], untold' \in [Cause -> Nat],
               \A k \in Cause : ToldOnce(k)' /\ IsFiniteSet(Telling(k)')
        PROVE  NewsInv'
  BY <1>all DEF NewsInv, NewsOK, EachIsToldOnce, ToldOnce, Telling
\* A cause whose requests are the same
<1>kept. ASSUME NEW k \in Cause, Telling(k)' = Telling(k),
                arisen'[k] = arisen[k], told'[k] = told[k], untold'[k] = untold[k]
         PROVE  ToldOnce(k)' /\ IsFiniteSet(Telling(k)')
  BY <1>kept, <1>old DEF ToldOnce
<1>same. ASSUME UNCHANGED <<arisen, told, untold>>, \A k \in Cause : Telling(k)' = Telling(k)
         PROVE  NewsInv'
  BY <1>same, <1>kept, <1>all, <1>ok
\* Requests that tell nothing before and after
<1>quiet. ASSUME NEW w \in Request, ~Asks(w, "notify"), ~Asks(w, "notify")',
                 \A v \in Request : v # w => request'[v] = request[v],
                 UNCHANGED <<arisen, told, untold>>
          PROVE  NewsInv'
  <2>1. \A k \in Cause : Telling(k)' = Telling(k)
    BY <1>quiet DEF Telling, Asks
  <2> QED BY <2>1, <1>quiet, <1>same
\* A request that begins to tell
<1>arises. ASSUME NEW w \in Request, NEW k \in Cause, NEW q, q.op = "notify", q.cause = k, q # NULL,
                  request' = [request EXCEPT ![w] = q], ~Asks(w, "notify"),
                  arisen' = [arisen EXCEPT ![k] = @ + 1], UNCHANGED <<told, untold>>
           PROVE  NewsInv'
  <2>1. arisen' \in [Cause -> Nat] /\ untold' \in [Cause -> Nat]
    BY <1>arises, <1>ok
  <2>2. request'[w] = q /\ \A v \in Request : v # w => request'[v] = request[v]
    BY <1>arises, <1>ok DEF RequestsOK
  <2>3. ASSUME NEW j \in Cause, j # k PROVE ToldOnce(j)' /\ IsFiniteSet(Telling(j)')
    <3>1. Telling(j)' = Telling(j)
      BY <2>2, <2>3, <1>arises DEF Telling, Asks
    <3> QED BY <3>1, <2>3, <1>arises, <1>ok, <1>kept
  <2>4. Telling(k)' = Telling(k) \cup {w} /\ w \notin Telling(k)
    BY <2>2, <1>arises DEF Telling, Asks
  <2>5. IsFiniteSet(Telling(k)') /\ Cardinality(Telling(k)') = Cardinality(Telling(k)) + 1
    BY <2>4, <1>old, FS_AddElement
  <2>6. arisen'[k] = arisen[k] + 1 /\ told'[k] = told[k] /\ untold'[k] = untold[k]
    BY <1>arises, <1>ok
  <2>7. ToldOnce(k)'
    BY <2>5, <2>6, <1>old, <1>ok DEF ToldOnce
  <2> QED BY <2>1, <2>3, <2>5, <2>7, <1>all
<1>1. CASE LibraryStep
  <2>1. /\ UNCHANGED <<arisen, told>> /\ Next
        /\ untold' = [k \in Cause |-> untold[k] + Unnotified(k)]
    BY <1>1 DEF LibraryStep
  <2>2. Untouched(SocialOps)
    BY <2>1, <1>ok, LibraryRequests DEF Untouched
  <2>3. ASSUME NEW k \in Cause
        PROVE  /\ Unnotified(k) \in Nat
               /\ IsFiniteSet(Telling(k)')
               /\ Cardinality(Telling(k)') = Cardinality(Telling(k)) - Unnotified(k)
    <3> DEFINE lost == {w \in Request : /\ Asks(w, "notify")
                                        /\ request[w].cause = k
                                        /\ request'[w] = NULL}
    <3>1. lost \subseteq Telling(k) /\ Unnotified(k) = Cardinality(lost)
      BY DEF Telling, Unnotified
    <3>2. ASSUME NEW w \in Request, Asks(w, "notify") PROVE request'[w] \in {request[w], NULL}
      BY <3>2, <2>1, <1>ok, LibraryHolds DEF Asks, LibraryOps
    <3>3. Telling(k)' = Telling(k) \ lost
      BY <3>2, <2>2 DEF Telling, Untouched, Asks, SocialOps
    <3> HIDE DEF lost
    <3>4. IsFiniteSet(lost) /\ Telling(k) \cap lost = lost /\ Cardinality(lost) \in Nat
      BY <3>1, <1>old, FS_Subset, FS_CardinalityType
    <3>5. IsFiniteSet(Telling(k) \ lost)
          /\ Cardinality(Telling(k) \ lost) = Cardinality(Telling(k)) - Cardinality(Telling(k) \cap lost)
      BY <1>old, FS_Difference
    <3> QED BY <3>1, <3>3, <3>4, <3>5
  <2>4. untold' \in [Cause -> Nat] /\ arisen' \in [Cause -> Nat]
    BY <2>1, <2>3, <1>ok
  <2>5. ASSUME NEW k \in Cause PROVE ToldOnce(k)'
    <3>1. /\ arisen'[k] = arisen[k] /\ told'[k] = told[k]
          /\ untold'[k] = untold[k] + Unnotified(k)
      BY <2>1
    <3>2. arisen[k] = told[k] + untold[k] + Cardinality(Telling(k))
      BY <1>old DEF ToldOnce
    <3>3. /\ arisen[k] \in Nat /\ told[k] \in Nat /\ untold[k] \in Nat
          /\ Cardinality(Telling(k)) \in Nat
      BY <1>old, <1>ok
    <3>4. arisen'[k] = told'[k] + untold'[k] + Cardinality(Telling(k)')
      BY <3>1, <3>2, <3>3, <2>3
    <3> QED BY <3>4 DEF ToldOnce
  <2> QED BY <2>3, <2>4, <2>5, <1>all
<1>2. CASE UploadsNext /\ UNCHANGED social
  <2>1. UNCHANGED <<arisen, told, untold>>
    BY <1>2 DEF social
  <2>2. \A w \in Request : Asks(w, "notify") => request'[w] = request[w]
    BY <1>2, <1>ok, UploadsHold DEF Asks, UploadOps
  <2>3. \A w \in Request : Asks(w, "notify")' => request'[w] = request[w]
    BY <1>2, <1>ok, UploadRequests DEF Asks, Untouched, SocialOps
  <2>4. \A k \in Cause : Telling(k)' = Telling(k)
    BY <2>2, <2>3 DEF Telling, Asks
  <2> QED BY <2>1, <2>4, <1>same
<1>3. CASE UNCHANGED contentVars
  <2>1. \A k \in Cause : Telling(k)' = Telling(k)
    BY <1>3 DEF contentVars, vars, Telling, Asks
  <2> QED BY <2>1, <1>3, <1>same DEF contentVars, social
<1>4. ASSUME SocialNext
      PROVE  NewsInv'
  <2>1. ASSUME NEW w \in Request, NEW c \in Comment, CommentInsert(w, c)
        PROVE  NewsInv'
    <3>1. Asks(w, "comment") /\ UNCHANGED <<told, untold>>
      BY <2>1 DEF CommentInsert
    <3> DEFINE to == Recipient(request[w].roadmap, request[w].parent)
    <3>2. CASE Ends(w) /\ UNCHANGED arisen
      BY <3>1, <3>2, <1>quiet, <1>ok DEF Ends, Asks, RequestsOK
    <3>3. ASSUME NEW type \in {"comments", "replies"}, arisen' = [arisen EXCEPT ![c] = @ + 1],
                 Notifies(w, type, c, to)
          PROVE  NewsInv'
      <4> DEFINE q == [op |-> "notify", type |-> type, cause |-> c, to |-> to]
      <4>1. request' = [request EXCEPT ![w] = q] /\ q.op = "notify" /\ q.cause = c /\ c \in Cause
        BY <3>3 DEF Notifies, Cause
      <4>2. q # NULL
        BY <1>ok, <3>1, <3>3, CommentNotifies, RequestNull DEF ContentRequest, SocialRequest
      <4> HIDE DEF q
      <4> QED BY <4>1, <4>2, <3>1, <3>3, <1>arises DEF Asks
    <3> QED BY <2>1, <3>2, <3>3 DEF CommentInsert
  <2>2. ASSUME NEW w \in Request, FollowInsert(w)
        PROVE  NewsInv'
    <3>1. Asks(w, "follow") /\ UNCHANGED <<told, untold>>
      BY <2>2 DEF FollowInsert
    <3>2. CASE Ends(w) /\ UNCHANGED arisen
      BY <3>1, <3>2, <1>quiet, <1>ok DEF Ends, Asks, RequestsOK
    <3>3. CASE /\ Notifies(w, "follows", <<request[w].by, request[w].about>>, request[w].about)
               /\ arisen' = [arisen EXCEPT ![<<request[w].by, request[w].about>>] = @ + 1]
      <4>k. <<request[w].by, request[w].about>> \in Cause
        BY <1>ok, <3>1, FollowNotifies
      <4> PICK k \in Cause : k = <<request[w].by, request[w].about>>
        BY <4>k
      <4> DEFINE q == [op |-> "notify", type |-> "follows", cause |-> k, to |-> request[w].about]
      <4>1. request' = [request EXCEPT ![w] = q] /\ q.op = "notify" /\ q.cause = k
        BY <3>3 DEF Notifies
      <4>2. q # NULL
        BY <1>ok, <3>1, FollowNotifies, RequestNull DEF ContentRequest, SocialRequest
      <4>3. arisen' = [arisen EXCEPT ![k] = @ + 1] /\ ~Asks(w, "notify")
        BY <3>1, <3>3 DEF Asks
      <4> HIDE DEF q
      <4> QED BY <4>1, <4>2, <4>3, <3>1, <1>arises
    <3> QED BY <2>2, <3>2, <3>3 DEF FollowInsert, Duplicate
  <2>3. ASSUME NEW w \in Request, Notify(w)
        PROVE  NewsInv'
    <3>k. request[w].cause \in Cause
      BY <2>3, <1>ok, RequestKinds DEF Notify, Asks, RequestsOK, NotifyRequest
    <3> PICK k \in Cause : k = request[w].cause
      BY <3>k
    <3>1. k = request[w].cause /\ Asks(w, "notify") /\ arisen' = arisen
      BY <2>3 DEF Notify
    <3>2. \/ told' = [told EXCEPT ![k] = @ + 1] /\ untold' = untold
          \/ untold' = [untold EXCEPT ![k] = @ + 1] /\ told' = told
      BY <2>3 DEF Notify
    <3>3. request'[w] = NULL /\ \A v \in Request : v # w => request'[v] = request[v]
      BY <2>3, <1>ok DEF Notify, Ends, RequestsOK
    <3>4. Telling(k)' = Telling(k) \ {w} /\ w \in Telling(k)
      BY <3>1, <3>3 DEF Telling, Asks
    <3>5. \A j \in Cause : j # k => Telling(j)' = Telling(j)
      BY <3>1, <3>3 DEF Telling, Asks
    <3>6. IsFiniteSet(Telling(k)') /\ Cardinality(Telling(k)') = Cardinality(Telling(k)) - 1
      BY <3>1, <3>4, <1>old, FS_RemoveElement
    <3>7. arisen' \in [Cause -> Nat] /\ untold' \in [Cause -> Nat]
      BY <3>1, <3>2, <1>ok
    <3>8. ASSUME NEW j \in Cause, j # k PROVE ToldOnce(j)' /\ IsFiniteSet(Telling(j)')
      <4>1. told'[j] = told[j] /\ untold'[j] = untold[j] /\ arisen'[j] = arisen[j]
        BY <3>1, <3>2, <3>8, <1>ok
      <4> QED BY <4>1, <3>5, <3>8, <1>kept
    <3>9. ToldOnce(k)'
      <4>1. told[k] \in Nat /\ untold[k] \in Nat /\ arisen[k] \in Nat /\ arisen'[k] = arisen[k]
        BY <3>1, <1>ok
      <4>2. \/ told'[k] = told[k] + 1 /\ untold'[k] = untold[k]
            \/ told'[k] = told[k] /\ untold'[k] = untold[k] + 1
        BY <3>1, <3>2, <1>ok
      <4> QED BY <4>1, <4>2, <3>1, <3>6, <1>old DEF ToldOnce
    <3> QED BY <3>6, <3>7, <3>8, <3>9, <1>all
  <2>4. ASSUME NEW w \in Request,
               \/ \E u \in User, r \in Roadmap, p \in Comment \cup {NULL} : CommentBegin(w, u, r, p)
               \/ \E c \in Comment : EditBegin(w, c) \/ EraseBegin(w, c)
               \/ EditSave(w) \/ EraseSave(w)
               \/ \E u, v \in User : FollowBegin(w, u, v)
               \/ \E u \in User, t \in Toggle, on \in BOOLEAN : PreferencesBegin(w, u, t, on)
               \/ PreferencesSave(w)
        PROVE  NewsInv'
    <3>1. request[w] = NULL \/ request[w].op # "notify"
      BY <2>4 DEF CommentBegin, EditBegin, EraseBegin, EditSave, EraseSave, FollowBegin,
                  PreferencesBegin, PreferencesSave, Begins, Asks
    <3>5. \/ Ends(w)
          \/ \E op \in SocialOps \ {"notify"} : \E rec : Begins(w, op, rec) /\ rec.op = op
      <4>1. CASE EditSave(w) \/ EraseSave(w) \/ PreferencesSave(w)
        BY <4>1 DEF EditSave, EraseSave, PreferencesSave
      <4>2. CASE \E u \in User, r \in Roadmap, p \in Comment \cup {NULL} : CommentBegin(w, u, r, p)
        BY <4>2 DEF CommentBegin, SocialOps
      <4>3. CASE \E c \in Comment : EditBegin(w, c) \/ EraseBegin(w, c)
        BY <4>3 DEF EditBegin, EraseBegin, SocialOps
      <4>4. CASE \E u, v \in User : FollowBegin(w, u, v)
        BY <4>4 DEF FollowBegin, SocialOps
      <4>5. CASE \E u \in User, t \in Toggle, on \in BOOLEAN : PreferencesBegin(w, u, t, on)
        BY <4>5 DEF PreferencesBegin, SocialOps
      <4> QED BY <2>4, <4>1, <4>2, <4>3, <4>4, <4>5
    <3>2. request'[w] = NULL \/ request'[w].op # "notify"
      BY <3>5, <1>ok DEF Begins, Ends, RequestsOK
    <3>3. \A v \in Request : v # w => request'[v] = request[v]
      BY <3>5, <1>ok DEF Begins, Ends, RequestsOK
    <3>4. UNCHANGED <<arisen, told, untold>>
      BY <2>4 DEF CommentBegin, EditBegin, EraseBegin, EditSave, EraseSave, FollowBegin,
                  PreferencesBegin, PreferencesSave, social, news
    <3> QED BY <3>1, <3>2, <3>3, <3>4, <1>quiet DEF Asks
  <2>5. ASSUME \/ \E u, v \in User : Unfollow(u, v)
               \/ \E k \in Cause : MarkRead(k)
               \/ \E u \in User : MarkAllRead(u)
        PROVE  NewsInv'
    <3>1. UNCHANGED <<request, arisen, told, untold>>
      BY <2>5 DEF Unfollow, MarkRead, MarkAllRead, news
    <3>2. \A k \in Cause : Telling(k)' = Telling(k)
      BY <3>1 DEF Telling, Asks
    <3> QED BY <3>1, <3>2, <1>same
  <2> QED BY <1>4, <2>1, <2>2, <2>3, <2>4, <2>5 DEF SocialNext
<1> QED BY <1>1, <1>2, <1>3, <1>4 DEF ContentNext

LEMMA NewsInit == ContentInit => NewsInv
<1> SUFFICES ASSUME ContentInit PROVE NewsInv
  OBVIOUS
<1>1. \A k \in Cause : Telling(k) = {}
  BY DEF ContentInit, Init, Telling, Asks
<1>2. /\ arisen \in [Cause -> Nat] /\ untold \in [Cause -> Nat]
      /\ \A k \in Cause : arisen[k] = 0 /\ untold[k] = 0 /\ told[k] = 0
  BY DEF ContentInit, SocialInit
<1>3. IsFiniteSet({}) /\ Cardinality({}) = 0
  BY FS_EmptySet
<1>4. \A k \in Cause : ToldOnce(k) /\ IsFiniteSet(Telling(k))
  BY <1>1, <1>2, <1>3 DEF ToldOnce
<1> QED BY <1>2, <1>4, NewsParts

\* A comment of another and a new follow are notified once, or their notification
\* was switched off or lost with its request, whatever runs in parallel.
THEOREM NewsIsToldOnce == ContentSpec => []EachIsToldOnce
<1>1. NewsInv => EachIsToldOnce
  BY DEF NewsInv
<1> QED BY <1>1, NewsInit, NewsStep, ContentTypeInvariant, PTL DEF ContentSpec

-----------------------------------------------------------------------------
(* Reactions and forks *)

CountsInv == CountsUnlessOverwritten /\ UpdatesOK /\ SourcesOK

Likers(r) == {u \in User : <<u, r>> \in liked}
Forks(r) == {f \in Roadmap : roadmap[f] # NULL /\ roadmap[f].forkedFrom = r}
Counted(r) ==
    /\ roadmap[r].likes = Cardinality(Likers(r))
    /\ roadmap[r].forks = Cardinality(Forks(r))

LEMMA FiniteCounts ==
    ASSUME NEW r
    PROVE  /\ IsFiniteSet(Likers(r)) /\ IsFiniteSet(Forks(r))
           /\ Cardinality(Likers(r)) \in Nat /\ Cardinality(Forks(r)) \in Nat
<1>1. Likers(r) \subseteq User /\ Forks(r) \subseteq Roadmap
  BY DEF Likers, Forks
<1> QED BY <1>1, LibraryConstants, FS_Subset, FS_CardinalityType

\* A roadmap keeps its source.
SourcesStay ==
    \A r \in Roadmap : roadmap[r] # NULL =>
        roadmap'[r] # NULL /\ roadmap'[r].forkedFrom = roadmap[r].forkedFrom

\* The steps that change rows in place: sources, reactions and counts stay, and
\* a count that is lost is one of an overwritten roadmap.
CountsStay ==
    /\ liked' = liked
    /\ overwritten \subseteq overwritten'
    /\ \A r \in Roadmap : roadmap'[r] # NULL =>
        /\ roadmap[r] # NULL
        /\ r \notin overwritten' =>
             roadmap'[r].likes = roadmap[r].likes /\ roadmap'[r].forks = roadmap[r].forks

CountsOK == CountsUnlessOverwritten /\ SourcesOK

LEMMA CountsParts ==
    CountsUnlessOverwritten <=>
        \A r \in Roadmap : roadmap[r] # NULL /\ r \notin overwritten => Counted(r)
BY DEF CountsUnlessOverwritten, Counted, Likers, Forks

LEMMA CountsKept ==
    ASSUME CountsOK, BooksTypeOK, SourcesStay, CountsStay
    PROVE  CountsOK'
<1> USE LibraryNull
<1>1. \A r \in Roadmap : roadmap[r] # NULL =>
         roadmap[r] \in Row /\ roadmap[r].forkedFrom \in Roadmap \cup {NULL}
  BY DEF BooksTypeOK, Row
<1>2. \A r \in Roadmap : roadmap'[r] # NULL <=> roadmap[r] # NULL
  BY DEF SourcesStay, CountsStay
<1>3. \A r \in Roadmap : Likers(r)' = Likers(r) /\ Forks(r)' = Forks(r)
  BY <1>2 DEF SourcesStay, CountsStay, Likers, Forks
<1>4. SourcesOK'
  BY <1>1, <1>2 DEF CountsOK, SourcesOK, SourcesStay, CountsStay, BooksTypeOK
<1>5. ASSUME NEW r \in Roadmap, roadmap'[r] # NULL, r \notin overwritten'
      PROVE  /\ roadmap'[r].likes = Cardinality(Likers(r)')
             /\ roadmap'[r].forks = Cardinality(Forks(r)')
  BY <1>2, <1>3, <1>5, CountsParts DEF CountsOK, Counted, CountsStay
<1>6. CountsUnlessOverwritten'
  BY <1>5 DEF CountsUnlessOverwritten, Likers, Forks
<1> QED BY <1>4, <1>6 DEF CountsOK

\* A new roadmap has no reactions and no forks.
LEMMA NewCounts ==
    ASSUME SourcesOK, NEW r \in Roadmap, roadmap[r] = NULL
    PROVE  Likers(r) = {} /\ Forks(r) = {}
<1>1. r # NULL
  BY LibraryNull
<1>2. \A u \in User : <<u, r>> \notin liked
  BY DEF SourcesOK
<1> QED BY <1>1, <1>2 DEF SourcesOK, Likers, Forks

\* The counts after a step, row by row
LEMMA CountedAll ==
    ASSUME \A r \in Roadmap : roadmap'[r] # NULL /\ r \notin overwritten' =>
              /\ roadmap'[r].likes = Cardinality(Likers(r)')
              /\ roadmap'[r].forks = Cardinality(Forks(r)')
    PROVE  CountsUnlessOverwritten'
BY DEF CountsUnlessOverwritten, Likers, Forks

LEMMA CreateCounts ==
    ASSUME CountsOK, BooksTypeOK, NEW r \in Roadmap, roadmap[r] = NULL, NEW row \in Row,
           row.likes = 0, row.forks = 0, row.forkedFrom = NULL,
           roadmap' = [roadmap EXCEPT ![r] = row], UNCHANGED <<liked, overwritten>>
    PROVE  CountsOK' /\ SourcesStay
<1> USE LibraryNull
<1>1. /\ roadmap'[r] = row /\ row # NULL
      /\ \A x \in Roadmap : x # r => roadmap'[x] = roadmap[x]
  BY DEF BooksTypeOK
<1>2. SourcesStay
  BY <1>1 DEF SourcesStay
<1>3. SourcesOK'
  <2>1. \A p \in liked : p[2] \in Roadmap
    BY DEF BooksTypeOK
  <2>2. \A x \in Roadmap : roadmap[x] # NULL => roadmap[x].forkedFrom \in Roadmap \cup {NULL}
    BY DEF BooksTypeOK, Row
  <2> QED BY <1>1, <2>1, <2>2 DEF CountsOK, SourcesOK
<1>4. \A x \in Roadmap : Likers(x)' = Likers(x) /\ Forks(x)' = Forks(x)
  BY <1>1 DEF Likers, Forks
<1>5. Likers(r) = {} /\ Forks(r) = {} /\ Cardinality({}) = 0
  BY NewCounts, FS_EmptySet DEF CountsOK
<1>6. \A x \in Roadmap : roadmap'[x] # NULL /\ x \notin overwritten' =>
        /\ roadmap'[x].likes = Cardinality(Likers(x)')
        /\ roadmap'[x].forks = Cardinality(Forks(x)')
  BY <1>1, <1>4, <1>5, CountsParts DEF CountsOK, Counted
<1> QED BY <1>2, <1>3, <1>6, CountedAll DEF CountsOK

LEMMA ForkCounts ==
    ASSUME CountsOK, BooksTypeOK, NEW u \in User, NEW source \in Roadmap, NEW r \in Roadmap,
           Fork(u, source, r)
    PROVE  CountsOK' /\ SourcesStay
<1> USE LibraryNull
<1> DEFINE row == [directory |-> Root, visible |-> FALSE, deleted |-> FALSE,
                   likes |-> 0, forks |-> 0, forkedFrom |-> source]
           old == [roadmap[source] EXCEPT !.forks = @ + 1]
<1>1. /\ roadmap[r] = NULL /\ roadmap[source] # NULL /\ r # source
      /\ UNCHANGED <<liked, overwritten>>
  BY DEF Fork, Readable, Found
<1>2. /\ row \in Row /\ row # NULL
      /\ row.likes = 0 /\ row.forks = 0 /\ row.forkedFrom = source
  <2>1. row \in Row
    BY DEF Row
  <2> QED BY <2>1
<1>3. /\ old \in Row /\ old # NULL
      /\ old.likes = roadmap[source].likes
      /\ old.forks = roadmap[source].forks + 1
      /\ old.forkedFrom = roadmap[source].forkedFrom
  BY <1>1 DEF BooksTypeOK, Row
<1>4. /\ roadmap'[r] = row /\ roadmap'[source] = old
      /\ \A x \in Roadmap : x # r /\ x # source => roadmap'[x] = roadmap[x]
  BY <1>1 DEF Fork, BooksTypeOK
<1> HIDE DEF row, old
<1>5. SourcesStay
  BY <1>1, <1>3, <1>4 DEF SourcesStay
<1>6. SourcesOK'
  <2>1. \A p \in liked : p[2] \in Roadmap
    BY DEF BooksTypeOK
  <2>2. \A x \in Roadmap : roadmap[x] # NULL => roadmap[x].forkedFrom \in Roadmap \cup {NULL}
    BY DEF BooksTypeOK, Row
  <2>3. \A x \in Roadmap : roadmap[x] # NULL => roadmap'[x] # NULL
    BY <1>5 DEF SourcesStay
  <2>4. \A f \in Roadmap : roadmap'[f] # NULL /\ roadmap'[f].forkedFrom # NULL =>
          roadmap'[roadmap'[f].forkedFrom] # NULL
    <3> SUFFICES ASSUME NEW f \in Roadmap, roadmap'[f] # NULL, roadmap'[f].forkedFrom # NULL
                 PROVE  roadmap'[roadmap'[f].forkedFrom] # NULL
      OBVIOUS
    <3>1. CASE f = r
      BY <3>1, <1>1, <1>2, <1>4, <2>3
    <3>2. CASE f # r
      <4>1. roadmap[f] # NULL /\ roadmap'[f].forkedFrom = roadmap[f].forkedFrom
        BY <3>2, <1>1, <1>3, <1>4
      <4> QED BY <4>1, <2>2, <2>3 DEF CountsOK, SourcesOK
    <3> QED BY <3>1, <3>2
  <2>5. \A p \in liked : roadmap'[p[2]] # NULL
    BY <2>1, <2>3 DEF CountsOK, SourcesOK
  <2> QED BY <2>4, <2>5, <1>1 DEF SourcesOK
<1>7. \A x \in Roadmap : Likers(x)' = Likers(x)
  BY <1>1 DEF Likers
<1>8. Forks(source)' = Forks(source) \cup {r} /\ r \notin Forks(source)
  BY <1>1, <1>2, <1>3, <1>4 DEF Forks
<1>9. \A x \in Roadmap : x # source => Forks(x)' = Forks(x)
  BY <1>1, <1>2, <1>3, <1>4 DEF Forks
<1>10. Cardinality(Forks(source)') = Cardinality(Forks(source)) + 1
  BY <1>8, FiniteCounts, FS_AddElement
<1>11. Likers(r) = {} /\ Forks(r) = {} /\ Cardinality({}) = 0
  BY <1>1, NewCounts, FS_EmptySet DEF CountsOK
<1>12. ASSUME NEW x \in Roadmap, roadmap'[x] # NULL, x \notin overwritten'
       PROVE  /\ roadmap'[x].likes = Cardinality(Likers(x)')
              /\ roadmap'[x].forks = Cardinality(Forks(x)')
  <2>1. CASE x = r
    BY <2>1, <1>1, <1>2, <1>4, <1>7, <1>9, <1>11
  <2>2. CASE x = source
    <3>1. Counted(source)
      BY <1>1, <1>12, <2>2, CountsParts DEF CountsOK
    <3> QED BY <3>1, <2>2, <1>3, <1>4, <1>7, <1>10 DEF Counted
  <2>3. CASE x # r /\ x # source
    BY <2>3, <1>1, <1>4, <1>7, <1>9, <1>12, CountsParts DEF CountsOK, Counted
  <2> QED BY <2>1, <2>2, <2>3
<1> QED BY <1>5, <1>6, <1>12, CountedAll DEF CountsOK

LEMMA ReactionCounts ==
    ASSUME CountsOK, BooksTypeOK, NEW u \in User, NEW r \in Roadmap, Like(u, r) \/ Unlike(u, r)
    PROVE  CountsOK' /\ SourcesStay
<1>1. roadmap[r] # NULL /\ roadmap[r] \in Row /\ overwritten' = overwritten
  BY DEF Like, Unlike, Readable, Found, BooksTypeOK
<1>row. \A n \in Nat :
          /\ [roadmap[r] EXCEPT !.likes = n].likes = n
          /\ [roadmap[r] EXCEPT !.likes = n].forks = roadmap[r].forks
          /\ [roadmap[r] EXCEPT !.likes = n].forkedFrom = roadmap[r].forkedFrom
          /\ [roadmap[r] EXCEPT !.likes = n] # NULL
  <2>1. \A n \in Nat : [roadmap[r] EXCEPT !.likes = n] \in Row
    BY <1>1 DEF Row
  <2> QED BY <1>1, <2>1, LibraryNull DEF Row
\* Either nothing changes, or one reaction and the count with it.
<1>2. \/ UNCHANGED <<roadmap, liked>>
      \/ /\ <<u, r>> \notin liked /\ liked' = liked \cup {<<u, r>>}
         /\ roadmap' = [roadmap EXCEPT ![r] = [roadmap[r] EXCEPT !.likes = roadmap[r].likes + 1]]
      \/ /\ <<u, r>> \in liked /\ liked' = liked \ {<<u, r>>}
         /\ roadmap' = [roadmap EXCEPT ![r] = [roadmap[r] EXCEPT !.likes = Pred(roadmap[r].likes)]]
  <2>1. CASE Like(u, r) /\ <<u, r>> \in liked
    BY <2>1 DEF Like, FirstLike
  <2>2. CASE Like(u, r) /\ <<u, r>> \notin liked
    BY <2>2 DEF Like, FirstLike, BooksTypeOK
  <2>3. CASE Unlike(u, r) /\ <<u, r>> \notin liked
    BY <2>3 DEF Unlike
  <2>4. CASE Unlike(u, r) /\ <<u, r>> \in liked
    BY <2>4 DEF Unlike, BooksTypeOK
  <2> QED BY <2>1, <2>2, <2>3, <2>4
<1>3. roadmap[r].likes \in Nat /\ roadmap[r].likes + 1 \in Nat /\ Pred(roadmap[r].likes) \in Nat
  BY <1>1 DEF Row, Pred
<1>4. CASE UNCHANGED <<roadmap, liked>>
  <2>1. SourcesStay /\ CountsStay
    BY <1>1, <1>4 DEF SourcesStay, CountsStay
  <2> QED BY <2>1, CountsKept
<1>5. ASSUME NEW n \in Nat, roadmap' = [roadmap EXCEPT ![r] = [roadmap[r] EXCEPT !.likes = n]],
             liked' \subseteq liked \cup {<<u, r>>},
             r \notin overwritten => n = Cardinality(Likers(r)'),
             \A x \in Roadmap : x # r => Likers(x)' = Likers(x)
      PROVE  CountsOK' /\ SourcesStay
  <2>1. /\ roadmap'[r] = [roadmap[r] EXCEPT !.likes = n]
        /\ \A x \in Roadmap : x # r => roadmap'[x] = roadmap[x]
    BY <1>5 DEF BooksTypeOK
  <2>2. SourcesStay
    BY <1>row, <2>1, <1>5 DEF SourcesStay
  <2>3. \A x \in Roadmap :
          /\ roadmap'[x] # NULL <=> roadmap[x] # NULL
          /\ roadmap'[x] # NULL => roadmap'[x].forkedFrom = roadmap[x].forkedFrom
          /\ roadmap'[x] # NULL => roadmap'[x].forks = roadmap[x].forks
    BY <1>1, <1>row, <2>1, <1>5
  <2>4. \A x \in Roadmap : Forks(x)' = Forks(x)
    BY <2>3 DEF Forks
  <2>5. SourcesOK'
    <3>1. \A x \in Roadmap : roadmap[x] # NULL => roadmap[x].forkedFrom \in Roadmap \cup {NULL}
      BY LibraryNull DEF BooksTypeOK, Row
    <3>2. \A f \in Roadmap : roadmap'[f] # NULL /\ roadmap'[f].forkedFrom # NULL =>
            roadmap'[roadmap'[f].forkedFrom] # NULL
      BY <2>3, <3>1 DEF CountsOK, SourcesOK
    <3>3. \A q \in liked' : q[2] \in Roadmap /\ roadmap[q[2]] # NULL
      BY <1>1, <1>5 DEF CountsOK, SourcesOK, BooksTypeOK
    <3> QED BY <2>3, <3>2, <3>3 DEF SourcesOK
  <2>6. ASSUME NEW x \in Roadmap, roadmap'[x] # NULL, x \notin overwritten'
        PROVE  /\ roadmap'[x].likes = Cardinality(Likers(x)')
               /\ roadmap'[x].forks = Cardinality(Forks(x)')
    <3>1. Counted(x)
      BY <1>1, <2>3, <2>6, CountsParts DEF CountsOK
    <3>2. CASE x = r
      <4>1. roadmap'[x].likes = Cardinality(Likers(x)')
        <5>1. roadmap'[r].likes = n
          BY <1>row, <2>1, <1>5
        <5>2. r \notin overwritten
          BY <3>2, <1>1, <2>6
        <5>3. n = Cardinality(Likers(r)')
          BY <5>2, <1>5
        <5> QED BY <3>2, <5>1, <5>3
      <4> QED BY <3>1, <4>1, <2>3, <2>4, <2>6 DEF Counted
    <3>3. CASE x # r
      BY <3>1, <3>3, <1>5, <2>1, <2>4 DEF Counted
    <3> QED BY <3>2, <3>3
  <2> QED BY <2>2, <2>5, <2>6, CountedAll DEF CountsOK
<1>6. CASE /\ <<u, r>> \notin liked /\ liked' = liked \cup {<<u, r>>}
           /\ roadmap' = [roadmap EXCEPT ![r] = [roadmap[r] EXCEPT !.likes = roadmap[r].likes + 1]]
  <2>1. Likers(r)' = Likers(r) \cup {u} /\ u \notin Likers(r)
    BY <1>6 DEF Likers
  <2>2. Cardinality(Likers(r)') = Cardinality(Likers(r)) + 1
    BY <2>1, FiniteCounts, FS_AddElement
  <2>3. r \notin overwritten => roadmap[r].likes + 1 = Cardinality(Likers(r)')
    BY <1>1, <2>2, CountsParts DEF CountsOK, Counted
  <2>4. \A x \in Roadmap : x # r => Likers(x)' = Likers(x)
    BY <1>6 DEF Likers
  <2> QED BY <1>3, <1>5, <1>6, <2>3, <2>4
<1>7. CASE /\ <<u, r>> \in liked /\ liked' = liked \ {<<u, r>>}
           /\ roadmap' = [roadmap EXCEPT ![r] = [roadmap[r] EXCEPT !.likes = Pred(roadmap[r].likes)]]
  <2>1. Likers(r)' = Likers(r) \ {u} /\ u \in Likers(r)
    BY <1>7 DEF Likers
  <2>2. Cardinality(Likers(r)') = Cardinality(Likers(r)) - 1 /\ Cardinality(Likers(r)') \in Nat
    <3>1. IsFiniteSet(Likers(r)')
      BY <2>1, FiniteCounts, FS_RemoveElement
    <3> QED BY <2>1, <3>1, FiniteCounts, FS_RemoveElement, FS_CardinalityType
  <2>3. r \notin overwritten => Pred(roadmap[r].likes) = Cardinality(Likers(r)')
    <3>1. r \notin overwritten => roadmap[r].likes = Cardinality(Likers(r))
      BY <1>1, CountsParts DEF CountsOK, Counted
    <3> QED BY <3>1, <2>2, FiniteCounts DEF Pred
  <2>4. \A x \in Roadmap : x # r => Likers(x)' = Likers(x)
    BY <1>7 DEF Likers
  <2> QED BY <1>3, <1>5, <1>7, <2>3, <2>4
<1> QED BY <1>2, <1>4, <1>6, <1>7

\* The other steps of the library change rows in place or none.
LEMMA OtherCounts ==
    ASSUME RequestsOK, BooksTypeOK, UpdatesOK, Next,
           ~ \E r \in Roadmap, d \in Directory \cup {Root}, v \in BOOLEAN : Create(r, d, v),
           ~ \E u \in User, source, r \in Roadmap : Fork(u, source, r),
           ~ \E u \in User, r \in Roadmap : Like(u, r) \/ Unlike(u, r)
    PROVE  SourcesStay /\ CountsStay
<1> DEFINE Goal == SourcesStay /\ CountsStay
<1>same. ASSUME UNCHANGED books PROVE Goal
  BY <1>same DEF books, SourcesStay, CountsStay
<1>1. ASSUME NEW r \in Roadmap, Remove(r)
      PROVE  Goal
  <2> DEFINE row == [roadmap[r] EXCEPT !.deleted = TRUE]
  <2>1. roadmap[r] # NULL /\ roadmap[r] \in Row /\ UNCHANGED <<liked, overwritten>>
    BY <1>1 DEF Remove, Found, BooksTypeOK
  <2>2. row \in Row
    BY <2>1 DEF Row
  <2>3. /\ row # NULL /\ row.likes = roadmap[r].likes /\ row.forks = roadmap[r].forks
        /\ row.forkedFrom = roadmap[r].forkedFrom
    BY <2>1, <2>2, LibraryNull DEF Row
  <2>4. roadmap' = [roadmap EXCEPT ![r] = row]
    BY <1>1 DEF Remove, BooksTypeOK
  <2> HIDE DEF row
  <2> QED BY <2>1, <2>3, <2>4 DEF BooksTypeOK, SourcesStay, CountsStay
<1>2. ASSUME NEW w \in Request, UpdateSave(w)
      PROVE  Goal
  <2> DEFINE r == request[w].roadmap
             row == request[w].row
  <2>1. r \in Roadmap /\ row \in Row /\ row # NULL
    BY <1>2, RequestKinds, LibraryNull DEF UpdateSave, RequestsOK, UpdateRequest
  <2>2. /\ roadmap[r] # NULL /\ Kept(row) = Kept(request[w].read)
        /\ row.forkedFrom = roadmap[r].forkedFrom
    BY <1>2 DEF UpdateSave, UpdatesOK, Asks
  <2>3. CASE UNCHANGED <<roadmap, overwritten>>
    BY <1>2, <2>3, <1>same DEF UpdateSave, books
  <2>4. CASE /\ roadmap' = [roadmap EXCEPT ![r] = row]
             /\ overwritten' = IF Kept(roadmap[r]) = Kept(request[w].read)
                               THEN overwritten ELSE overwritten \cup {r}
    <3>1. r \notin overwritten' => row.likes = roadmap[r].likes /\ row.forks = roadmap[r].forks
      BY <2>2, <2>4 DEF Kept
    <3>2. liked' = liked /\ overwritten \subseteq overwritten'
      BY <1>2, <2>4 DEF UpdateSave
    <3> HIDE DEF r, row
    <3> QED BY <3>1, <3>2, <2>1, <2>2, <2>4 DEF BooksTypeOK, SourcesStay, CountsStay
  <2> QED BY <1>2, <2>3, <2>4 DEF UpdateSave
<1>3. ASSUME NEW w \in Request, DropDetach(w) \/ DropRow(w)
      PROVE  Goal
  <2>1. UNCHANGED <<liked, overwritten>>
    BY <1>3 DEF DropDetach, DropRow
  <2>2. roadmap' = roadmap \/ roadmap' = Detached(request[w].directory)
    BY <1>3 DEF DropDetach, DropRow
  <2>3. CASE roadmap' = roadmap
    BY <2>1, <2>3, <1>same DEF books
  <2>4. CASE roadmap' = Detached(request[w].directory)
    BY <2>1, <2>4, DetachedType DEF Kept, SourcesStay, CountsStay
  <2> QED BY <2>2, <2>3, <2>4
<1>4. ASSUME \/ \E d \in Directory, p \in Directory \cup {Root} : CreateDirectory(d, p)
             \/ \E w \in Request :
                 \/ \E r \in Roadmap, d \in Directory \cup {Root, NULL}, v \in BOOLEAN :
                      UpdateBegin(w, r, d, v)
                 \/ \E d \in Directory, p \in Directory \cup {Root} : MoveBegin(w, d, p)
                 \/ MoveWalk(w) \/ MoveSave(w) \/ RenameSave(w)
                 \/ \E d \in Directory : RenameBegin(w, d) \/ DropBegin(w, d)
                 \/ Abandon(w)
      PROVE  Goal
  BY <1>4, <1>same DEF CreateDirectory, UpdateBegin, MoveBegin, MoveWalk, MoveSave, RenameSave,
                       RenameBegin, DropBegin, Abandon
<1> QED BY <1>1, <1>2, <1>3, <1>4 DEF Next

\* An update is one that begins or one there was.
LEMMA UpdatesFrom ==
    ASSUME RequestsOK, Next, NEW w \in Request, Asks(w, "update")'
    PROVE  \/ request'[w] = request[w]
           \/ \E r \in Roadmap, d \in Directory \cup {Root, NULL}, v \in BOOLEAN :
                UpdateBegin(w, r, d, v)
<1> USE DEF RequestsOK, Asks
<1>1. ASSUME NEW v \in Request, Ends(v) \/ EndsAndAges(v)
      PROVE  request'[w] = request[w]
  <2>1. CASE Ends(v)
    BY <2>1 DEF Ends
  <2>2. CASE EndsAndAges(v)
    <3>1. \A q \in ContentRequest : q.op \in {"move", "rename", "drop"} =>
             [q EXCEPT !.fresh = FALSE].op # "update"
      BY RequestKinds DEF MoveRequest, RenameRequest, DropRequest
    <3> QED BY <3>1, <2>2 DEF EndsAndAges
  <2> QED BY <1>1, <2>1, <2>2
<1>2. ASSUME NEW v \in Request, MoveWalk(v)
      PROVE  request'[w] = request[w]
  <2>1. CASE Ends(v)
    BY <2>1, <1>1
  <2>2. CASE request' = [request EXCEPT ![v].at = parent[request[v].at], ![v].depth = @ + 1]
    <3>1. request[v] \in MoveRequest
      BY <1>2, RequestKinds DEF MoveWalk
    <3> QED BY <2>2, <3>1 DEF MoveRequest
  <2> QED BY <1>2, <2>1, <2>2 DEF MoveWalk
<1>3. ASSUME NEW v \in Request, DropDetach(v)
      PROVE  request'[w] = request[w]
  <2>1. request[v] \in DropRequest
    BY <1>3, RequestKinds DEF DropDetach
  <2> QED BY <1>3, <2>1 DEF DropDetach, DropRequest
<1>4. ASSUME NEW v \in Request,
             \/ UpdateSave(v) \/ MoveSave(v) \/ RenameSave(v) \/ DropRow(v) \/ Abandon(v)
      PROVE  request'[w] = request[w]
  BY <1>4, <1>1 DEF UpdateSave, MoveSave, RenameSave, DropRow, Abandon, Saved
<1>5. ASSUME NEW v \in Request,
             \/ \E d \in Directory, p \in Directory \cup {Root} : MoveBegin(v, d, p)
             \/ \E d \in Directory : RenameBegin(v, d) \/ DropBegin(v, d)
      PROVE  request'[w] = request[w]
  <2>1. request'[v].op # "update" /\ \A x \in Request : x # v => request'[x] = request[x]
    BY <1>5 DEF MoveBegin, RenameBegin, DropBegin, Begins
  <2> QED BY <2>1
<1>6. ASSUME NEW v \in Request, NEW r \in Roadmap, NEW d \in Directory \cup {Root, NULL},
             NEW b \in BOOLEAN, UpdateBegin(v, r, d, b)
      PROVE  request'[w] = request[w] \/ UpdateBegin(w, r, d, b)
  BY <1>6 DEF UpdateBegin, Begins
<1>7. ASSUME \/ \E r \in Roadmap, d \in Directory \cup {Root}, v \in BOOLEAN : Create(r, d, v)
             \/ \E u \in User, source, r \in Roadmap : Fork(u, source, r)
             \/ \E u \in User, r \in Roadmap : Like(u, r) \/ Unlike(u, r)
             \/ \E r \in Roadmap : Remove(r)
             \/ \E d \in Directory, p \in Directory \cup {Root} : CreateDirectory(d, p)
      PROVE  request'[w] = request[w]
  BY <1>7 DEF Create, Fork, Like, Unlike, Remove, CreateDirectory
<1> QED BY <1>2, <1>3, <1>4, <1>5, <1>6, <1>7 DEF Next

LEMMA UpdatesStep ==
    ASSUME RequestsOK, BooksTypeOK, UpdatesOK, SourcesStay,
           \A w \in Request : Asks(w, "update")' =>
              \/ request'[w] = request[w]
              \/ \E r \in Roadmap, d \in Directory \cup {Root, NULL}, v \in BOOLEAN :
                   UpdateBegin(w, r, d, v)
    PROVE  UpdatesOK'
<1> SUFFICES ASSUME NEW w \in Request, Asks(w, "update")'
             PROVE  /\ roadmap'[request'[w].roadmap] # NULL
                    /\ Kept(request'[w].row) = Kept(request'[w].read)
                    /\ request'[w].row.forkedFrom = roadmap'[request'[w].roadmap].forkedFrom
  BY DEF UpdatesOK, Kept
<1>1. CASE request'[w] = request[w]
  <2>1. Asks(w, "update") /\ request[w].roadmap \in Roadmap
    BY <1>1, RequestKinds DEF Asks, RequestsOK, UpdateRequest
  <2> QED BY <1>1, <2>1 DEF UpdatesOK, SourcesStay, Kept
<1>2. ASSUME NEW r \in Roadmap, NEW d \in Directory \cup {Root, NULL}, NEW v \in BOOLEAN,
             UpdateBegin(w, r, d, v)
      PROVE  /\ roadmap'[request'[w].roadmap] # NULL
             /\ Kept(request'[w].row) = Kept(request'[w].read)
             /\ request'[w].row.forkedFrom = roadmap'[request'[w].roadmap].forkedFrom
  <2> DEFINE row == [roadmap[r] EXCEPT !.directory = IF d = NULL THEN @ ELSE d, !.visible = v]
  <2>1. roadmap[r] # NULL /\ roadmap[r] \in Row
    BY <1>2 DEF UpdateBegin, Found, BooksTypeOK
  <2>2. Kept(row) = Kept(roadmap[r]) /\ row.forkedFrom = roadmap[r].forkedFrom
    BY <2>1 DEF Row, Kept
  <2>3. /\ request'[w].row = row /\ request'[w].read = roadmap[r] /\ request'[w].roadmap = r
        /\ roadmap'[r] = roadmap[r]
    BY <1>2 DEF UpdateBegin, Begins, RequestsOK, books
  <2> HIDE DEF row
  <2> QED BY <2>1, <2>2, <2>3 DEF Kept
<1> QED BY <1>1, <1>2

LEMMA CountsStep == ContentTypeInv /\ CountsInv /\ [ContentNext]_contentVars => CountsInv'
<1> SUFFICES ASSUME ContentTypeInv, CountsInv, [ContentNext]_contentVars
             PROVE  CountsInv'
  OBVIOUS
<1>ok. /\ RequestsOK /\ BooksTypeOK /\ ContentTypeOK /\ CommentsOK
       /\ CountsOK /\ UpdatesOK
  BY LibraryTypeParts DEF ContentTypeInv, ContentTypeOK, RequestsOK, CountsInv, CountsOK
<1>1. CASE LibraryStep
  <2>1. CountsOK' /\ SourcesStay
    <3>1. ASSUME NEW r \in Roadmap, NEW d \in Directory \cup {Root}, NEW v \in BOOLEAN, Create(r, d, v)
          PROVE  CountsOK' /\ SourcesStay
      <4> DEFINE row == [directory |-> d, visible |-> v, deleted |-> FALSE,
                         likes |-> 0, forks |-> 0, forkedFrom |-> NULL]
      <4>1. row \in Row /\ row.likes = 0 /\ row.forks = 0 /\ row.forkedFrom = NULL
        BY DEF Row
      <4>2. /\ roadmap[r] = NULL /\ roadmap' = [roadmap EXCEPT ![r] = row]
            /\ UNCHANGED <<liked, overwritten>>
        BY <3>1 DEF Create
      <4> HIDE DEF row
      <4> QED BY <4>1, <4>2, <1>ok, CreateCounts
    <3>2. CASE \E u \in User, source, r \in Roadmap : Fork(u, source, r)
      BY <3>2, <1>ok, ForkCounts
    <3>3. CASE \E u \in User, r \in Roadmap : Like(u, r) \/ Unlike(u, r)
      BY <3>3, <1>ok, ReactionCounts
    <3> QED BY <3>1, <3>2, <3>3, <1>1, <1>ok, OtherCounts, CountsKept DEF LibraryStep
  <2>2. UpdatesOK'
    BY <1>1, <2>1, <1>ok, UpdatesFrom, UpdatesStep DEF LibraryStep
  <2> QED BY <2>1, <2>2 DEF CountsInv, CountsOK
<1>2. CASE UploadsNext \/ SocialNext
  <2>1. SourcesStay /\ CountsStay
    BY <1>2, LibraryKept DEF SourcesStay, CountsStay
  <2>2. Untouched(LibraryOps)
    BY <1>2, <1>ok, UploadRequests, SocialRequests DEF Untouched
  <2>3. \A w \in Request : Asks(w, "update")' => request'[w] = request[w]
    BY <2>2 DEF Asks, Untouched, LibraryOps
  <2> QED BY <2>1, <2>3, <1>ok, CountsKept, UpdatesStep DEF CountsInv, CountsOK
<1>3. CASE UNCHANGED contentVars
  <2>1. SourcesStay /\ CountsStay /\ request' = request
    BY <1>3 DEF contentVars, vars, SourcesStay, CountsStay
  <2> QED BY <2>1, <1>ok, CountsKept, UpdatesStep DEF CountsInv, CountsOK
<1> QED BY <1>1, <1>2, <1>3 DEF ContentNext

\* likeCount and forkCount are the numbers of reactions and forks, for any number
\* of users at the same time: only an update that saves what it read before
\* another change loses one.
THEOREM CountsAreExact == ContentSpec => []CountsUnlessOverwritten
<1>1. ContentInit => CountsInv
  BY DEF ContentInit, Init, CountsInv, CountsUnlessOverwritten, UpdatesOK, SourcesOK, Asks
<1>2. CountsInv => CountsUnlessOverwritten
  BY DEF CountsInv
<1> QED BY <1>1, <1>2, CountsStep, ContentTypeInvariant, PTL DEF ContentSpec

-----------------------------------------------------------------------------
(* The tree of directories *)

Forest == \A D \in SUBSET Directory : ~Cycle(D)

ShelvesInv == ForestUnlessRaced /\ ShelvesOK

\* What is about the rows and what is about a request
ExistingOK == \A d \in Directory : Exists(d) => d \in created
TreeRequestOK(w) ==
    /\ Asks(w, "move") \/ Asks(w, "rename") => request[w].directory \in created
    /\ Asks(w, "move") /\ request[w].fresh => WalkOK(w)
    /\ Asks(w, "rename") /\ request[w].fresh =>
         parent[request[w].directory] = request[w].to

LEMMA ShelvesParts ==
    ShelvesInv <=> /\ ~raced => Forest
                   /\ ExistingOK
                   /\ \A w \in Request : TreeRequestOK(w)
BY DEF ShelvesInv, ForestUnlessRaced, Forest, ShelvesOK, ExistingOK, TreeRequestOK, WalksOK, RenamesOK

LEMMA ShelvesAll ==
    ASSUME ~raced' => Forest', ExistingOK', \A w \in Request : TreeRequestOK(w)'
    PROVE  ShelvesInv'
BY DEF ShelvesInv, ForestUnlessRaced, Forest, ShelvesOK, ExistingOK, TreeRequestOK, WalksOK, RenamesOK

\* A request as it was, in a tree as it was
LEMMA TreeRequestKept ==
    ASSUME NEW w \in Request, TreeRequestOK(w), request'[w] = request[w],
           parent' = parent, created \subseteq created'
    PROVE  TreeRequestOK(w)'
BY DEF TreeRequestOK, Asks, WalkOK, AllBut, Exists

LEMMA OtherRequest ==
    ASSUME NEW w \in Request, ~Asks(w, "move")', ~Asks(w, "rename")'
    PROVE  TreeRequestOK(w)'
BY DEF TreeRequestOK

LEMMA ShelvesKept ==
    ASSUME ShelvesInv, UNCHANGED shelves, \A w \in Request : TreeRequestOK(w)'
    PROVE  ShelvesInv'
<1>1. Forest' <=> Forest
  BY DEF shelves, Forest, Cycle
<1>2. ExistingOK'
  BY ShelvesParts DEF shelves, ExistingOK, Exists
<1>3. ~raced' => Forest'
  BY <1>1, ShelvesParts DEF shelves
<1> QED BY <1>2, <1>3, ShelvesAll

\* After a save nobody's picture of the tree is fresh.
LEMMA NoneFresh ==
    ASSUME RequestsOK, ShelvesInv, NEW w \in Request, EndsAndAges(w), created' = created
    PROVE  \A v \in Request : TreeRequestOK(v)'
<1> SUFFICES ASSUME NEW v \in Request, Asks(v, "move")' \/ Asks(v, "rename")'
             PROVE  TreeRequestOK(v)'
  BY OtherRequest
<1>1. v # w
  BY DEF EndsAndAges, Asks
<1>2. \A q \in ContentRequest : q.op \in {"move", "rename", "drop"} =>
         /\ [q EXCEPT !.fresh = FALSE].op = q.op
         /\ [q EXCEPT !.fresh = FALSE].directory = q.directory
         /\ ~[q EXCEPT !.fresh = FALSE].fresh
  BY RequestKinds DEF MoveRequest, RenameRequest, DropRequest
<1>3. /\ Asks(v, "move") \/ Asks(v, "rename")
      /\ request'[v] = [request[v] EXCEPT !.fresh = FALSE]
  BY <1>1 DEF EndsAndAges, Asks
<1>4. request'[v].directory = request[v].directory /\ ~request'[v].fresh
  BY <1>2, <1>3 DEF Asks, RequestsOK
<1>5. request[v].directory \in created
  BY <1>3, ShelvesParts DEF TreeRequestOK
<1> QED BY <1>4, <1>5 DEF TreeRequestOK

LEMMA CreateDirectoryShelves ==
    ASSUME ShelvesTypeOK, ShelvesInv, RequestsOK,
           NEW d \in Directory, NEW p \in Directory \cup {Root}, CreateDirectory(d, p)
    PROVE  ShelvesInv'
<1> USE LibraryNull
<1>null. Root # NULL /\ Root \notin Directory /\ NULL \notin Directory /\ NULL \notin {Root}
  OBVIOUS
<1>1. /\ d \notin created
      /\ p # Root => Exists(p)
      /\ parent' = [parent EXCEPT ![d] = p] /\ created' = created \cup {d}
      /\ UNCHANGED <<request, raced>>
  BY DEF CreateDirectory
<1>2. parent[d] = NULL /\ p # d /\ p # NULL /\ \A x \in Directory : parent[x] # d
  <2>1. parent[d] = NULL
    BY <1>1, ShelvesParts DEF ExistingOK, Exists
  <2>2. p # d /\ p # NULL
    BY <1>1, <1>null, <2>1 DEF Exists
  <2>3. \A x \in Directory : parent[x] # d
    BY <2>1 DEF Exists, ShelvesTypeOK
  <2> QED BY <2>1, <2>2, <2>3
<1>3. parent'[d] = p /\ \A x \in Directory : x # d => parent'[x] = parent[x]
  BY <1>1 DEF ShelvesTypeOK
<1>4. ExistingOK'
  BY <1>1, <1>3, ShelvesParts DEF ExistingOK, Exists
\* Without the new directory, which is nobody's parent, a cycle is one there was.
<1>5. ASSUME Forest PROVE Forest'
  <2> SUFFICES ASSUME NEW D \in SUBSET Directory, D # {}, \A x \in D : parent'[x] \in D
               PROVE  FALSE
    BY DEF Forest, Cycle
  <2>1. \A x \in D \ {d} : parent[x] \in D \ {d}
    BY <1>2, <1>3
  <2>2. D \ {d} # {}
    <3>1. CASE d \in D
      BY <3>1, <1>2, <1>3
    <3> QED BY <3>1
  <2> QED BY <1>5, <2>1, <2>2 DEF Forest, Cycle
<1>6. ASSUME NEW w \in Request PROVE TreeRequestOK(w)'
  <2>1. TreeRequestOK(w) /\ request'[w] = request[w]
    BY <1>1, ShelvesParts
  <2>2. Asks(w, "move")' \/ Asks(w, "rename")' => request'[w].directory \in created'
    BY <1>1, <2>1 DEF TreeRequestOK, Asks
  <2>3. ASSUME Asks(w, "move"), request[w].fresh
        PROVE  WalkOK(w)'
    <3> DEFINE q == request[w]
    <3>1. WalkOK(w) /\ q.directory \in Directory /\ q.to \in Directory \cup {Root}
      BY <2>1, <2>3, RequestKinds DEF TreeRequestOK, Asks, RequestsOK, MoveRequest
    <3>2. q.directory # d /\ parent'[q.directory] # NULL
      BY <3>1, <1>2, <1>3 DEF WalkOK, Exists
    <3>3. q.at # q.to => parent'[q.to] # NULL
      BY <3>1, <1>1, <1>2, <1>3 DEF WalkOK, Exists, ShelvesTypeOK
    <3>4. ASSUME NEW D \in SUBSET Directory, q.to \in D,
                 \A x \in D : x # q.directory => parent'[x] \in D
          PROVE  q.at \in D
      <4>1. CASE q.at = q.to
        BY <3>4, <4>1
      <4>2. CASE q.at # q.to
        <5>1. q.to \in D \ {d}
          BY <3>1, <3>4, <4>2, <1>2 DEF WalkOK, Exists
        <5>2. AllBut(q.directory, D \ {d})
          BY <3>4, <1>2, <1>3 DEF AllBut
        <5>3. q.at \in D \ {d}
          BY <3>1, <5>1, <5>2 DEF WalkOK
        <5> QED BY <5>3
      <4> QED BY <4>1, <4>2
    <3> QED BY <3>2, <3>3, <3>4, <2>1 DEF WalkOK, Exists, AllBut
  <2>4. ASSUME Asks(w, "rename"), request[w].fresh
        PROVE  parent'[request[w].directory] = request[w].to
    <3>1. request[w].directory \in Directory /\ request[w].to \in Directory \cup {Root}
      BY <2>4, RequestKinds DEF Asks, RequestsOK, RenameRequest
    <3>2. parent[request[w].directory] = request[w].to
      BY <2>1, <2>4 DEF TreeRequestOK
    <3>3. request[w].directory # d
      BY <3>1, <3>2, <1>2, <1>null
    <3> QED BY <3>1, <3>2, <3>3, <1>3
  <2> QED BY <2>1, <2>2, <2>3, <2>4 DEF TreeRequestOK, Asks
<1>7. ~raced' => Forest'
  BY <1>1, <1>5, ShelvesParts
<1> QED BY <1>4, <1>6, <1>7, ShelvesAll

LEMMA MoveWalkShelves ==
    ASSUME ShelvesTypeOK, ShelvesInv, RequestsOK, NEW w \in Request, MoveWalk(w)
    PROVE  ShelvesInv'
<1>1. UNCHANGED shelves /\ \A v \in Request : v # w => request'[v] = request[v]
  <2>1. UNCHANGED shelves
    BY DEF MoveWalk
  <2>2. \A v \in Request : v # w => request'[v] = request[v]
    BY DEF MoveWalk, Ends, RequestsOK
  <2> QED BY <2>1, <2>2
<1>2. ASSUME NEW v \in Request, v # w PROVE TreeRequestOK(v)'
  BY <1>1, <1>2, ShelvesParts, TreeRequestKept DEF shelves
<1>3. TreeRequestOK(w)'
  <2>1. CASE Ends(w)
    BY <2>1, OtherRequest DEF Ends, Asks, RequestsOK
  <2>2. CASE /\ ~MeetsItself(w) /\ Exists(request[w].at)
             /\ request' = [request EXCEPT ![w].at = parent[request[w].at], ![w].depth = @ + 1]
    <3> DEFINE q == request[w]
    <3>1. q \in MoveRequest /\ Asks(w, "move") /\ q.at # Root
      BY RequestKinds DEF MoveWalk, RequestsOK, Asks
    <3>2. /\ request'[w].directory = q.directory /\ request'[w].to = q.to
          /\ request'[w].fresh = q.fresh /\ request'[w].at = parent[q.at]
          /\ request'[w].op = "move"
      BY <2>2, <3>1 DEF MoveRequest, RequestsOK
    <3>3. TreeRequestOK(w) /\ q.directory \in created /\ q.at \in Directory
      BY <3>1, ShelvesParts DEF TreeRequestOK, MoveRequest
    <3>4. ASSUME q.fresh PROVE WalkOK(w)'
      <4>1. WalkOK(w)
        BY <3>1, <3>3, <3>4 DEF TreeRequestOK
      <4>2. Exists(q.directory) /\ Exists(q.to)
        BY <2>2, <4>1 DEF WalkOK
      <4>3. \A D \in SUBSET Directory : q.to \in D /\ AllBut(q.directory, D) => parent[q.at] \in D
        BY <2>2, <4>1 DEF WalkOK, AllBut, MeetsItself
      <4> QED BY <1>1, <3>2, <4>2, <4>3 DEF WalkOK, AllBut, Exists, shelves
    <3> QED BY <1>1, <3>2, <3>3, <3>4 DEF TreeRequestOK, Asks, shelves
  <2> QED BY <2>1, <2>2 DEF MoveWalk
<1> QED BY <1>1, <1>2, <1>3, ShelvesKept

LEMMA SavedShelves ==
    ASSUME ShelvesTypeOK, ShelvesInv, RequestsOK, NEW w \in Request, MoveSave(w) \/ RenameSave(w)
    PROVE  ShelvesInv'
<1> USE LibraryNull
<1> DEFINE d == request[w].directory
           p == request[w].to
<1>1. d \in Directory /\ p \in Directory \cup {Root} /\ Saved(w, d, p) /\ created' = created
  BY SavedDirectory DEF MoveSave, RenameSave
<1>2. (Asks(w, "move") /\ request[w].at = Root) \/ Asks(w, "rename")
  BY DEF MoveSave, RenameSave, Asks
<1>3. d \in created /\ TreeRequestOK(w)
  BY <1>2, ShelvesParts DEF TreeRequestOK
<1>4. CASE Ends(w) /\ UNCHANGED <<parent, raced>>
  <2>1. ASSUME NEW v \in Request PROVE TreeRequestOK(v)'
    <3>1. CASE v = w
      BY <3>1, <1>4, OtherRequest DEF Ends, Asks, RequestsOK
    <3>2. CASE v # w
      BY <3>2, <1>4, <1>1, ShelvesParts, TreeRequestKept DEF Ends, RequestsOK
    <3> QED BY <3>1, <3>2
  <2> QED BY <2>1, <1>1, <1>4, ShelvesKept DEF shelves
<1>5. CASE /\ parent' = [parent EXCEPT ![d] = p]
           /\ raced' = (raced \/ ~request[w].fresh)
           /\ EndsAndAges(w)
  <2>1. \A v \in Request : TreeRequestOK(v)'
    BY <1>1, <1>5, NoneFresh
  <2>2. parent'[d] = p /\ \A x \in Directory : x # d => parent'[x] = parent[x]
    BY <1>1, <1>5 DEF ShelvesTypeOK
  <2>3. ExistingOK'
    BY <1>1, <1>3, <2>2, ShelvesParts DEF ExistingOK, Exists
  <2>4. ASSUME ~raced' PROVE Forest'
    <3>1. Forest /\ request[w].fresh
      BY <1>5, <2>4, ShelvesParts
    <3> SUFFICES ASSUME NEW D \in SUBSET Directory, D # {}, \A x \in D : parent'[x] \in D
                 PROVE  FALSE
      BY DEF Forest, Cycle
    <3>2. CASE d \notin D
      BY <3>1, <3>2, <2>2 DEF Forest, Cycle
    \* The walk went from p up to the root: it left D, which it could not.
    <3>3. CASE d \in D /\ Asks(w, "move") /\ request[w].at = Root
      <4>1. WalkOK(w)
        BY <3>1, <3>3, <1>3 DEF TreeRequestOK
      <4>2. p \in D /\ AllBut(d, D)
        BY <3>3, <2>2 DEF AllBut
      <4>3. Root \in D
        BY <3>3, <4>1, <4>2 DEF WalkOK
      <4> QED BY <4>3
    <3>4. CASE Asks(w, "rename")
      <4>1. parent[d] = p
        BY <3>1, <3>4, <1>3 DEF TreeRequestOK
      <4>2. \A x \in D : parent[x] \in D
        BY <4>1, <2>2
      <4> QED BY <3>1, <4>2 DEF Forest, Cycle
    <3> QED BY <1>2, <3>2, <3>3, <3>4
  <2> QED BY <2>1, <2>3, <2>4, ShelvesAll
<1> QED BY <1>1, <1>4, <1>5 DEF Saved

LEMMA DropRowShelves ==
    ASSUME ShelvesTypeOK, ShelvesInv, RequestsOK, NEW w \in Request, DropRow(w)
    PROVE  ShelvesInv'
<1> USE LibraryNull
<1>1. UNCHANGED <<created, raced>>
  BY DEF DropRow
<1>2. CASE Ends(w) /\ UNCHANGED parent
  <2>1. ASSUME NEW v \in Request PROVE TreeRequestOK(v)'
    <3>1. CASE v = w
      BY <3>1, <1>2, OtherRequest DEF Ends, Asks, RequestsOK
    <3>2. CASE v # w
      BY <3>2, <1>2, <1>1, ShelvesParts, TreeRequestKept DEF Ends, RequestsOK
    <3> QED BY <3>1, <3>2
  <2> QED BY <2>1, <1>1, <1>2, ShelvesKept DEF shelves
<1>3. CASE parent' = [parent EXCEPT ![request[w].directory] = NULL] /\ EndsAndAges(w)
  <2>1. \A v \in Request : TreeRequestOK(v)'
    BY <1>1, <1>3, NoneFresh
  <2>2. \A x \in Directory : parent'[x] = NULL \/ parent'[x] = parent[x]
    BY <1>3 DEF ShelvesTypeOK
  <2>3. ExistingOK'
    BY <1>1, <2>2, ShelvesParts DEF ExistingOK, Exists
  <2>4. ASSUME Forest PROVE Forest'
    <3> SUFFICES ASSUME NEW D \in SUBSET Directory, D # {}, \A x \in D : parent'[x] \in D
                 PROVE  FALSE
      BY DEF Forest, Cycle
    <3>1. NULL \notin D
      OBVIOUS
    <3>2. \A x \in D : parent[x] \in D
      BY <3>1, <2>2
    <3> QED BY <3>2, <2>4 DEF Forest, Cycle
  <2>5. ~raced' => Forest'
    BY <1>1, <2>4, ShelvesParts
  <2> QED BY <2>1, <2>3, <2>5, ShelvesAll
<1> QED BY <1>2, <1>3 DEF DropRow

LEMMA ShelvesLibraryStep ==
    ASSUME ShelvesTypeOK, ShelvesInv, RequestsOK, Next
    PROVE  ShelvesInv'
\* A request that begins, ends or goes on in a tree that does not change
<1>one. ASSUME NEW w \in Request, UNCHANGED shelves, \A v \in Request : v # w => request'[v] = request[v],
               TreeRequestOK(w)'
        PROVE  ShelvesInv'
  <2>1. \A v \in Request : v # w => TreeRequestOK(v)'
    BY <1>one, ShelvesParts, TreeRequestKept DEF shelves
  <2> QED BY <2>1, <1>one, ShelvesKept
<1>1. ASSUME NEW w \in Request, UpdateSave(w) \/ Abandon(w)
      PROVE  ShelvesInv'
  BY <1>1, <1>one, OtherRequest DEF UpdateSave, Abandon, Ends, Asks, RequestsOK
<1>2. ASSUME NEW w \in Request, NEW d \in Directory, NEW p \in Directory \cup {Root}, MoveBegin(w, d, p)
      PROVE  ShelvesInv'
  <2>1. /\ Exists(d) /\ UNCHANGED shelves /\ \A v \in Request : v # w => request'[v] = request[v]
        /\ request'[w] = [op |-> "move", directory |-> d, to |-> p, at |-> p,
                          depth |-> 0, fresh |-> TRUE]
    BY <1>2 DEF MoveBegin, Begins, RequestsOK
  <2>2. d \in created
    BY <2>1, ShelvesParts DEF ExistingOK
  <2>3. WalkOK(w)'
    BY <2>1 DEF WalkOK, Exists, shelves
  <2>4. TreeRequestOK(w)'
    BY <2>1, <2>2, <2>3 DEF TreeRequestOK, Asks, shelves
  <2> QED BY <2>1, <2>4, <1>one
<1>3. ASSUME NEW w \in Request, NEW d \in Directory, RenameBegin(w, d)
      PROVE  ShelvesInv'
  <2>1. /\ Exists(d) /\ UNCHANGED shelves /\ \A v \in Request : v # w => request'[v] = request[v]
        /\ request'[w] = [op |-> "rename", directory |-> d, to |-> parent[d], fresh |-> TRUE]
    BY <1>3 DEF RenameBegin, Begins, RequestsOK
  <2>2. d \in created
    BY <2>1, ShelvesParts DEF ExistingOK
  <2>3. TreeRequestOK(w)'
    BY <2>1, <2>2 DEF TreeRequestOK, Asks, shelves
  <2> QED BY <2>1, <2>3, <1>one
<1>4. ASSUME NEW w \in Request,
             \/ \E r \in Roadmap, d \in Directory \cup {Root, NULL}, v \in BOOLEAN :
                  UpdateBegin(w, r, d, v)
             \/ \E d \in Directory : DropBegin(w, d)
      PROVE  ShelvesInv'
  <2>1. /\ UNCHANGED shelves /\ \A v \in Request : v # w => request'[v] = request[v]
        /\ request'[w].op \in {"update", "drop"}
    <3>1. UNCHANGED shelves
      BY <1>4 DEF UpdateBegin, DropBegin
    <3>2. \E op \in {"update", "drop"} : \E rec : Begins(w, op, rec) /\ rec.op = op
      <4>1. CASE \E r \in Roadmap, d \in Directory \cup {Root, NULL}, v \in BOOLEAN :
                   UpdateBegin(w, r, d, v)
        BY <4>1 DEF UpdateBegin
      <4>2. CASE \E d \in Directory : DropBegin(w, d)
        BY <4>2 DEF DropBegin
      <4> QED BY <1>4, <4>1, <4>2
    <3> QED BY <3>1, <3>2 DEF Begins, RequestsOK
  <2> QED BY <2>1, <1>one, OtherRequest DEF Asks
<1>5. ASSUME NEW w \in Request, DropDetach(w)
      PROVE  ShelvesInv'
  <2>1. request[w] \in DropRequest
    BY <1>5, RequestKinds DEF DropDetach, RequestsOK
  <2>2. /\ UNCHANGED shelves /\ \A v \in Request : v # w => request'[v] = request[v]
        /\ request'[w].op = "drop"
    BY <1>5, <2>1 DEF DropDetach, RequestsOK, DropRequest
  <2> QED BY <2>2, <1>one, OtherRequest DEF Asks
<1>6. ASSUME \/ \E r \in Roadmap, d \in Directory \cup {Root}, v \in BOOLEAN : Create(r, d, v)
             \/ \E u \in User, source, r \in Roadmap : Fork(u, source, r)
             \/ \E u \in User, r \in Roadmap : Like(u, r) \/ Unlike(u, r)
             \/ \E r \in Roadmap : Remove(r)
      PROVE  ShelvesInv'
  <2>1. UNCHANGED shelves /\ request' = request
    BY <1>6 DEF Create, Fork, Like, Unlike, Remove
  <2>2. \A v \in Request : TreeRequestOK(v)'
    BY <2>1, ShelvesParts, TreeRequestKept DEF shelves
  <2> QED BY <2>1, <2>2, ShelvesKept
<1> QED BY <1>1, <1>2, <1>3, <1>4, <1>5, <1>6, CreateDirectoryShelves, MoveWalkShelves, SavedShelves,
           DropRowShelves DEF Next

LEMMA ShelvesStep == ContentTypeInv /\ ShelvesInv /\ [ContentNext]_contentVars => ShelvesInv'
<1> SUFFICES ASSUME ContentTypeInv, ShelvesInv, [ContentNext]_contentVars
             PROVE  ShelvesInv'
  OBVIOUS
<1>ok. RequestsOK /\ ShelvesTypeOK /\ ContentTypeOK /\ CommentsOK
  BY LibraryTypeParts DEF ContentTypeInv, ContentTypeOK, RequestsOK
<1>1. CASE LibraryStep
  BY <1>1, <1>ok, ShelvesLibraryStep DEF LibraryStep
<1>2. ASSUME UNCHANGED shelves, Untouched(LibraryOps)
      PROVE  ShelvesInv'
  <2>1. ASSUME NEW w \in Request PROVE TreeRequestOK(w)'
    <3>1. CASE request'[w] = request[w]
      BY <3>1, <1>2, ShelvesParts, TreeRequestKept DEF shelves
    <3>2. CASE request'[w] # request[w]
      BY <3>2, <1>2, OtherRequest DEF Untouched, LibraryOps, Asks
    <3> QED BY <3>1, <3>2
  <2> QED BY <2>1, <1>2, ShelvesKept
<1>3. CASE UploadsNext \/ SocialNext
  BY <1>2, <1>3, <1>ok, LibraryKept, UploadRequests, SocialRequests DEF shelves, Untouched
<1>4. CASE UNCHANGED contentVars
  BY <1>2, <1>4 DEF contentVars, vars, shelves, Untouched
<1> QED BY <1>1, <1>3, <1>4 DEF ContentNext

LEMMA ShelvesInit == ContentInit => ShelvesInv
<1> SUFFICES ASSUME ContentInit PROVE ShelvesInv
  OBVIOUS
<1>1. /\ \A d \in Directory : parent[d] = NULL
      /\ \A w \in Request : request[w] = NULL
  BY DEF ContentInit, Init
<1>2. Forest
  BY <1>1, LibraryNull DEF Forest, Cycle
<1>3. ExistingOK /\ \A w \in Request : TreeRequestOK(w)
  BY <1>1 DEF ExistingOK, Exists, TreeRequestOK, Asks
<1> QED BY <1>2, <1>3, ShelvesParts

\* No directory is below itself: the walk of moveDirectory keeps the tree a tree,
\* however deep and wide it is, while no directory is saved from an old picture
\* of it.
THEOREM DirectoriesAreAForest == ContentSpec => []ForestUnlessRaced
<1>1. ShelvesInv => ForestUnlessRaced
  BY DEF ShelvesInv
<1> QED BY <1>1, ShelvesInit, ShelvesStep, ContentTypeInvariant, PTL DEF ContentSpec
=============================================================================
