--------------------------- MODULE RoadmapContent ---------------------------
(***************************************************************************)
(* The roadmaps with what users attach to them: uploads and comments.      *)
(* Requests of all three share the processes of the API, and one that is   *)
(* abandoned leaves behind what it has done.                               *)
(***************************************************************************)
EXTENDS Uploads, Social

ContentRequest == LibraryRequest \cup UploadRequest \cup SocialRequest

ASSUME RequestNull == NULL \notin ContentRequest

contentVars == <<vars, uploads, social>>

ContentInit == Init /\ UploadsInit /\ SocialInit

\* A step of roadmaps.service, or a request given up: with it goes the rest of
\* a removal and a notification that was to be written.
LibraryStep ==
    /\ Next
    /\ interrupted' = interrupted \cup GivesUpHalfWay
    /\ untold' = [k \in Cause |-> untold[k] + Unnotified(k)]
    /\ UNCHANGED <<asset, object, taken, reinserted>>
    /\ UNCHANGED <<comment, follows, preference, told, unread, arisen>>

ContentNext ==
    \/ LibraryStep
    \/ UploadsNext /\ UNCHANGED social
    \/ SocialNext /\ UNCHANGED uploads

ContentSpec == ContentInit /\ [][ContentNext]_contentVars

-----------------------------------------------------------------------------
(* Properties *)

\* The types of all rows.  A comment is on a roadmap that exists, and a reply is
\* to a comment of the same roadmap that is no reply, whatever is deleted.
ContentTypeOK ==
    /\ LibraryTypeOK
    /\ request \in [Request -> ContentRequest \cup {NULL}]
    /\ asset \in [Asset -> Upload \cup {NULL}]
    /\ object \in [Asset -> Object \cup {NULL}]
    /\ comment \in [Comment -> CommentRow \cup {NULL}]
    /\ \A c \in Comment : comment[c] # NULL =>
        LET p == comment[c].parent IN
        /\ roadmap[comment[c].roadmap] # NULL
        /\ p # NULL => /\ comment[p] # NULL
                       /\ comment[p].parent = NULL
                       /\ comment[p].roadmap = comment[c].roadmap
    /\ follows \subseteq User \X User
    /\ \A u \in User : <<u, u>> \notin follows
    /\ preference \in [User -> Preference \cup {NULL}]
    /\ told \in [Cause -> Nat]
    /\ \A k \in Cause : unread[k] \in 0..told[k]
=============================================================================
