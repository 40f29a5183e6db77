------------------------------- MODULE Social -------------------------------
(***************************************************************************)
(* social.service.ts: comments on roadmaps, follows, the notifications     *)
(* both make and the preferences that suppress them.                       *)
(*                                                                         *)
(* No handler has a transaction: each reads, writes and then notifies, and *)
(* may end in between.  A save brings all of the row back that was read    *)
(* before.  Texts and lists are left out.                                  *)
(***************************************************************************)
EXTENDS RoadmapLibrary

CONSTANTS
    Comment,
    Toggle        \* kinds of notification a user can switch off

CommentRow == [author : User, roadmap : Roadmap, parent : Comment \cup {NULL}, deleted : BOOLEAN]
Preference == [on : SUBSET Toggle]
\* What a notification is about: a new follow or a comment
Cause == {p \in User \X User : p[1] # p[2]} \cup Comment

CommentRequest == [op : {"comment"}, by : User, roadmap : Roadmap, parent : Comment \cup {NULL}]
EditRequest == [op : {"edit"}, comment : Comment, row : CommentRow]
EraseRequest == [op : {"erase"}, comment : Comment]
FollowRequest == [op : {"follow"}, by : User, about : User]
NotifyRequest == [op : {"notify"}, type : Toggle, cause : Cause, to : User]
PreferRequest == [op : {"prefer"}, user : User, read : Preference \cup {NULL},
                  toggle : Toggle, on : BOOLEAN]
SocialRequest == CommentRequest \cup EditRequest \cup EraseRequest \cup FollowRequest
                 \cup NotifyRequest \cup PreferRequest

ASSUME SocialConstants ==
    /\ NULL \notin CommentRow \cup Comment \cup Preference
    /\ {"follows", "comments", "replies"} \subseteq Toggle

VARIABLES
    comment,      \* [Comment -> CommentRow or NULL]
    follows,      \* pairs of follower and followee
    preference,   \* notification_preferences: [User -> Preference or NULL]
    told,         \* notifications: how many there are of a cause
    unread,       \* and how many of them have no readAt
    arisen,       \* history: how often a cause came about
    untold        \* history: how often its notification was suppressed or lost

social == <<comment, follows, preference, told, unread, arisen, untold>>
news == <<told, unread, arisen, untold>>

SocialInit ==
    /\ comment = [c \in Comment |-> NULL]
    /\ follows = {}
    /\ preference = [u \in User |-> NULL]
    /\ told = [k \in Cause |-> 0]
    /\ unread = [k \in Cause |-> 0]
    /\ arisen = [k \in Cause |-> 0]
    /\ untold = [k \in Cause |-> 0]

Asks(w, op) == request[w] # NULL /\ request[w].op = op

\* notify is what is left to do of a request.
Notifies(w, type, cause, recipient) ==
    request' = [request EXCEPT ![w] =
        [op |-> "notify", type |-> type, cause |-> cause, to |-> recipient]]

-----------------------------------------------------------------------------
(* Comments *)

\* createComment: the roadmap is public or one's own; a reply is to a comment
\* on it that is not deleted and no reply itself.
CommentBegin(w, u, r, p) ==
    /\ Readable(u, r)
    /\ p # NULL => /\ comment[p] # NULL
                   /\ comment[p].roadmap = r
                   /\ ~comment[p].deleted
                   /\ comment[p].parent = NULL
    /\ Begins(w, "comment", [op |-> "comment", by |-> u, roadmap |-> r, parent |-> p])
    /\ UNCHANGED <<library, social>>

Recipient(r, p) == IF p = NULL THEN Owner[r] ELSE comment[p].author

CommentInsert(w, c) ==
    /\ Asks(w, "comment")
    /\ comment[c] = NULL
    /\ LET u == request[w].by  r == request[w].roadmap  p == request[w].parent IN
       /\ comment' = [comment EXCEPT ![c] =
             [author |-> u, roadmap |-> r, parent |-> p, deleted |-> FALSE]]
       /\ IF Recipient(r, p) = u
          THEN Ends(w) /\ UNCHANGED arisen
          ELSE /\ Notifies(w, IF p = NULL THEN "comments" ELSE "replies", c, Recipient(r, p))
               /\ arisen' = [arisen EXCEPT ![c] = @ + 1]
    /\ UNCHANGED <<library, follows, preference, told, unread, untold, work>>

\* updateComment and deleteComment: the author's comment, not deleted
EditBegin(w, c) ==
    /\ comment[c] # NULL
    /\ ~comment[c].deleted
    /\ Begins(w, "edit", [op |-> "edit", comment |-> c, row |-> comment[c]])
    /\ UNCHANGED <<library, social>>

\* The save brings back a comment that was deleted after it was read.
EditSave(w) ==
    /\ Asks(w, "edit")
    /\ comment' = [comment EXCEPT ![request[w].comment] = request[w].row]
    /\ Ends(w)
    /\ UNCHANGED <<library, follows, preference, news, work>>

EraseBegin(w, c) ==
    /\ comment[c] # NULL
    /\ ~comment[c].deleted
    /\ Begins(w, "erase", [op |-> "erase", comment |-> c])
    /\ UNCHANGED <<library, social>>

EraseSave(w) ==
    /\ Asks(w, "erase")
    /\ comment' = [comment EXCEPT ![request[w].comment].deleted = TRUE]
    /\ Ends(w)
    /\ UNCHANGED <<library, follows, preference, news, work>>

-----------------------------------------------------------------------------
(* Follows *)

\* follow: one that exists is answered and nothing more.
FollowBegin(w, u, v) ==
    /\ u # v
    /\ <<u, v>> \notin follows
    /\ Begins(w, "follow", [op |-> "follow", by |-> u, about |-> v])
    /\ UNCHANGED <<library, social>>

\* An insert that leaves the existing row and goes on
OnConflictIgnore(u, v) == FALSE
Duplicate(u, v) == <<u, v>> \in follows

\* The unique index refuses a second row, and the request fails.  A cause is a
\* follow that was not there before.
FollowInsert(w) ==
    /\ Asks(w, "follow")
    /\ LET u == request[w].by  v == request[w].about IN
       IF Duplicate(u, v)
       THEN Ends(w) /\ UNCHANGED <<follows, arisen>>
       ELSE /\ follows' = follows \cup {<<u, v>>}
            /\ Notifies(w, "follows", <<u, v>>, v)
            /\ arisen' = IF <<u, v>> \in follows THEN arisen
                         ELSE [arisen EXCEPT ![<<u, v>>] = @ + 1]
    /\ UNCHANGED <<library, comment, preference, told, unread, untold, work>>

Unfollow(u, v) ==
    /\ Made("unfollow")
    /\ follows' = follows \ {<<u, v>>}
    /\ UNCHANGED <<library, request, comment, preference, news>>

-----------------------------------------------------------------------------
(* Notifications *)

Enabled(u, type) == preference[u] = NULL \/ type \in preference[u].on

\* notify
Notify(w) ==
    /\ Asks(w, "notify")
    /\ LET cause == request[w].cause IN
       IF Enabled(request[w].to, request[w].type)
       THEN /\ told' = [told EXCEPT ![cause] = @ + 1]
            /\ unread' = [unread EXCEPT ![cause] = @ + 1]
            /\ UNCHANGED untold
       ELSE /\ untold' = [untold EXCEPT ![cause] = @ + 1]
            /\ UNCHANGED <<told, unread>>
    /\ Ends(w)
    /\ UNCHANGED <<library, comment, follows, preference, arisen, work>>

\* markRead and markAllRead set a mark that nothing takes away.
MarkRead(k) ==
    /\ Made("read")
    /\ unread[k] > 0
    /\ unread' = [unread EXCEPT ![k] = @ - 1]
    /\ UNCHANGED <<library, request, comment, follows, preference, told, arisen, untold>>

Addressee(k) ==
    IF k \in Comment THEN Recipient(comment[k].roadmap, comment[k].parent) ELSE k[2]

MarkAllRead(u) ==
    /\ Made("read")
    /\ unread' = [k \in Cause |-> IF unread[k] > 0 /\ Addressee(k) = u THEN 0 ELSE unread[k]]
    /\ UNCHANGED <<library, request, comment, follows, preference, told, arisen, untold>>

\* updatePreferences: the row that was read is saved with what the request
\* changes; where there was none, only that is written.
PreferencesBegin(w, u, t, on) ==
    /\ t \in Toggle
    /\ Begins(w, "prefer", [op |-> "prefer", user |-> u, read |-> preference[u],
                            toggle |-> t, on |-> on])
    /\ UNCHANGED <<library, social>>

PreferencesSave(w) ==
    /\ Asks(w, "prefer")
    /\ LET u == request[w].user  t == request[w].toggle
           saved == IF request[w].read # NULL THEN request[w].read
                    ELSE IF preference[u] # NULL THEN preference[u] ELSE [on |-> Toggle]
       IN preference' = [preference EXCEPT ![u] =
            [on |-> IF request[w].on THEN saved.on \cup {t} ELSE saved.on \ {t}]]
    /\ Ends(w)
    /\ UNCHANGED <<library, comment, follows, news, work>>

\* Causes whose request ends in this step before it has notified
Unnotified(k) ==
    Cardinality({w \in Request : /\ Asks(w, "notify")
                                 /\ request[w].cause = k
                                 /\ request'[w] = NULL})

SocialNext ==
    \/ \E u, v \in User : Unfollow(u, v)
    \/ \E k \in Cause : MarkRead(k)
    \/ \E u \in User : MarkAllRead(u)
    \/ \E w \in Request :
        \/ \E u \in User, r \in Roadmap, p \in Comment \cup {NULL} : CommentBegin(w, u, r, p)
        \/ \E c \in Comment : CommentInsert(w, c) \/ EditBegin(w, c) \/ EraseBegin(w, c)
        \/ EditSave(w) \/ EraseSave(w)
        \/ \E u, v \in User : FollowBegin(w, u, v)
        \/ FollowInsert(w) \/ Notify(w)
        \/ \E u \in User, t \in Toggle, on \in BOOLEAN : PreferencesBegin(w, u, t, on)
        \/ PreferencesSave(w)

-----------------------------------------------------------------------------
(* Properties *)

\* Every comment of another and every new follow is notified once: however
\* often it is asked for in parallel, a cause that came about was told, is
\* about to be, or its notification was switched off or lost with its request.
EachIsToldOnce ==
    \A k \in Cause :
        arisen[k] = told[k] + untold[k]
                  + Cardinality({w \in Request : Asks(w, "notify") /\ request[w].cause = k})
=============================================================================
