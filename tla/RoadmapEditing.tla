--------------------------- MODULE RoadmapEditing ---------------------------
(***************************************************************************)
(* The title of one roadmap while its owner edits it in several documents: *)
(* the log of events of realtime.service.ts, the sockets of                *)
(* realtime.gateway.ts, the PATCH of roadmaps.service.ts, and in each      *)
(* document use-roadmap-loader.ts, use-auto-save.ts, use-realtime-sync.ts  *)
(* and realtime-client.ts.  Titles are all an editor sends as events.      *)
(*                                                                         *)
(* A document is opened once; reloading the page opens another one.  A     *)
(* socket is lost in two steps, the server's and the document's, in either *)
(* order: a page that is left notices first, a ping that times out or a    *)
(* suspended page is noticed by the server.  An answer comes back only on  *)
(* the socket of its request while both ends have it.  An event that is    *)
(* broadcast or replayed is applied as if it created a node (a title       *)
(* carries no id): the document then holds a graph the API refuses.        *)
(***************************************************************************)
EXTENDS Naturals, Sequences, FiniteSets

CONSTANTS
    Document,
    Title,
    NULL,
    Page,       \* events a read returns: 500 in the code
    Attempts,   \* emits of one edit: 3 in the code
    MaxEdit,    \* bound on the edits of all documents
    MaxSocket   \* bound on the sockets of all documents

Edit == 1..MaxEdit
Socket == 1..MaxSocket
Event == [edit : Edit, title : Title]

\* An edit on its way; a conflict is answered with a replay from its base, and
\* what was emitted or answered on a socket the server has lost is lost.
Publish == [document : Document, title : Title,
            stage : {"buffered", "emitted", "lost", "answered", "replaying", "counting",
                     "ok", "rejected"},
            base : Nat, attempt : 1..Attempts, socket : 0..MaxSocket,
            answer : {"none", "ok", "conflict", "refused"}, sequence : Nat, got : Nat]

Patch == [document : Document, title : Title, valid : BOOLEAN]

Tab == [open : BOOLEAN, title : Title \cup {NULL}, edited : BOOLEAN,
          saved : Title \cup {NULL}, broken : BOOLEAN,
          socket : 0..MaxSocket, refused : BOOLEAN,
          subscribed : BOOLEAN, sequence : Nat]

Join == [socket : Socket, sequence : Nat \cup {NULL}]

ASSUME EditingNull == NULL \notin Title \cup Nat \cup Publish \cup Patch \cup Join
ASSUME EditingConstants ==
    /\ Title # {}
    /\ Page \in Nat \ {0}
    /\ Attempts \in Nat \ {0}
    /\ MaxEdit \in Nat
    /\ MaxSocket \in Nat

VARIABLES
    stored,     \* the title in the roadmaps row
    log,        \* roadmap_events; roadmap_sequences counts them
    sockets,    \* sockets accepted so far
    active,     \* activeUsers of the gateway: the owner's socket, or 0
    room,       \* sockets in the roadmap's room
    doc,        \* [Document -> Tab]
    join,       \* [Document -> a join on its way, or NULL]
    publish,    \* [Edit -> Publish or NULL]
    patch,      \* [Edit -> Patch or NULL]
    edits       \* edits made so far

vars == <<stored, log, sockets, active, room, doc, join, publish, patch, edits>>
database == <<stored, log>>
gateway == <<sockets, active, room>>

Lesser(m, n) == IF m < n THEN m ELSE n
Greater(m, n) == IF m < n THEN n ELSE m

Loading == [open |-> FALSE, title |-> NULL, edited |-> FALSE, saved |-> NULL, broken |-> FALSE,
           socket |-> 0, refused |-> FALSE, subscribed |-> FALSE, sequence |-> 0]

Init ==
    /\ stored \in Title
    /\ log = <<>>
    /\ sockets = 0
    /\ active = 0
    /\ room = {}
    /\ doc = [d \in Document |-> Loading]
    /\ join = [d \in Document |-> NULL]
    /\ publish = [k \in Edit |-> NULL]
    /\ patch = [k \in Edit |-> NULL]
    /\ edits = 0

\* What the document believes
Connected(d) == doc[d].socket # 0

\* A packet on socket i reaches the server, or its handler's answer leaves it.
Carries(i, stage) == IF i = active THEN stage ELSE "lost"

-----------------------------------------------------------------------------
(* Loading and saving *)

\* loadRoadmapData and replayDomainEvents: the titles of the first page of the
\* log, the oldest one first, over the title of the row.
Load(d) ==
    LET n == Lesser(Len(log), Page) IN
    /\ ~doc[d].open
    /\ doc' = [doc EXCEPT ![d].open = TRUE,
                          ![d].title = IF n = 0 THEN stored ELSE log[n].title]
    /\ UNCHANGED <<database, gateway, join, publish, patch, edits>>

\* The debounced effect of useAutoSave, with the title that was loaded or with
\* one that was typed: unless it is the title last saved, it is sent as an
\* event, if there is a socket, and in a PATCH.
AutoSave(d, t) ==
    LET k == edits + 1 IN
    /\ doc[d].open
    /\ t # doc[d].title \/ ~doc[d].edited
    /\ doc' = [doc EXCEPT ![d].title = t, ![d].edited = TRUE]
    /\ IF t = doc[d].saved THEN UNCHANGED <<publish, patch, edits>>
       ELSE /\ edits < MaxEdit
            /\ edits' = k
            /\ patch' = [patch EXCEPT ![k] =
                  [document |-> d, title |-> t, valid |-> ~doc[d].broken]]
            /\ publish' = [publish EXCEPT ![k] =
                  IF ~Connected(d) THEN NULL
                  ELSE [document |-> d, title |-> t,
                        stage |-> Carries(doc[d].socket, "emitted"),
                        base |-> doc[d].sequence, attempt |-> 1, socket |-> doc[d].socket,
                        answer |-> "none", sequence |-> 0, got |-> 0]]
    /\ UNCHANGED <<database, gateway, join>>

\* update of roadmaps.service.ts, which refuses a node without id and position,
\* and its answer; PATCHes on their way overtake each other.
Patched(k) ==
    /\ patch[k] # NULL
    /\ patch' = [patch EXCEPT ![k] = NULL]
    /\ IF patch[k].valid
       THEN /\ stored' = patch[k].title
            /\ doc' = [doc EXCEPT ![patch[k].document].saved = patch[k].title]
       ELSE UNCHANGED <<stored, doc>>
    /\ UNCHANGED <<log, gateway, join, publish, edits>>

-----------------------------------------------------------------------------
(* Sockets *)

NeverTaken == FALSE
Taken == active # 0

\* handleConnection, and onConnect of the document.  A user with a socket gets
\* no second one, and a socket the server closed does not try again.
Connect(d) ==
    /\ ~doc[d].refused
    /\ ~Connected(d)
    /\ sockets < MaxSocket
    /\ IF Taken
       THEN /\ doc' = [doc EXCEPT ![d].refused = TRUE]
            /\ UNCHANGED <<sockets, active, join>>
       ELSE /\ sockets' = sockets + 1
            /\ active' = sockets'
            /\ doc' = [doc EXCEPT ![d].socket = sockets']
            /\ join' = [join EXCEPT ![d] = [socket |-> sockets', sequence |-> NULL]]
    /\ UNCHANGED <<database, room, publish, patch, edits>>

\* The handler of roadmap:join: the sequence first, the room afterwards
JoinReads(d) ==
    /\ join[d] # NULL
    /\ join[d].sequence = NULL
    /\ join' = [join EXCEPT ![d].sequence = Len(log)]
    /\ UNCHANGED <<database, gateway, doc, publish, patch, edits>>

NotAwaited(d) == TRUE
Awaited(d) == join[d].sequence # NULL

\* The room, the answer, and the subscription of the document: a socket the
\* server has lost joins no room and carries no answer.
Joined(d) ==
    /\ join[d] # NULL
    /\ Awaited(d)
    /\ room' = IF active = join[d].socket THEN room \cup {join[d].socket} ELSE room
    /\ doc' = IF active = join[d].socket /\ join[d].socket = doc[d].socket
              THEN [doc EXCEPT ![d].sequence = join[d].sequence, ![d].subscribed = TRUE]
              ELSE doc
    /\ join' = [join EXCEPT ![d] = NULL]
    /\ UNCHANGED <<database, sockets, active, publish, patch, edits>>

\* The document notices that it has lost its socket.
Disconnect(d) ==
    /\ Connected(d)
    /\ doc' = [doc EXCEPT ![d].socket = 0, ![d].subscribed = FALSE]
    /\ UNCHANGED <<database, gateway, join, publish, patch, edits>>

\* The server loses the socket, whatever its document believes: socket.io takes
\* it out of its rooms, and handleDisconnect frees the user's slot.
Noticed ==
    /\ Taken
    /\ active' = 0
    /\ room' = room \ {active}
    /\ UNCHANGED <<database, sockets, doc, join, publish, patch, edits>>

-----------------------------------------------------------------------------
(* Edits *)

StoresAlways(k) == TRUE
Stores(k) == publish[k].base = Len(log)

\* Documents an event of k is broadcast to
Receives(d, k) ==
    /\ doc[d].subscribed
    /\ doc[d].socket \in room
    /\ doc[d].socket # publish[k].socket

\* append, from the duplicate look-up to the commit under the lock of the
\* sequence, and the broadcast.
AppendEdit(k) ==
    /\ publish[k] # NULL
    /\ publish[k].stage = "emitted"
    /\ LET n == Len(log)
           earlier == {i \in 1..n : log[i].edit = k}
           fits == publish[k].base = n
           answer(a, s) ==
               [publish EXCEPT ![k].stage = Carries(publish[k].socket, "answered"),
                               ![k].answer = a, ![k].sequence = s] IN
       IF earlier # {}
       THEN /\ \E i \in earlier : publish' = answer("ok", i)
            /\ UNCHANGED <<database, doc>>
       ELSE /\ publish' = IF fits THEN answer("ok", n + 1) ELSE answer("conflict", n)
            /\ IF Stores(k)
               THEN /\ log' = Append(log, [edit |-> k, title |-> publish[k].title])
                    /\ stored' = publish[k].title
                    /\ doc' = [d \in Document |->
                          IF Receives(d, k)
                          THEN [doc[d] EXCEPT !.broken = TRUE,
                                              !.sequence = Greater(@, n + 1)]
                          ELSE doc[d]]
               ELSE UNCHANGED <<database, doc>>
    /\ UNCHANGED <<gateway, join, patch, edits>>

\* The edit is refused: the access, the operation or the database.
AppendRefused(k) ==
    /\ publish[k] # NULL
    /\ publish[k].stage = "emitted"
    /\ publish' = [publish EXCEPT ![k].stage = Carries(publish[k].socket, "answered"),
                                  ![k].answer = "refused"]
    /\ UNCHANGED <<database, gateway, doc, join, patch, edits>>

\* An edit nobody has to do with any more
Settled(p, stage) ==
    [document |-> p.document, title |-> p.title, stage |-> stage, base |-> 0, attempt |-> 1,
     socket |-> 0, answer |-> "none", sequence |-> 0, got |-> 0]

\* The answer, on the socket of the request
Answered(k) ==
    LET p == publish[k] IN
    /\ p # NULL
    /\ p.stage = "answered"
    /\ doc[p.document].socket = p.socket
    /\ publish' = [publish EXCEPT ![k] =
                      CASE p.answer = "ok" -> Settled(p, "ok")
                        [] p.answer = "refused" -> Settled(p, "rejected")
                        [] p.answer = "conflict" -> [p EXCEPT !.stage = "replaying"]]
    /\ doc' = IF p.answer = "ok" THEN [doc EXCEPT ![p.document].sequence = p.sequence] ELSE doc
    /\ UNCHANGED <<database, gateway, join, patch, edits>>

\* replayMissedEvents: a page of events, delivered to the document if it has
\* subscribed, and then the sequence the answer ends with.
ReplayPage(k) ==
    LET p == publish[k]
        last == Lesser(Len(log), p.base + Page)
        d == p.document IN
    /\ p # NULL
    /\ p.stage = "replaying"
    /\ publish' = [publish EXCEPT ![k].stage = "counting", ![k].base = last,
                                  ![k].got = last - p.base]
    /\ doc' = IF doc[d].subscribed /\ last > p.base
              THEN [doc EXCEPT ![d].broken = TRUE, ![d].sequence = Greater(@, last)]
              ELSE doc
    /\ UNCHANGED <<database, gateway, join, patch, edits>>

\* Another emit, after the events that were replayed
Retried(p) ==
    IF p.attempt < Attempts THEN [p EXCEPT !.stage = "buffered", !.attempt = @ + 1]
    ELSE Settled(p, "rejected")

\* Complete, incomplete because an event was committed between, or another page
ReplayCount(k) ==
    LET p == publish[k] IN
    /\ p # NULL
    /\ p.stage = "counting"
    /\ IF p.base = Len(log)
       THEN /\ publish' = [publish EXCEPT ![k] = Retried(p)]
            /\ doc' = [doc EXCEPT ![p.document].sequence = p.base]
       ELSE /\ publish' = [publish EXCEPT ![k] =
                              IF p.got = 0 THEN Settled(p, "rejected")
                              ELSE [p EXCEPT !.stage = "replaying"]]
            /\ UNCHANGED doc
    /\ UNCHANGED <<database, gateway, join, patch, edits>>

\* The read of the events fails.
ReplayFails(k) ==
    /\ publish[k] # NULL
    /\ publish[k].stage \in {"replaying", "counting"}
    /\ publish' = [publish EXCEPT ![k] = Settled(publish[k], "rejected")]
    /\ UNCHANGED <<database, gateway, doc, join, patch, edits>>

\* Emitted again, at once or when there is a socket again
Emit(k) ==
    LET p == publish[k] IN
    /\ p # NULL
    /\ p.stage = "buffered"
    /\ Connected(p.document)
    /\ publish' = [publish EXCEPT ![k].stage = Carries(doc[p.document].socket, "emitted"),
                                  ![k].answer = "none",
                                  ![k].socket = doc[p.document].socket]
    /\ UNCHANGED <<database, gateway, doc, join, patch, edits>>

EditStep(k) ==
    \/ AppendEdit(k) \/ AppendRefused(k) \/ Answered(k)
    \/ ReplayPage(k) \/ ReplayCount(k) \/ ReplayFails(k) \/ Emit(k)

Next ==
    \/ \E d \in Document :
        \/ Load(d)
        \/ \E t \in Title : AutoSave(d, t)
        \/ Connect(d) \/ JoinReads(d) \/ Joined(d) \/ Disconnect(d)
    \/ Noticed
    \/ \E k \in Edit : Patched(k) \/ EditStep(k)

Spec == Init /\ [][Next]_vars

-----------------------------------------------------------------------------
(* Properties *)

EditingTypeOK ==
    /\ stored \in Title
    /\ log \in Seq(Event)
    /\ sockets \in 0..MaxSocket
    /\ active \in 0..sockets
    /\ room \subseteq Socket
    /\ doc \in [Document -> Tab]
    /\ join \in [Document -> Join \cup {NULL}]
    /\ publish \in [Edit -> Publish \cup {NULL}]
    /\ patch \in [Edit -> Patch \cup {NULL}]
    /\ edits \in 0..MaxEdit

\* However often it was sent, an edit is in the log at most once; what its
\* document was told of it is true: accepted is in the log, rejected is not.
AnswersAreTrue ==
    \A k \in Edit :
        LET places == {i \in 1..Len(log) : log[i].edit = k} IN
        /\ Cardinality(places) <= 1
        /\ publish[k] # NULL =>
            /\ publish[k].stage = "ok" => places # {}
            /\ publish[k].stage = "rejected" => places = {}

\* The room never holds two documents of the owner, though a socket may be lost
\* by either side before the other: not when a document connects while another
\* still believes to be connected, nor when the join of a socket the server has
\* lost ends after another socket joined.
OneEditor == Cardinality(room) <= 1

\* A document goes on holding a graph the API accepts, whatever events reach it.
GraphStaysValid == \A d \in Document : ~doc[d].broken
=============================================================================
