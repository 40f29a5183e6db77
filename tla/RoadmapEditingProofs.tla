------------------------ MODULE RoadmapEditingProofs ------------------------
(* Theorems about RoadmapEditing, for every value of its constants. *)
EXTENDS RoadmapEditing, FiniteSetTheorems, TLAPS

-----------------------------------------------------------------------------
(* The room *)

\* The room holds the socket the gateway has counted, or none.
RoomInv ==
    /\ sockets \in Nat
    /\ active \in Nat
    /\ room \subseteq {active} \ {0}
    /\ \A d \in Document : join[d] # NULL => join[d].socket \in Nat \ {0}
    /\ join = [d \in Document |-> join[d]]

LEMMA RoomInit == Init => RoomInv
BY DEF Init, RoomInv

LEMMA RoomStep == RoomInv /\ [Next]_vars => RoomInv'
<1> SUFFICES ASSUME RoomInv, [Next]_vars PROVE RoomInv'
  OBVIOUS
<1> USE DEF database, gateway
<1>1. ASSUME NEW d \in Document, Connect(d) PROVE RoomInv'
  <2>1. CASE Taken
    BY <1>1, <2>1 DEF Connect, RoomInv
  <2>2. CASE ~Taken
    <3>1. /\ sockets' = sockets + 1 /\ active' = sockets + 1 /\ active = 0 /\ room' = room
          /\ join' = [join EXCEPT ![d] = [socket |-> sockets + 1, sequence |-> NULL]]
      BY <1>1, <2>2 DEF Connect, Taken
    <3>2. room = {}
      BY <3>1 DEF RoomInv
    <3>3. \A e \in Document : join'[e] # NULL => join'[e].socket \in Nat \ {0}
      BY <3>1 DEF RoomInv
    <3>4. QED
      BY <3>1, <3>2, <3>3 DEF RoomInv
  <2>3. QED
    BY <2>1, <2>2
<1>2. ASSUME NEW d \in Document, JoinReads(d) PROVE RoomInv'
  <2>1. /\ UNCHANGED gateway /\ join[d] # NULL
        /\ join' = [join EXCEPT ![d] = [join[d] EXCEPT !.sequence = Len(log)]]
    BY <1>2 DEF JoinReads
  <2>2. QED
    BY <2>1 DEF RoomInv
<1>3. ASSUME NEW d \in Document, Joined(d) PROVE RoomInv'
  BY <1>3 DEF Joined, RoomInv
<1>4. CASE Noticed
  BY <1>4 DEF Noticed, RoomInv
<1>5. CASE UNCHANGED <<gateway, join>>
  BY <1>5 DEF RoomInv
<1>6. QED
  BY <1>1, <1>2, <1>3, <1>4, <1>5
  DEF Next, Load, AutoSave, Patched, Disconnect, EditStep, AppendEdit, AppendRefused, Answered,
      ReplayPage, ReplayCount, ReplayFails, Emit, vars

\* The room never holds two documents of the owner, whatever sockets are lost,
\* by either side first, joined and accepted in between.
THEOREM OneEditorCorrect == Spec => []OneEditor
<1>1. RoomInv => OneEditor
  <2> SUFFICES ASSUME RoomInv PROVE Cardinality(room) <= 1
    BY DEF OneEditor
  <2>1. room = {} \/ room = {active}
    BY DEF RoomInv
  <2>2. Cardinality({}) = 0 /\ Cardinality({active}) = 1
    BY FS_EmptySet, FS_Singleton
  <2>3. QED
    BY <2>1, <2>2
<1>2. QED
  BY <1>1, RoomInit, RoomStep, PTL DEF Spec

-----------------------------------------------------------------------------
(* Types *)

\* What an edit knows of the log is in the log.
Fits(p) ==
    /\ p.base <= Len(log)
    /\ p.sequence <= Len(log)
    /\ p.stage = "answered" => p.answer # "none"

TypeInv ==
    /\ EditingTypeOK
    /\ \A d \in Document :
        /\ doc[d].sequence <= Len(log)
        /\ join[d] # NULL /\ join[d].sequence # NULL => join[d].sequence <= Len(log)
    /\ \A k \in Edit : publish[k] # NULL => Fits(publish[k])

LEMMA TypeInit == Init => TypeInv
<1> SUFFICES ASSUME Init PROVE TypeInv
  OBVIOUS
<1>1. Loading \in Tab /\ Loading.sequence = 0
  BY EditingConstants DEF Loading, Tab
<1>2. log = <<>> /\ log \in Seq(Event) /\ Len(log) = 0
  BY DEF Init
<1>3. doc \in [Document -> Tab] /\ \A d \in Document : doc[d].sequence = 0
  BY <1>1 DEF Init
<1>4. /\ join \in [Document -> Join \cup {NULL}] /\ \A d \in Document : join[d] = NULL
      /\ publish \in [Edit -> Publish \cup {NULL}] /\ \A k \in Edit : publish[k] = NULL
      /\ patch \in [Edit -> Patch \cup {NULL}]
  BY DEF Init
<1>5. /\ sockets \in 0..MaxSocket /\ active \in 0..sockets /\ edits \in 0..MaxEdit
      /\ room \subseteq Socket /\ stored \in Title
  BY EditingConstants DEF Init
<1>6. QED
  BY <1>2, <1>3, <1>4, <1>5 DEF TypeInv, EditingTypeOK

LEMMA LogOf ==
    ASSUME TypeInv
    PROVE  /\ log \in Seq(Event) /\ Len(log) \in Nat
           /\ \A n \in 1..Len(log) : log[n].title \in Title /\ log[n].edit \in Edit
           /\ NULL \notin Title /\ NULL \notin Nat /\ NULL \notin Publish
           /\ NULL \notin Join
<1>1. log \in Seq(Event)
  BY DEF TypeInv, EditingTypeOK
<1>2. \A n \in 1..Len(log) : log[n] \in Event
  BY <1>1
<1>3. QED
  BY <1>1, <1>2, EditingNull DEF Event

\* One edit changes, and the log at most grows.
LEMMA PublishChanges ==
    ASSUME TypeInv, NEW k \in Edit, NEW q \in Publish \cup {NULL},
           publish' = [publish EXCEPT ![k] = q],
           log' \in Seq(Event), Len(log') >= Len(log),
           q # NULL => Fits(q)'
    PROVE  /\ publish' \in [Edit -> Publish \cup {NULL}]
           /\ \A j \in Edit : publish'[j] # NULL => Fits(publish[j])'
<1>0. publish \in [Edit -> Publish \cup {NULL}] /\ Len(log) \in Nat /\ Len(log') \in Nat
  BY LogOf DEF TypeInv, EditingTypeOK
<1>1. publish' \in [Edit -> Publish \cup {NULL}]
  BY <1>0
<1>2. ASSUME NEW j \in Edit, publish'[j] # NULL PROVE Fits(publish[j])'
  <2>1. CASE j = k
    BY <1>0, <1>2, <2>1 DEF Fits
  <2>2. CASE j # k
    <3>1. publish'[j] = publish[j] /\ publish[j] \in Publish /\ Fits(publish[j])
      BY <1>0, <1>2, <2>2 DEF TypeInv
    <3>2. publish[j].base \in Nat /\ publish[j].sequence \in Nat
      BY <3>1 DEF Publish
    <3>3. QED
      BY <1>0, <3>1, <3>2 DEF Fits
  <2>3. QED
    BY <2>1, <2>2
<1>3. QED
  BY <1>1, <1>2

LEMMA DocChanges ==
    ASSUME TypeInv, NEW d \in Document, NEW t \in Tab,
           doc' = [doc EXCEPT ![d] = t],
           log' \in Seq(Event), Len(log') >= Len(log), t.sequence <= Len(log')
    PROVE  /\ doc' \in [Document -> Tab]
           /\ \A e \in Document : doc'[e].sequence <= Len(log')
<1>0. /\ doc \in [Document -> Tab] /\ Len(log) \in Nat /\ Len(log') \in Nat
      /\ \A e \in Document : doc[e].sequence \in Nat /\ doc[e].sequence <= Len(log)
  BY LogOf DEF TypeInv, EditingTypeOK, Tab
<1>1. QED
  BY <1>0

LEMMA EditRecord ==
    ASSUME TypeInv, NEW k \in Edit, publish[k] # NULL
    PROVE  publish[k] \in Publish /\ Fits(publish[k])
BY DEF TypeInv, EditingTypeOK

LEMMA SettledType ==
    ASSUME NEW p \in Publish, NEW stage \in {"ok", "rejected"}
    PROVE  Settled(p, stage) \in Publish /\ Settled(p, stage).base = 0
           /\ Settled(p, stage).sequence = 0 /\ Settled(p, stage).stage = stage
<1>1. 1 \in 1..Attempts /\ 0 \in 0..MaxSocket /\ 0 \in Nat
  BY EditingConstants
<1>2. p.document \in Document /\ p.title \in Title
  BY DEF Publish
<1>3. QED
  BY <1>1, <1>2 DEF Settled, Publish

\* What a step leaves alone stays typed.
LEMMA RestStays ==
    ASSUME TypeInv, UNCHANGED log
    PROVE  /\ UNCHANGED doc => doc' \in [Document -> Tab]
                               /\ \A d \in Document : doc'[d].sequence <= Len(log')
           /\ UNCHANGED join => join' \in [Document -> Join \cup {NULL}]
                                /\ \A d \in Document : join'[d] # NULL /\ join'[d].sequence # NULL
                                      => join'[d].sequence <= Len(log')
           /\ UNCHANGED publish => publish' \in [Edit -> Publish \cup {NULL}]
                                   /\ \A k \in Edit : publish'[k] # NULL => Fits(publish[k])'
BY DEF TypeInv, EditingTypeOK, Fits

LEMMA CarriesOrLoses ==
    ASSUME NEW i, NEW stage
    PROVE  Carries(i, stage) \in {stage, "lost"}
BY DEF Carries

LEMMA TypeStep == TypeInv /\ [Next]_vars => TypeInv'
<1> SUFFICES ASSUME TypeInv, [Next]_vars PROVE TypeInv'
  OBVIOUS
<1> USE DEF database, gateway
<1>0. EditingTypeOK /\ EditingTypeOK /\ Len(log) \in Nat
  BY LogOf DEF TypeInv
<1> DEFINE
      DocOK == /\ doc' \in [Document -> Tab]
               /\ \A d \in Document : doc'[d].sequence <= Len(log')
      JoinOK == /\ join' \in [Document -> Join \cup {NULL}]
                /\ \A d \in Document :
                     join'[d] # NULL /\ join'[d].sequence # NULL => join'[d].sequence <= Len(log')
      PublishOK == /\ publish' \in [Edit -> Publish \cup {NULL}]
                   /\ \A k \in Edit : publish'[k] # NULL => Fits(publish[k])'
      RestOK == /\ stored' \in Title
                /\ log' \in Seq(Event)
                /\ sockets' \in 0..MaxSocket
                /\ active' \in 0..sockets'
                /\ room' \subseteq Socket
                /\ patch' \in [Edit -> Patch \cup {NULL}]
                /\ edits' \in 0..MaxEdit
<1>1. ASSUME DocOK, JoinOK, PublishOK, RestOK PROVE TypeInv'
  BY <1>1 DEF TypeInv, EditingTypeOK
<1> HIDE DEF DocOK, JoinOK, PublishOK, RestOK
<1>2. /\ UNCHANGED log /\ UNCHANGED doc => DocOK
      /\ UNCHANGED log /\ UNCHANGED join => JoinOK
      /\ UNCHANGED log /\ UNCHANGED publish => PublishOK
  BY RestStays DEF DocOK, JoinOK, PublishOK
<1>3. UNCHANGED <<database, gateway, patch, edits>> => RestOK
  BY <1>0 DEF RestOK, EditingTypeOK
<1>4. ASSUME NEW d \in Document, NEW t \in Tab, doc' = [doc EXCEPT ![d] = t],
             UNCHANGED log, t.sequence <= Len(log)
      PROVE  DocOK
  <2>1. log' \in Seq(Event) /\ Len(log') >= Len(log) /\ t.sequence <= Len(log')
    <3>1. log' = log
      BY <1>4
    <3>2. QED
      BY <1>0, <1>4, <3>1, LogOf
  <2>2. QED
    BY <1>4, <2>1, DocChanges DEF DocOK
<1>5. ASSUME NEW k \in Edit, NEW q \in Publish \cup {NULL}, publish' = [publish EXCEPT ![k] = q],
             UNCHANGED log, q # NULL => Fits(q)
      PROVE  PublishOK
  <2>1. q # NULL => Fits(q)'
    BY <1>5 DEF Fits
  <2>2. log' \in Seq(Event) /\ Len(log') >= Len(log)
    <3>1. log' = log
      BY <1>5
    <3>2. QED
      BY <1>0, <3>1, LogOf
  <2>3. QED
    BY <1>5, <2>1, <2>2, PublishChanges DEF PublishOK
<1>6. \A d \in Document : doc[d] \in Tab /\ doc[d].sequence \in Nat /\ doc[d].sequence <= Len(log)
  BY <1>0 DEF TypeInv, EditingTypeOK, Tab
<1>7. ASSUME NEW d \in Document, Load(d) PROVE TypeInv'
  <2> DEFINE n == Lesser(Len(log), Page)
             t == [doc[d] EXCEPT !.open = TRUE, !.title = IF n = 0 THEN stored ELSE log[n].title]
  <2>1. n = 0 \/ n \in 1..Len(log)
    BY <1>0, EditingConstants DEF Lesser
  <2>2. (IF n = 0 THEN stored ELSE log[n].title) \in Title
    BY <1>0, <2>1, LogOf DEF EditingTypeOK
  <2> HIDE DEF n
  <2>3. t \in Tab /\ t.sequence = doc[d].sequence
    BY <1>6, <2>2 DEF Tab
  <2>4. doc' = [doc EXCEPT ![d] = t] /\ UNCHANGED <<database, gateway, join, publish, patch, edits>>
    BY <1>7 DEF Load, n
  <2> HIDE DEF t
  <2>5. DocOK
    BY <1>4, <1>6, <2>3, <2>4
  <2>6. QED
    BY <1>1, <1>2, <1>3, <2>4, <2>5
<1>8. ASSUME NEW d \in Document, NEW t \in Title, AutoSave(d, t) PROVE TypeInv'
  <2> DEFINE tab == [doc[d] EXCEPT !.title = t, !.edited = TRUE]
             p == [document |-> d, title |-> t, stage |-> Carries(doc[d].socket, "emitted"),
                   base |-> doc[d].sequence, attempt |-> 1, socket |-> doc[d].socket,
                   answer |-> "none", sequence |-> 0, got |-> 0]
             r == [document |-> d, title |-> t, valid |-> ~doc[d].broken]
             k == edits + 1
  <2>1. tab \in Tab /\ tab.sequence = doc[d].sequence
    BY <1>6 DEF Tab
  <2>2. p \in Publish /\ Fits(p)
    BY <1>0, <1>6, EditingConstants, CarriesOrLoses DEF Publish, Fits, Tab
  <2>3. r \in Patch
    BY <1>6 DEF Patch, Tab
  <2>4. doc' = [doc EXCEPT ![d] = tab] /\ UNCHANGED <<database, gateway, join>>
    BY <1>8 DEF AutoSave
  <2>5. \/ UNCHANGED <<publish, patch, edits>>
        \/ /\ edits < MaxEdit /\ edits' = k /\ patch' = [patch EXCEPT ![k] = r]
           /\ publish' = [publish EXCEPT ![k] = NULL] \/ publish' = [publish EXCEPT ![k] = p]
    BY <1>8 DEF AutoSave
  <2>6. edits < MaxEdit => k \in Edit /\ k \in 0..MaxEdit
    BY <1>0, EditingConstants DEF EditingTypeOK, Edit
  <2> HIDE DEF tab, p, r, k
  <2>7. DocOK
    BY <1>4, <1>6, <2>1, <2>4
  <2>8. PublishOK
    BY <1>2, <1>5, <2>2, <2>4, <2>5, <2>6
  <2>9. RestOK
    BY <1>0, <2>3, <2>4, <2>5, <2>6 DEF RestOK, EditingTypeOK
  <2>10. QED
    BY <1>1, <1>2, <2>4, <2>7, <2>8, <2>9
<1>9. ASSUME NEW k \in Edit, Patched(k) PROVE TypeInv'
  <2>1. patch[k] \in Patch
    BY <1>0, <1>9 DEF Patched, EditingTypeOK
  <2> DEFINE d == patch[k].document
             tab == [doc[d] EXCEPT !.saved = patch[k].title]
  <2>2. d \in Document /\ patch[k].title \in Title
    BY <2>1 DEF Patch
  <2>3. tab \in Tab /\ tab.sequence = doc[d].sequence
    BY <1>6, <2>2 DEF Tab
  <2>4. /\ patch' = [patch EXCEPT ![k] = NULL]
        /\ UNCHANGED <<log, gateway, join, publish, edits>>
        /\ \/ UNCHANGED <<stored, doc>>
           \/ stored' = patch[k].title /\ doc' = [doc EXCEPT ![d] = tab]
    BY <1>9 DEF Patched
  <2>5. DocOK
    BY <1>2, <1>4, <1>6, <2>2, <2>3, <2>4
  <2>6. RestOK
    BY <1>0, <2>2, <2>4 DEF RestOK, EditingTypeOK
  <2>7. QED
    BY <1>1, <1>2, <2>4, <2>5, <2>6
<1>10. ASSUME NEW d \in Document, Connect(d) PROVE TypeInv'
  <2>1. CASE Taken
    <3> DEFINE tab == [doc[d] EXCEPT !.refused = TRUE]
    <3>1. tab \in Tab /\ tab.sequence = doc[d].sequence
      BY <1>6 DEF Tab
    <3>2. /\ doc' = [doc EXCEPT ![d] = tab]
          /\ UNCHANGED <<database, gateway, join, publish, patch, edits>>
      BY <1>10, <2>1 DEF Connect
    <3>3. DocOK
      BY <1>4, <1>6, <3>1, <3>2
    <3>4. QED
      BY <1>1, <1>2, <1>3, <3>2, <3>3
  <2>2. CASE ~Taken
    <3> DEFINE n == sockets + 1
               tab == [doc[d] EXCEPT !.socket = n]
               j == [socket |-> n, sequence |-> NULL]
    <3>1. n \in Socket /\ n \in 0..MaxSocket /\ n \in 0..n
      BY <1>0, <1>10, EditingConstants DEF Connect, EditingTypeOK, Socket
    <3>2. tab \in Tab /\ tab.sequence = doc[d].sequence /\ j \in Join
      BY <1>6, <3>1 DEF Tab, Join
    <3>3. /\ doc' = [doc EXCEPT ![d] = tab] /\ join' = [join EXCEPT ![d] = j]
          /\ sockets' = n /\ active' = n
          /\ UNCHANGED <<database, room, publish, patch, edits>>
      BY <1>10, <2>2 DEF Connect
    <3>4. j.sequence = NULL
      OBVIOUS
    <3> HIDE DEF tab, j, n
    <3>5. DocOK
      BY <1>4, <1>6, <3>2, <3>3
    <3>6. JoinOK
      BY <1>0, <3>2, <3>3, <3>4 DEF JoinOK, EditingTypeOK, TypeInv
    <3>7. RestOK
      BY <1>0, <3>1, <3>3 DEF RestOK, EditingTypeOK
    <3>8. QED
      BY <1>1, <1>2, <3>3, <3>5, <3>6, <3>7
  <2>3. QED
    BY <2>1, <2>2
<1>11. ASSUME NEW d \in Document, JoinReads(d) PROVE TypeInv'
  <2>1. join[d] \in Join
    BY <1>0, <1>11 DEF JoinReads, EditingTypeOK
  <2> DEFINE j == [join[d] EXCEPT !.sequence = Len(log)]
  <2>2. j \in Join /\ j.sequence = Len(log)
    BY <1>0, <2>1 DEF Join
  <2>3. join' = [join EXCEPT ![d] = j] /\ UNCHANGED <<database, gateway, doc, publish, patch, edits>>
    BY <1>11 DEF JoinReads
  <2> HIDE DEF j
  <2>4. JoinOK
    BY <1>0, <2>2, <2>3 DEF JoinOK, EditingTypeOK, TypeInv
  <2>5. QED
    BY <1>1, <1>2, <1>3, <2>3, <2>4
<1>12. ASSUME NEW d \in Document, Joined(d) PROVE TypeInv'
  <2>1. join[d] \in Join /\ join[d].sequence # NULL
    BY <1>0, <1>12 DEF Joined, Awaited, EditingTypeOK
  <2>2. /\ join[d].socket \in Socket /\ join[d].sequence \in Nat /\ join[d].sequence <= Len(log)
    BY <1>0, <2>1, LogOf DEF Join, TypeInv
  <2> DEFINE tab == [doc[d] EXCEPT !.sequence = join[d].sequence, !.subscribed = TRUE]
  <2>3. tab \in Tab /\ tab.sequence = join[d].sequence
    BY <1>6, <2>2 DEF Tab
  <2>4. /\ join' = [join EXCEPT ![d] = NULL]
        /\ doc' = doc \/ doc' = [doc EXCEPT ![d] = tab]
        /\ room' = room \/ room' = room \cup {join[d].socket}
        /\ UNCHANGED <<database, sockets, active, publish, patch, edits>>
    BY <1>12 DEF Joined
  <2> HIDE DEF tab
  <2>5. DocOK
    BY <1>2, <1>4, <2>2, <2>3, <2>4
  <2>6. JoinOK
    BY <1>0, <2>4 DEF JoinOK, EditingTypeOK, TypeInv
  <2>7. RestOK
    BY <1>0, <2>2, <2>4 DEF RestOK, EditingTypeOK
  <2>8. QED
    BY <1>1, <1>2, <2>4, <2>5, <2>6, <2>7
<1>13. ASSUME NEW d \in Document, Disconnect(d) PROVE TypeInv'
  <2> DEFINE tab == [doc[d] EXCEPT !.socket = 0, !.subscribed = FALSE]
  <2>1. tab \in Tab /\ tab.sequence = doc[d].sequence
    <3>1. 0 \in 0..MaxSocket
      BY EditingConstants
    <3>2. QED
      BY <1>6, <3>1 DEF Tab
  <2>2. doc' = [doc EXCEPT ![d] = tab] /\ UNCHANGED <<database, gateway, join, publish, patch, edits>>
    BY <1>13 DEF Disconnect
  <2> HIDE DEF tab
  <2>3. DocOK
    BY <1>4, <1>6, <2>1, <2>2
  <2>4. QED
    BY <1>1, <1>2, <1>3, <2>2, <2>3
<1>14. ASSUME Noticed PROVE TypeInv'
  <2>1. RestOK
    BY <1>0, <1>14 DEF Noticed, RestOK, EditingTypeOK
  <2>2. QED
    BY <1>1, <1>2, <1>14, <2>1 DEF Noticed
<1>15. ASSUME NEW k \in Edit, AppendEdit(k) PROVE TypeInv'
  <2> DEFINE n == Len(log)
             entry == [edit |-> k, title |-> publish[k].title]
             answer(a, i) == [publish[k] EXCEPT !.stage = Carries(publish[k].socket, "answered"),
                                                !.answer = a, !.sequence = i]
  <2>0. publish[k] \in Publish /\ publish[k].base <= n /\ n \in Nat
    BY <1>0, <1>15, EditRecord DEF AppendEdit, Fits
  <2>1. ASSUME NEW a \in {"ok", "conflict"}, NEW i \in Nat
        PROVE  /\ answer(a, i) \in Publish /\ answer(a, i).base = publish[k].base
               /\ answer(a, i).sequence = i /\ answer(a, i).answer # "none"
    BY <2>0, CarriesOrLoses DEF Publish
  <2>2. entry \in Event
    BY <2>0 DEF Event, Publish
  <2>3. /\ UNCHANGED <<gateway, join, patch, edits>>
        /\ \/ /\ UNCHANGED <<database, doc>>
              /\ \E i \in 1..n : publish' = [publish EXCEPT ![k] = answer("ok", i)]
           \/ /\ UNCHANGED <<database, doc>>
              /\ publish' = [publish EXCEPT ![k] = answer("conflict", n)]
           \/ /\ log' = Append(log, entry) /\ stored' = publish[k].title
              /\ publish' = [publish EXCEPT ![k] = answer("ok", n + 1)]
              /\ doc' = [d \in Document |->
                    IF Receives(d, k)
                    THEN [doc[d] EXCEPT !.broken = TRUE, !.sequence = Greater(@, n + 1)]
                    ELSE doc[d]]
    BY <1>15 DEF AppendEdit, Stores
  <2> HIDE DEF answer
  <2>4. CASE UNCHANGED <<database, doc>>
    <3>1. PICK a \in {"ok", "conflict"}, i \in 0..n : publish' = [publish EXCEPT ![k] = answer(a, i)]
      <4>1. CASE \E i \in 1..n : publish' = [publish EXCEPT ![k] = answer("ok", i)]
        <5>1. PICK i \in 1..n : publish' = [publish EXCEPT ![k] = answer("ok", i)]
          BY <4>1
        <5>2. i \in 0..n /\ "ok" \in {"ok", "conflict"}
          BY <2>0
        <5>3. QED
          BY <5>1, <5>2
      <4>2. CASE publish' = [publish EXCEPT ![k] = answer("conflict", n)]
        <5>1. n \in 0..n /\ "conflict" \in {"ok", "conflict"}
          BY <2>0
        <5>2. QED
          BY <4>2, <5>1
      <4>3. CASE log' = Append(log, entry)
        <5>1. Len(log') = n + 1
          BY <2>2, <4>3, LogOf
        <5>2. QED
          BY <2>0, <2>4, <5>1
      <4>4. QED
        BY <2>3, <4>1, <4>2, <4>3
    <3>2. answer(a, i) \in Publish /\ Fits(answer(a, i))
      BY <2>0, <2>1, <3>1 DEF Fits
    <3>3. PublishOK
      BY <1>5, <2>4, <3>1, <3>2
    <3>4. QED
      BY <1>1, <1>2, <1>3, <2>3, <2>4, <3>3
  <2>5. CASE /\ log' = Append(log, entry) /\ stored' = publish[k].title
             /\ publish' = [publish EXCEPT ![k] = answer("ok", n + 1)]
             /\ doc' = [d \in Document |->
                   IF Receives(d, k)
                   THEN [doc[d] EXCEPT !.broken = TRUE, !.sequence = Greater(@, n + 1)]
                   ELSE doc[d]]
    <3>1. log' \in Seq(Event) /\ Len(log') = n + 1
      <4>1. log' = Append(log, entry) /\ log \in Seq(Event)
        BY <2>5, LogOf
      <4>2. QED
        BY <2>2, <4>1
    <3>2. /\ n + 1 \in Nat /\ publish[k].base <= n + 1
          /\ Len(log') >= Len(log)
      BY <2>0, <3>1, <1>6 DEF Publish
    <3>3. PICK q \in Publish : /\ q = answer("ok", n + 1)
                               /\ q.base <= Len(log') /\ q.sequence <= Len(log') /\ q.answer # "none"
      BY <2>1, <3>1, <3>2
    <3>4. Fits(q)'
      BY <3>3 DEF Fits
    <3>5. PublishOK
      BY <1>0, <2>5, <3>1, <3>2, <3>3, <3>4, PublishChanges DEF PublishOK
    <3>6. ASSUME NEW d \in Document
          PROVE  doc'[d] \in Tab /\ doc'[d].sequence <= Len(log')
      <4>1. Greater(doc[d].sequence, n + 1) \in Nat /\ Greater(doc[d].sequence, n + 1) <= n + 1
        BY <1>6, <3>2 DEF Greater
      <4>2. /\ [doc[d] EXCEPT !.broken = TRUE, !.sequence = Greater(@, n + 1)] \in Tab
            /\ [doc[d] EXCEPT !.broken = TRUE, !.sequence = Greater(@, n + 1)].sequence
                  = Greater(doc[d].sequence, n + 1)
        BY <1>6, <4>1 DEF Tab
      <4>3. CASE Receives(d, k)
        BY <2>5, <3>1, <4>1, <4>2, <4>3
      <4>4. CASE ~Receives(d, k)
        <5>1. doc'[d] = doc[d]
          BY <2>5, <4>4
        <5>2. doc[d] \in Tab /\ doc[d].sequence \in Nat /\ doc[d].sequence <= n
          BY <1>6
        <5>3. QED
          BY <2>0, <3>1, <5>1, <5>2
      <4>5. QED
        BY <4>3, <4>4
    <3>7. DocOK
      BY <2>5, <3>6 DEF DocOK
    <3>8. JoinOK
      <4>1. \A d \in Document : join[d] # NULL /\ join[d].sequence # NULL => join[d].sequence \in Nat
        BY <1>0 DEF EditingTypeOK, Join
      <4>2. QED
        <5>1. join' = join /\ join \in [Document -> Join \cup {NULL}]
          BY <1>0, <2>3 DEF EditingTypeOK
        <5>2. \A d \in Document : join[d] # NULL /\ join[d].sequence # NULL
                 => join[d].sequence <= n
          BY DEF TypeInv
        <5>3. ASSUME NEW d \in Document, join[d] # NULL, join[d].sequence # NULL
              PROVE  join[d].sequence <= Len(log')
          <6>1. join[d].sequence \in Nat /\ join[d].sequence <= n
            BY <4>1, <5>2, <5>3
          <6>2. QED
            BY <2>0, <3>1, <6>1
        <5>4. QED
          BY <5>1, <5>3 DEF JoinOK
    <3>9. RestOK
      BY <1>0, <2>0, <2>3, <2>5, <3>1 DEF RestOK, EditingTypeOK, Publish
    <3>10. QED
      BY <1>1, <3>5, <3>7, <3>8, <3>9
  <2>6. QED
    BY <2>3, <2>4, <2>5
<1>16. ASSUME NEW k \in Edit, AppendRefused(k) PROVE TypeInv'
  <2> DEFINE q == [publish[k] EXCEPT !.stage = Carries(publish[k].socket, "answered"),
                               !.answer = "refused"]
  <2>1. publish[k] \in Publish /\ Fits(publish[k])
    BY <1>16, EditRecord DEF AppendRefused
  <2>2. q \in Publish /\ Fits(q)
    BY <2>1, CarriesOrLoses DEF Publish, Fits
  <2>3. publish' = [publish EXCEPT ![k] = q] /\ UNCHANGED <<database, gateway, doc, join, patch, edits>>
    BY <1>16 DEF AppendRefused
  <2> HIDE DEF q
  <2>4. PublishOK
    BY <1>5, <2>2, <2>3
  <2>5. QED
    BY <1>1, <1>2, <1>3, <2>3, <2>4
<1>17. ASSUME NEW k \in Edit, NEW q \in Publish, NEW d \in Document, NEW t \in Tab,
              UNCHANGED <<database, gateway, join, patch, edits>>,
              publish' = [publish EXCEPT ![k] = q], Fits(q),
              doc' = doc \/ (doc' = [doc EXCEPT ![d] = t] /\ t.sequence <= Len(log))
       PROVE  TypeInv'
  <2>1. PublishOK
    BY <1>5, <1>17
  <2>2. DocOK
    BY <1>2, <1>4, <1>17
  <2>3. QED
    BY <1>1, <1>2, <1>3, <1>17, <2>1, <2>2
<1>18. ASSUME NEW k \in Edit, Answered(k) PROVE TypeInv'
  <2> DEFINE p == publish[k]
             d == p.document
             t == [doc[d] EXCEPT !.sequence = p.sequence]
             q == CASE p.answer = "ok" -> Settled(p, "ok")
                    [] p.answer = "refused" -> Settled(p, "rejected")
                    [] p.answer = "conflict" -> [p EXCEPT !.stage = "replaying"]
  <2>1. p \in Publish /\ Fits(p) /\ p.stage = "answered"
    BY <1>18, EditRecord DEF Answered
  <2>2. p.answer \in {"ok", "conflict", "refused"} /\ d \in Document
        /\ p.sequence \in Nat /\ p.sequence <= Len(log)
    BY <2>1 DEF Publish, Fits
  <2>3. t \in Tab /\ t.sequence <= Len(log)
    BY <1>6, <2>2 DEF Tab
  <2>4. q \in Publish /\ Fits(q)
    <3>1. CASE p.answer = "ok"
      BY <1>0, <2>1, <3>1, SettledType DEF Fits
    <3>2. CASE p.answer = "refused"
      BY <1>0, <2>1, <3>2, SettledType DEF Fits
    <3>3. CASE p.answer = "conflict"
      BY <2>1, <3>3 DEF Publish, Fits
    <3>4. QED
      BY <2>2, <3>1, <3>2, <3>3
  <2>5. /\ publish' = [publish EXCEPT ![k] = q]
        /\ doc' = doc \/ doc' = [doc EXCEPT ![d] = t]
        /\ UNCHANGED <<database, gateway, join, patch, edits>>
    BY <1>18 DEF Answered
  <2> HIDE DEF t, q, d, p
  <2>6. QED
    BY <1>17, <2>2, <2>3, <2>4, <2>5
<1>19. ASSUME NEW k \in Edit, ReplayPage(k) PROVE TypeInv'
  <2> DEFINE p == publish[k]
             d == p.document
             last == Lesser(Len(log), p.base + Page)
             t == [doc[d] EXCEPT !.broken = TRUE, !.sequence = Greater(@, last)]
             q == [p EXCEPT !.stage = "counting", !.base = last, !.got = last - p.base]
  <2>1. p \in Publish /\ Fits(p)
    BY <1>19, EditRecord DEF ReplayPage
  <2>2. /\ d \in Document /\ p.base \in Nat /\ p.base <= Len(log)
        /\ p.sequence <= Len(log)
    BY <2>1 DEF Publish, Fits
  <2>3. last \in Nat /\ last <= Len(log) /\ last - p.base \in Nat
    BY <1>0, <2>2, EditingConstants DEF Lesser
  <2>4. /\ publish' = [publish EXCEPT ![k] = q]
        /\ doc' = doc \/ doc' = [doc EXCEPT ![d] = t]
        /\ UNCHANGED <<database, gateway, join, patch, edits>>
    BY <1>19 DEF ReplayPage
  <2> HIDE DEF last
  <2>5. Greater(doc[d].sequence, last) \in Nat /\ Greater(doc[d].sequence, last) <= Len(log)
    BY <1>0, <1>6, <2>2, <2>3 DEF Greater
  <2>6. t \in Tab /\ t.sequence = Greater(doc[d].sequence, last)
    BY <1>6, <2>2, <2>5 DEF Tab
  <2>7. q \in Publish /\ Fits(q)
    BY <2>1, <2>2, <2>3 DEF Publish, Fits
  <2> HIDE DEF t, q, d, p
  <2>8. QED
    BY <1>17, <2>2, <2>4, <2>5, <2>6, <2>7
<1>20. ASSUME NEW k \in Edit, ReplayCount(k) PROVE TypeInv'
  <2> DEFINE p == publish[k]
             d == p.document
             t == [doc[d] EXCEPT !.sequence = p.base]
  <2>1. p \in Publish /\ Fits(p)
    BY <1>20, EditRecord DEF ReplayCount
  <2>2. d \in Document /\ p.base \in Nat /\ p.base <= Len(log) /\ p.attempt \in 1..Attempts
    BY <2>1 DEF Publish, Fits
  <2>3. t \in Tab /\ t.sequence <= Len(log)
    BY <1>6, <2>2 DEF Tab
  <2>4. Settled(p, "rejected") \in Publish /\ Fits(Settled(p, "rejected"))
    BY <1>0, <2>1, SettledType DEF Fits
  <2>5. Retried(p) \in Publish /\ Fits(Retried(p))
    <3>1. CASE p.attempt < Attempts
      <4>1. p.attempt + 1 \in 1..Attempts
        BY <2>2, <3>1, EditingConstants
      <4>2. Retried(p) = [p EXCEPT !.stage = "buffered", !.attempt = @ + 1]
        BY <3>1 DEF Retried
      <4>3. QED
        BY <2>1, <4>1, <4>2 DEF Publish, Fits
    <3>2. CASE ~(p.attempt < Attempts)
      BY <2>4, <3>2 DEF Retried
    <3>3. QED
      BY <3>1, <3>2
  <2>6. [p EXCEPT !.stage = "replaying"] \in Publish /\ Fits([p EXCEPT !.stage = "replaying"])
    BY <2>1 DEF Publish, Fits
  <2>7. /\ \E q \in {Retried(p), Settled(p, "rejected"), [p EXCEPT !.stage = "replaying"]} :
              publish' = [publish EXCEPT ![k] = q]
        /\ doc' = doc \/ doc' = [doc EXCEPT ![d] = t]
        /\ UNCHANGED <<database, gateway, join, patch, edits>>
    BY <1>20 DEF ReplayCount
  <2>8. PICK q \in {Retried(p), Settled(p, "rejected"), [p EXCEPT !.stage = "replaying"]} :
           publish' = [publish EXCEPT ![k] = q]
    BY <2>7
  <2>9. q \in Publish /\ Fits(q)
    BY <2>4, <2>5, <2>6, <2>8
  <2> HIDE DEF t, d, p
  <2>10. QED
    BY <1>17, <2>2, <2>3, <2>7, <2>8, <2>9
<1>21. ASSUME NEW k \in Edit, ReplayFails(k) PROVE TypeInv'
  <2>1. publish[k] \in Publish
    BY <1>21, EditRecord DEF ReplayFails
  <2>2. Settled(publish[k], "rejected") \in Publish /\ Fits(Settled(publish[k], "rejected"))
    BY <1>0, <2>1, SettledType DEF Fits
  <2>3. PublishOK
    BY <1>5, <1>21, <2>2 DEF ReplayFails
  <2>4. QED
    BY <1>1, <1>2, <1>3, <1>21, <2>3 DEF ReplayFails
<1>22. ASSUME NEW k \in Edit, Emit(k) PROVE TypeInv'
  <2> DEFINE p == publish[k]
             q == [p EXCEPT !.stage = Carries(doc[p.document].socket, "emitted"),
                            !.answer = "none", !.socket = doc[p.document].socket]
  <2>1. p \in Publish /\ Fits(p)
    BY <1>22, EditRecord DEF Emit
  <2>2. doc[p.document].socket \in 0..MaxSocket
    BY <1>6, <2>1 DEF Publish, Tab
  <2>3. q \in Publish /\ Fits(q)
    BY <2>1, <2>2, CarriesOrLoses DEF Publish, Fits
  <2>4. publish' = [publish EXCEPT ![k] = q] /\ UNCHANGED <<database, gateway, doc, join, patch, edits>>
    BY <1>22 DEF Emit
  <2> HIDE DEF p, q
  <2>5. PublishOK
    BY <1>5, <2>3, <2>4
  <2>6. QED
    BY <1>1, <1>2, <1>3, <2>4, <2>5
<1>23. CASE UNCHANGED vars
  BY <1>1, <1>2, <1>3, <1>23 DEF vars
<1>24. QED
  BY <1>7, <1>8, <1>9, <1>10, <1>11, <1>12, <1>13, <1>14, <1>15, <1>16, <1>18, <1>19, <1>20,
     <1>21, <1>22, <1>23 DEF Next, EditStep

LEMMA TypeCorrect == Spec => []TypeInv
<1>1. QED
  BY TypeInit, TypeStep, PTL DEF Spec

\* The log, the sockets, the documents and what is on its way keep their types;
\* no document and no edit is ever ahead of the log.
THEOREM EditingTypeCorrect == Spec => []EditingTypeOK
<1>1. TypeInv => EditingTypeOK
  BY DEF TypeInv
<1>2. QED
  BY <1>1, TypeCorrect, PTL

-----------------------------------------------------------------------------
(* What an edit was told *)

Placed(k) == \E i \in 1..Len(log) : log[i].edit = k

Accepted(p) == p.stage = "ok" \/ (p.stage \in {"answered", "lost"} /\ p.answer = "ok")

\* An edit is in the log, once, exactly when it was accepted.
LogInv ==
    /\ \A i, j \in 1..Len(log) : log[i].edit = log[j].edit => i = j
    /\ \A k \in Edit :
        /\ publish[k] # NULL => k <= edits
        /\ Placed(k) => publish[k] # NULL /\ Accepted(publish[k])
        /\ publish[k] # NULL /\ Accepted(publish[k]) => Placed(k)

LEMMA LogInit == Init => LogInv
<1> SUFFICES ASSUME Init PROVE LogInv
  OBVIOUS
<1>1. Len(log) = 0 /\ \A k \in Edit : publish[k] = NULL
  BY DEF Init
<1>2. \A k \in Edit : ~Placed(k)
  BY <1>1 DEF Placed
<1>3. QED
  BY <1>1, <1>2 DEF LogInv

\* A step that neither stores an event nor accepts one
LEMMA QuietStep ==
    ASSUME TypeInv, LogInv, NEW k \in Edit, NEW q, publish[k] # NULL, q # NULL,
           publish' = [publish EXCEPT ![k] = q], UNCHANGED <<log, edits>>,
           Accepted(q) <=> Accepted(publish[k])
    PROVE  LogInv'
<1>1. \A j \in Edit : publish'[j] = IF j = k THEN q ELSE publish[j]
  BY DEF TypeInv, EditingTypeOK
<1>2. \A j \in Edit : Placed(j)' <=> Placed(j)
  BY DEF Placed
<1>3. \A j \in Edit : Accepted(publish[j])' <=> Accepted(publish'[j])
  BY DEF Accepted
<1>4. ASSUME NEW j \in Edit
      PROVE  /\ publish'[j] # NULL => j <= edits
             /\ Placed(j) <=> publish'[j] # NULL /\ Accepted(publish'[j])
  <2>1. CASE j = k
    BY <1>1, <2>1 DEF LogInv
  <2>2. CASE j # k
    BY <1>1, <2>2 DEF LogInv
  <2>3. QED
    BY <2>1, <2>2
<1>5. QED
  BY <1>2, <1>3, <1>4 DEF LogInv

LEMMA LogStep == TypeInv /\ LogInv /\ [Next]_vars => LogInv'
<1> SUFFICES ASSUME TypeInv, LogInv, [Next]_vars PROVE LogInv'
  OBVIOUS
<1> USE DEF database, gateway
<1>1. ASSUME NEW d \in Document, NEW t \in Title, AutoSave(d, t) PROVE LogInv'
  <2> DEFINE k == edits + 1
             p == [document |-> d, title |-> t, stage |-> Carries(doc[d].socket, "emitted"),
                   base |-> doc[d].sequence, attempt |-> 1, socket |-> doc[d].socket,
                   answer |-> "none", sequence |-> 0, got |-> 0]
  <2>1. /\ log' = log
        /\ \/ UNCHANGED <<publish, edits>>
           \/ /\ edits < MaxEdit /\ edits' = k
              /\ publish' = [publish EXCEPT ![k] = NULL] \/ publish' = [publish EXCEPT ![k] = p]
    BY <1>1 DEF AutoSave
  <2>2. CASE UNCHANGED <<publish, edits>>
    BY <2>1, <2>2 DEF LogInv, Placed, Accepted
  <2>3. CASE edits < MaxEdit /\ edits' = k
    <3>1. edits \in Nat /\ k \in Edit /\ publish[k] = NULL /\ ~Placed(k)
      BY <2>3, EditingConstants DEF TypeInv, EditingTypeOK, LogInv, Edit
    <3>2. ~Accepted(p)
      BY CarriesOrLoses DEF Accepted
    <3> HIDE DEF p, k
    <3>3. PICK q : publish' = [publish EXCEPT ![k] = q] /\ (q = NULL \/ ~Accepted(q))
      <4>1. CASE publish' = [publish EXCEPT ![k] = NULL]
        BY <4>1
      <4>2. CASE publish' = [publish EXCEPT ![k] = p]
        BY <3>2, <4>2
      <4>3. CASE UNCHANGED <<publish, edits>>
        BY <2>3, <3>1, <4>3 DEF k
      <4>4. QED
        BY <2>1, <4>1, <4>2, <4>3
    <3>4. \A j \in Edit : publish'[j] = IF j = k THEN q ELSE publish[j]
      BY <3>3 DEF TypeInv, EditingTypeOK
    <3>5. \A j \in Edit : /\ Placed(j)' <=> Placed(j)
                          /\ Accepted(publish[j])' <=> Accepted(publish'[j])
      BY <2>1 DEF Placed, Accepted
    <3>6. \A j \in Edit : j <= edits => j <= edits'
      BY <2>3, <3>1 DEF k, Edit
    <3>7. k <= edits'
      BY <2>3, <3>1 DEF k
    <3>8. ASSUME NEW j \in Edit
          PROVE  /\ publish'[j] # NULL => j <= edits'
                 /\ Placed(j) <=> publish'[j] # NULL /\ Accepted(publish'[j])
      <4>1. CASE j = k
        BY <3>1, <3>3, <3>4, <3>7, <4>1
      <4>2. CASE j # k
        BY <3>4, <3>6, <4>2 DEF LogInv
      <4>3. QED
        BY <4>1, <4>2
    <3>9. QED
      BY <2>1, <3>5, <3>8 DEF LogInv
  <2>4. QED
    BY <2>1, <2>2, <2>3
<1>2. ASSUME NEW k \in Edit, AppendEdit(k) PROVE LogInv'
  <2> DEFINE n == Len(log)
             entry == [edit |-> k, title |-> publish[k].title]
             answer(a, i) == [publish[k] EXCEPT !.stage = Carries(publish[k].socket, "answered"),
                                                !.answer = a, !.sequence = i]
  <2>1. publish[k] \in Publish /\ publish[k].stage = "emitted" /\ publish[k] # NULL /\ n \in Nat
    BY <1>2, EditRecord, LogOf DEF AppendEdit
  <2>2. ~Placed(k)
    BY <2>1 DEF LogInv, Accepted
  <2>3. /\ UNCHANGED edits
        /\ \/ /\ log' = log
              /\ publish' = [publish EXCEPT ![k] = answer("conflict", n)]
           \/ /\ log' = Append(log, entry)
              /\ publish' = [publish EXCEPT ![k] = answer("ok", n + 1)]
    BY <1>2, <2>2 DEF AppendEdit, Stores, Placed
  <2>4. ASSUME NEW a \in {"ok", "conflict"}, NEW i \in Nat
        PROVE  /\ answer(a, i) \in Publish /\ answer(a, i) # NULL
               /\ Accepted(answer(a, i)) <=> a = "ok"
    <3>1. answer(a, i) \in Publish /\ answer(a, i).stage \in {"answered", "lost"}
          /\ answer(a, i).answer = a
      BY <2>1, CarriesOrLoses DEF Publish
    <3>2. QED
      BY <3>1, LogOf DEF Accepted
  <2> HIDE DEF answer
  <2>5. CASE log' = log /\ publish' = [publish EXCEPT ![k] = answer("conflict", n)]
    <3>1. answer("conflict", n) # NULL /\ ~Accepted(answer("conflict", n))
      BY <2>1, <2>4
    <3>2. ~Accepted(publish[k])
      BY <2>1 DEF Accepted
    <3>3. QED
      BY <2>1, <2>3, <2>5, <3>1, <3>2, QuietStep
  <2>6. CASE log' = Append(log, entry) /\ publish' = [publish EXCEPT ![k] = answer("ok", n + 1)]
    <3>1. /\ Len(log') = n + 1 /\ log'[n + 1] = entry /\ n + 1 \in 1..(n + 1)
          /\ \A i \in 1..n : log'[i] = log[i]
      <4>1. log' = Append(log, entry) /\ log \in Seq(Event)
        BY <2>6, LogOf
      <4>2. QED
        BY <2>1, <4>1
    <3>2. \A i \in 1..Len(log') : i \in 1..n \/ i = n + 1
      BY <2>1, <3>1
    <3>3. answer("ok", n + 1) # NULL /\ Accepted(answer("ok", n + 1))
      BY <2>1, <2>4
    <3>4. \A j \in Edit : publish'[j] = IF j = k THEN answer("ok", n + 1) ELSE publish[j]
      BY <2>6 DEF TypeInv, EditingTypeOK
    <3>5. \A j \in Edit : Accepted(publish[j])' <=> Accepted(publish'[j])
      BY DEF Accepted
    <3>6. entry.edit = k
      OBVIOUS
    <3> HIDE DEF entry
    <3>7. Placed(k)'
      BY <3>1, <3>6 DEF Placed
    <3>8. \A j \in Edit : j # k => (Placed(j)' <=> Placed(j))
      <4>1. SUFFICES ASSUME NEW j \in Edit, j # k PROVE Placed(j)' <=> Placed(j)
        OBVIOUS
      <4>2. ASSUME Placed(j)' PROVE Placed(j)
        <5>1. PICK i \in 1..Len(log') : log'[i].edit = j
          BY <4>2 DEF Placed
        <5>2. i \in 1..n
          BY <3>1, <3>2, <3>6, <4>1, <5>1
        <5>3. QED
          BY <3>1, <5>1, <5>2 DEF Placed
      <4>3. ASSUME Placed(j) PROVE Placed(j)'
        <5>1. PICK i \in 1..n : log[i].edit = j
          BY <4>3 DEF Placed
        <5>2. i \in 1..Len(log') /\ log'[i].edit = j
          BY <2>1, <3>1, <5>1
        <5>3. QED
          BY <5>2 DEF Placed
      <4>4. QED
        BY <4>2, <4>3
    <3>9. ASSUME NEW i \in 1..Len(log'), NEW j \in 1..Len(log'), log'[i].edit = log'[j].edit
          PROVE  i = j
      <4>1. \A m \in 1..n : log[m].edit # k
        BY <2>2 DEF Placed
      <4>2. CASE i \in 1..n /\ j \in 1..n
        BY <3>1, <3>9, <4>2 DEF LogInv
      <4>3. CASE i = n + 1 \/ j = n + 1
        BY <3>1, <3>2, <3>6, <3>9, <4>1, <4>3
      <4>4. QED
        BY <3>2, <4>2, <4>3
    <3>10. ASSUME NEW j \in Edit
           PROVE  /\ publish'[j] # NULL => j <= edits
                  /\ Placed(j)' <=> publish'[j] # NULL /\ Accepted(publish'[j])
      <4>1. CASE j = k
        BY <2>1, <3>3, <3>4, <3>7, <4>1 DEF LogInv
      <4>2. CASE j # k
        BY <3>4, <3>8, <4>2 DEF LogInv
      <4>3. QED
        BY <4>1, <4>2
    <3>11. QED
      BY <2>3, <3>5, <3>9, <3>10 DEF LogInv
  <2>7. QED
    BY <2>3, <2>5, <2>6
<1>3. ASSUME NEW k \in Edit, NEW q \in Publish, publish[k] # NULL,
             publish' = [publish EXCEPT ![k] = q], UNCHANGED <<log, edits>>,
             Accepted(q) <=> Accepted(publish[k])
      PROVE  LogInv'
  <2>1. q # NULL
    BY LogOf
  <2>2. QED
    BY <1>3, <2>1, QuietStep
<1>4. ASSUME NEW k \in Edit, AppendRefused(k) PROVE LogInv'
  <2> DEFINE q == [publish[k] EXCEPT !.stage = Carries(publish[k].socket, "answered"),
                               !.answer = "refused"]
  <2>1. publish[k] \in Publish /\ publish[k].stage = "emitted" /\ publish[k] # NULL
    BY <1>4, EditRecord DEF AppendRefused
  <2>2. q \in Publish /\ ~Accepted(q) /\ ~Accepted(publish[k])
    BY <2>1, CarriesOrLoses DEF Publish, Accepted
  <2>3. publish' = [publish EXCEPT ![k] = q] /\ UNCHANGED <<log, edits>>
    BY <1>4 DEF AppendRefused
  <2> HIDE DEF q
  <2>4. QED
    BY <1>3, <2>1, <2>2, <2>3
<1>5. ASSUME NEW k \in Edit, Answered(k) PROVE LogInv'
  <2> DEFINE p == publish[k]
             q == CASE p.answer = "ok" -> Settled(p, "ok")
                    [] p.answer = "refused" -> Settled(p, "rejected")
                    [] p.answer = "conflict" -> [p EXCEPT !.stage = "replaying"]
  <2>1. p \in Publish /\ Fits(p) /\ p.stage = "answered" /\ p # NULL
    BY <1>5, EditRecord DEF Answered
  <2>2. p.answer \in {"ok", "conflict", "refused"}
    BY <2>1 DEF Publish, Fits
  <2>3. q \in Publish /\ (Accepted(q) <=> Accepted(p))
    <3>1. CASE p.answer = "ok"
      BY <2>1, <3>1, SettledType DEF Accepted
    <3>2. CASE p.answer = "refused"
      BY <2>1, <3>2, SettledType DEF Accepted
    <3>3. CASE p.answer = "conflict"
      BY <2>1, <3>3 DEF Publish, Accepted
    <3>4. QED
      BY <2>2, <3>1, <3>2, <3>3
  <2>4. publish' = [publish EXCEPT ![k] = q] /\ UNCHANGED <<log, edits>>
    BY <1>5 DEF Answered
  <2> HIDE DEF q
  <2>5. QED
    BY <1>3, <2>1, <2>3, <2>4
<1>6. ASSUME NEW k \in Edit, publish[k] # NULL,
             publish[k].stage \in {"replaying", "counting", "buffered"}
      PROVE  publish[k] \in Publish /\ ~Accepted(publish[k])
  BY <1>6, EditRecord DEF Accepted
<1>7. \A p \in Publish : /\ Settled(p, "rejected") \in Publish /\ ~Accepted(Settled(p, "rejected"))
  BY SettledType DEF Accepted
<1>8. ASSUME NEW k \in Edit, ReplayPage(k) PROVE LogInv'
  <2> DEFINE p == publish[k]
             last == Lesser(Len(log), p.base + Page)
             q == [p EXCEPT !.stage = "counting", !.base = last, !.got = last - p.base]
  <2>1. p \in Publish /\ Fits(p) /\ p # NULL /\ ~Accepted(p)
    BY <1>6, <1>8, EditRecord DEF ReplayPage
  <2>2. p.base \in Nat /\ p.base <= Len(log) /\ Len(log) \in Nat
    BY <2>1, LogOf DEF Publish, Fits
  <2>3. last \in Nat /\ last - p.base \in Nat
    BY <2>2, EditingConstants DEF Lesser
  <2>4. publish' = [publish EXCEPT ![k] = q] /\ UNCHANGED <<log, edits>>
    BY <1>8 DEF ReplayPage
  <2> HIDE DEF last
  <2>5. q \in Publish /\ ~Accepted(q)
    BY <2>1, <2>3 DEF Publish, Accepted
  <2> HIDE DEF q
  <2>6. QED
    BY <1>3, <2>1, <2>4, <2>5
<1>9. ASSUME NEW k \in Edit, ReplayCount(k) PROVE LogInv'
  <2> DEFINE p == publish[k]
             again == [p EXCEPT !.stage = "replaying"]
  <2>1. p \in Publish /\ p # NULL /\ ~Accepted(p) /\ p.attempt \in 1..Attempts
    BY <1>6, <1>9 DEF ReplayCount, Publish
  <2>2. Retried(p) \in Publish /\ ~Accepted(Retried(p))
    <3>1. CASE p.attempt < Attempts
      <4>1. p.attempt + 1 \in 1..Attempts
        BY <2>1, <3>1, EditingConstants
      <4>2. Retried(p) = [p EXCEPT !.stage = "buffered", !.attempt = @ + 1]
        BY <3>1 DEF Retried
      <4>3. QED
        BY <2>1, <4>1, <4>2 DEF Publish, Accepted
    <3>2. CASE ~(p.attempt < Attempts)
      BY <1>7, <2>1, <3>2 DEF Retried
    <3>3. QED
      BY <3>1, <3>2
  <2>3. again \in Publish /\ ~Accepted(again)
    BY <2>1 DEF Publish, Accepted
  <2>4. UNCHANGED <<log, edits>>
        /\ \E q \in {Retried(p), Settled(p, "rejected"), again} :
              publish' = [publish EXCEPT ![k] = q]
    BY <1>9 DEF ReplayCount
  <2>5. PICK q \in {Retried(p), Settled(p, "rejected"), again} :
           publish' = [publish EXCEPT ![k] = q]
    BY <2>4
  <2> HIDE DEF again
  <2>6. q \in Publish /\ ~Accepted(q)
    BY <1>7, <2>1, <2>2, <2>3, <2>5
  <2>7. QED
    BY <1>3, <2>1, <2>4, <2>5, <2>6
<1>10. ASSUME NEW k \in Edit, ReplayFails(k) PROVE LogInv'
  <2>1. publish[k] \in Publish /\ publish[k] # NULL /\ ~Accepted(publish[k])
    BY <1>6, <1>10 DEF ReplayFails
  <2>2. /\ publish' = [publish EXCEPT ![k] = Settled(publish[k], "rejected")]
        /\ UNCHANGED <<log, edits>>
    BY <1>10 DEF ReplayFails
  <2>3. QED
    BY <1>3, <1>7, <2>1, <2>2
<1>11. ASSUME NEW k \in Edit, Emit(k) PROVE LogInv'
  <2> DEFINE p == publish[k]
             q == [p EXCEPT !.stage = Carries(doc[p.document].socket, "emitted"),
                            !.answer = "none", !.socket = doc[p.document].socket]
  <2>1. p \in Publish /\ p # NULL /\ ~Accepted(p)
    BY <1>6, <1>11 DEF Emit
  <2>2. doc[p.document].socket \in 0..MaxSocket
    BY <2>1 DEF Publish, Tab, TypeInv, EditingTypeOK
  <2>3. q \in Publish /\ ~Accepted(q)
    BY <2>1, <2>2, CarriesOrLoses DEF Publish, Accepted
  <2>4. publish' = [publish EXCEPT ![k] = q] /\ UNCHANGED <<log, edits>>
    BY <1>11 DEF Emit
  <2> HIDE DEF q
  <2>5. QED
    BY <1>3, <2>1, <2>3, <2>4
<1>12. CASE UNCHANGED <<log, publish, edits>>
  BY <1>12 DEF LogInv, Placed, Accepted
<1>13. QED
  BY <1>1, <1>2, <1>4, <1>5, <1>8, <1>9, <1>10, <1>11, <1>12
  DEF Next, EditStep, Load, Patched, Connect, JoinReads, Joined, Disconnect, Noticed, vars

\* An edit is in the log at most once, whatever is sent again; it is there when
\* its document was told it is, and not when its document was told it is not.
THEOREM AnswersCorrect == Spec => []AnswersAreTrue
<1>1. TypeInv /\ LogInv => AnswersAreTrue
  <2> SUFFICES ASSUME TypeInv, LogInv, NEW k \in Edit
               PROVE  LET places == {i \in 1..Len(log) : log[i].edit = k} IN
                      /\ Cardinality(places) <= 1
                      /\ publish[k] # NULL =>
                          /\ publish[k].stage = "ok" => places # {}
                          /\ publish[k].stage = "rejected" => places = {}
    BY DEF AnswersAreTrue
  <2> DEFINE places == {i \in 1..Len(log) : log[i].edit = k}
  <2>1. places = {} \/ \E i \in places : places = {i}
    BY DEF LogInv
  <2>2. Cardinality(places) <= 1
    <3>1. Cardinality({}) = 0
      BY FS_EmptySet
    <3> HIDE DEF places
    <3>2. CASE places = {}
      BY <3>1, <3>2
    <3>3. CASE \E i \in places : places = {i}
      <4>1. PICK i : places = {i}
        BY <3>3
      <4>2. Cardinality(places) = 1
        BY <4>1, FS_Singleton
      <4>3. QED
        BY <4>2
    <3>4. QED
      BY <2>1, <3>2, <3>3
  <2>3. Placed(k) <=> places # {}
    BY DEF Placed
  <2>4. ASSUME publish[k] # NULL, publish[k].stage = "ok" PROVE places # {}
    BY <2>3, <2>4 DEF LogInv, Accepted
  <2>5. ASSUME publish[k] # NULL, publish[k].stage = "rejected" PROVE places = {}
    BY <2>3, <2>5 DEF LogInv, Accepted
  <2>6. QED
    BY <2>2, <2>4, <2>5
<1>2. TypeInv /\ LogInv /\ [Next]_vars => LogInv'
  BY LogStep
<1>3. QED
  BY <1>1, <1>2, LogInit, TypeCorrect, PTL DEF Spec
=============================================================================
