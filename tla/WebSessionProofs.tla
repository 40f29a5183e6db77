--------------------------- MODULE WebSessionProofs ---------------------------
(* Theorems about WebSession, for every value of its constants. *)
EXTENDS WebSession, TLAPS

\* A sign-in the browser can still act for: by its cookie, by its access token,
\* or by the refresh that is under way.
Held(s) ==
    \/ jar # NULL /\ jar.signIn = s
    \/ access = s
    \/ refresh # NULL /\ refresh.token # NULL /\ refresh.token.signIn = s

\* A refresh has a token from when it is sent, and its answer is of the same
\* sign-in; none is on its way while the session ends.
RefreshOK ==
    /\ refresh # NULL =>
        /\ refresh.stage = "csrf" => refresh.token = NULL
        /\ refresh.answer # NULL =>
             refresh.token # NULL /\ refresh.answer.signIn = refresh.token.signIn
    /\ flow # NULL => refresh = NULL \/ refresh.stage = "csrf"

\* What the browser holds is of a sign-in the server made and nobody logged out
\* of, and what it will be given by a sign-in is of another one.
HeldOK ==
    /\ signedOut \subseteq known
    /\ \A s \in SignIn : Held(s) => s \in known /\ s \notin signedOut
    /\ flow # NULL /\ flow.token # NULL => flow.token.signIn \in known
    /\ login # NULL /\ login.stage = "served" =>
        /\ login.signIn \in known
        /\ login.signIn \notin signedOut
        /\ ~Held(login.signIn)
        /\ flow # NULL /\ flow.token # NULL => flow.token.signIn # login.signIn

\* A marker that can be read is the distinct id, and an identity that is given
\* up or about to end is not ready.
Sound(id) ==
    /\ id.marker # Unsafe => id.distinct = id.marker
    /\ id.disabled \/ id.ending => ~id.ready

MarkerIsDistinct == Sound(identity)

-----------------------------------------------------------------------------
(* The operators of the hook and of the analytics client *)

LEMMA DisabledType ==
    ASSUME NEW id \in IdentityState, NEW d \in Account \cup {Anonymous},
           NEW m \in Account \cup {Anonymous, Unsafe}
    PROVE  Disabled(id, d, m) \in IdentityState
BY DEF Disabled, IdentityState

\* What reconcile may leave behind, outcome by outcome
LEMMA ReconcileCases ==
    ASSUME NEW id \in IdentityState, NEW target, NEW j \in Reconcile(id, target)
    PROVE  \/ j = id /\ (id.disabled \/ id.ending)
           \/ ~id.disabled /\ ~id.ending /\
              \/ id.marker = target /\ j = [id EXCEPT !.ready = TRUE]
              \/ j = Disabled(id, id.distinct, id.marker)
              \/ \E d \in {id.distinct, Anonymous, target} : j = Disabled(id, d, Unsafe)
              \/ j = Disabled(id, Anonymous, Anonymous)
              \/ j = [id EXCEPT !.distinct = target, !.marker = target, !.ready = TRUE]
BY DEF Reconcile, Reconciled, MarkerReconciling

LEMMA ReconcileType ==
    ASSUME NEW id \in IdentityState, NEW target \in Account \cup {Anonymous}
    PROVE  /\ Reconcile(id, target) \subseteq IdentityState
           /\ EndingFinished(id, target) \subseteq IdentityState
<1>1. ASSUME NEW i \in IdentityState PROVE Reconcile(i, target) \subseteq IdentityState
  <2>1. SUFFICES ASSUME NEW j \in Reconcile(i, target) PROVE j \in IdentityState
    OBVIOUS
  <2>2. /\ i.distinct \in Account \cup {Anonymous}
        /\ i.marker \in Account \cup {Anonymous, Unsafe}
        /\ [i EXCEPT !.ready = TRUE] \in IdentityState
        /\ [i EXCEPT !.distinct = target, !.marker = target, !.ready = TRUE] \in IdentityState
    BY DEF IdentityState
  <2>3. Anonymous \in Account \cup {Anonymous} /\ Anonymous \in Account \cup {Anonymous, Unsafe}
        /\ Unsafe \in Account \cup {Anonymous, Unsafe}
    OBVIOUS
  <2>4. ASSUME NEW d \in {i.distinct, Anonymous, target}
        PROVE  Disabled(i, d, Unsafe) \in IdentityState
    BY <2>2, <2>3, DisabledType
  <2>5. /\ Disabled(i, i.distinct, i.marker) \in IdentityState
        /\ Disabled(i, Anonymous, Anonymous) \in IdentityState
    BY <2>2, <2>3, DisabledType
  <2>6. \/ j = i
        \/ j = [i EXCEPT !.ready = TRUE]
        \/ j = Disabled(i, i.distinct, i.marker)
        \/ \E d \in {i.distinct, Anonymous, target} : j = Disabled(i, d, Unsafe)
        \/ j = Disabled(i, Anonymous, Anonymous)
        \/ j = [i EXCEPT !.distinct = target, !.marker = target, !.ready = TRUE]
    BY ReconcileCases
  <2> QED BY <2>2, <2>4, <2>5, <2>6
<1>2. [id EXCEPT !.ending = FALSE] \in IdentityState
  BY DEF IdentityState
<1> QED BY <1>1, <1>2 DEF EndingFinished

LEMMA FollowedType ==
    ASSUME NEW id \in IdentityState, NEW u \in Account \cup {NULL}, NEW settled \in BOOLEAN
    PROVE  Followed(id, u, settled) \subseteq IdentityState
<1>1. IdOf(u) \in Account \cup {Anonymous}
  BY DEF IdOf
<1> QED BY <1>1, ReconcileType DEF Followed

LEMMA NewRefreshType ==
    ASSUME NEW e \in Nat, NEW callers \in SUBSET Caller, NEW retry \in BOOLEAN
    PROVE  NewRefresh(e, callers, retry) \in Refresh
BY DEF NewRefresh, Refresh

LEMMA JoinedType ==
    ASSUME NEW r \in Refresh \cup {NULL}, NEW e \in Nat,
           NEW callers \in SUBSET Caller, NEW retry \in BOOLEAN
    PROVE  Joined(r, e, callers, retry) \in Refresh
<1>1. CASE r = NULL
  BY <1>1, NewRefreshType DEF Joined
<1>2. CASE r # NULL
  BY <1>2 DEF Joined, Refresh
<1> QED BY <1>1, <1>2

LEMMA UnservedType ==
    ASSUME good \subseteq Token
    PROVE  /\ \A r \in Refresh \cup {NULL} : Unserved("refresh", r) \subseteq Orphan
           /\ \A f \in Ending \cup {NULL} : f # NULL => Unserved(f.kind, f) \subseteq Orphan
<1>1. ASSUME NEW r \in Refresh \cup {NULL} PROVE Unserved("refresh", r) \subseteq Orphan
  BY <1>1 DEF Unserved, Orphan
<1>2. ASSUME NEW f \in Ending \cup {NULL}, f # NULL PROVE Unserved(f.kind, f) \subseteq Orphan
  BY <1>2 DEF Unserved, Orphan, Ending
<1> QED BY <1>1, <1>2

LEMMA CookieAfterType ==
    ASSUME WebTypeOK
    PROVE  CookieAfter(refresh) \subseteq Token \cup {NULL}
BY DEF CookieAfter, WebTypeOK, Refresh

LEMMA FirstTokenType ==
    ASSUME NEW s \in SignIn
    PROVE  Server!FirstToken(s) \in Token
BY WebConstants DEF Server!FirstToken, Token

LEMMA NextTokenType ==
    ASSUME NEW t \in Token, t.round < MaxRound
    PROVE  Server!NextToken(t) \in Token /\ Server!NextToken(t).signIn = t.signIn
BY WebConstants DEF Server!NextToken, Token

LEMMA ServerEndsType ==
    ASSUME WebTypeOK, NEW kind \in {"logout", "delete"}, NEW token \in Token \cup {NULL},
           ~Refused(kind, token), ServerEnds(kind, token)
    PROVE  good' \subseteq Token /\ known' = known /\ deleted' \subseteq Account
BY WebConstants DEF ServerEnds, Server!EndTokens, Refused, WebTypeOK, Token

-----------------------------------------------------------------------------
(* The types *)

LEMMA WebTypeInit == Init => WebTypeOK
<1> SUFFICES ASSUME Init PROVE WebTypeOK
  OBVIOUS
<1>1. {[generation |-> 0, access |-> NULL]} \in SUBSET Caller
  BY DEF Caller
<1>2. refresh \in Refresh
  BY <1>1, NewRefreshType DEF Init
<1>3. identity \in IdentityState
  BY DEF Init, IdentityState
<1>4. sessionEnding = (flow # NULL)
  BY DEF Init
<1>5. refreshEpoch \in 0..MaxEnding /\ reloads \in 0..MaxReload /\ generation \in Nat
  BY WebConstants DEF Init
<1> QED BY <1>2, <1>3, <1>4, <1>5 DEF Init, WebTypeOK, Server!SignInsInit

LEMMA WebTypeStep == WebTypeOK /\ [Next]_vars => WebTypeOK'
<1> SUFFICES ASSUME WebTypeOK, [Next]_vars PROVE WebTypeOK'
  OBVIOUS
<1> USE WebNull, WebConstants
<1>me. {Me} \in SUBSET Caller /\ {} \in SUBSET Caller
  BY DEF WebTypeOK, Me, Caller
<1>new. NewRefresh(0, {[generation |-> 0, access |-> NULL]}, FALSE) \in Refresh
  <2>1. {[generation |-> 0, access |-> NULL]} \in SUBSET Caller
    BY DEF Caller
  <2> QED BY <2>1, NewRefreshType
<1>epoch. refreshEpoch \in Nat /\ refresh \in Refresh \cup {NULL} /\ generation \in Nat
  BY DEF WebTypeOK
<1>1. CASE IntervalFires
  <2>1. refresh' \in Refresh
    BY <1>1, <1>me, <1>epoch, JoinedType DEF IntervalFires
  <2> QED BY <2>1, <1>1 DEF IntervalFires, WebTypeOK, server
<1>2. CASE RequestUnauthorized
  <2>1. refresh' \in Refresh
    BY <1>2, <1>me, <1>epoch, JoinedType DEF RequestUnauthorized
  <2> QED BY <2>1, <1>2 DEF RequestUnauthorized, WebTypeOK, server
<1>3. CASE RefreshSend
  <2>1. refresh' \in Refresh \cup {NULL}
    BY <1>3 DEF RefreshSend, WebTypeOK, Refresh
  <2> QED BY <2>1, <1>3 DEF RefreshSend, WebTypeOK, server
<1>4. CASE RefreshServed
  <2>1. CASE refresh.token \in good
    <3>1. refresh.token \in Token /\ refresh.token.round < MaxRound
      BY <1>4, <2>1 DEF RefreshServed, WebTypeOK
    <3>2. Server!NextToken(refresh.token) \in Token
      BY <3>1, NextTokenType
    <3>3. refresh' \in Refresh
      BY <3>2, <1>4, <2>1 DEF RefreshServed, WebTypeOK, Refresh
    <3>4. good' \subseteq Token /\ known' = known
      BY <3>2, <1>4, <2>1 DEF RefreshServed, WebTypeOK, Server!Rotate
    <3> QED BY <3>3, <3>4, <1>4, <2>1 DEF RefreshServed, WebTypeOK
  <2>2. CASE refresh.token \notin good
    <3>1. refresh' \in Refresh
      BY <1>4, <2>2 DEF RefreshServed, WebTypeOK, Refresh
    <3> QED BY <3>1, <1>4, <2>2 DEF RefreshServed, WebTypeOK, server
  <2> QED BY <2>1, <2>2
<1>5. CASE RefreshAnswered
  <2>1. jar' \in Token
    BY <1>5 DEF RefreshAnswered, WebTypeOK, Refresh
  <2>2. access' \in SignIn \cup {NULL} /\ user' \in Account \cup {NULL}
    BY <2>1, <1>5 DEF RefreshAnswered, WebTypeOK, Token
  <2>3. initialized' \in BOOLEAN /\ interval' \in BOOLEAN
    BY <1>5 DEF RefreshAnswered, WebTypeOK
  <2>4. identity' \in IdentityState
    BY <2>2, <2>3, <1>5, FollowedType DEF RefreshAnswered, WebTypeOK
  <2> QED BY <2>1, <2>2, <2>3, <2>4, <1>5 DEF RefreshAnswered, WebTypeOK, server
<1>6. CASE RefreshExpired
  <2>1. access' \in SignIn \cup {NULL} /\ user' \in Account \cup {NULL}
    BY <1>6 DEF RefreshExpired, WebTypeOK
  <2>2. initialized' \in BOOLEAN /\ interval' \in BOOLEAN /\ generation' \in Nat
    <3>1. interval' \in BOOLEAN
      <4>1. interval \in BOOLEAN
        BY DEF WebTypeOK
      <4>2. ASSUME NEW b \in BOOLEAN, NEW M, NEW e \in BOOLEAN
            PROVE  (IF e THEN FALSE ELSE b \/ M # {}) \in BOOLEAN
        OBVIOUS
      <4> QED BY <1>6, <4>1 DEF RefreshExpired
    <3>2. initialized' \in BOOLEAN
      BY <1>6 DEF RefreshExpired, WebTypeOK
    <3>3. generation' \in Nat
      <4>1. generation' = generation \/ generation' = generation + 1
        BY <1>6 DEF RefreshExpired
      <4> QED BY <4>1, <1>epoch
    <3> QED BY <3>1, <3>2, <3>3
  <2>3. identity' \in IdentityState
    BY <2>1, <2>2, <1>6, FollowedType DEF RefreshExpired, WebTypeOK
  <2>4. orphans' \subseteq Orphan
    BY <1>6, UnservedType DEF RefreshExpired, WebTypeOK
  <2> QED BY <2>1, <2>2, <2>3, <2>4, <1>6 DEF RefreshExpired, WebTypeOK, server
<1>7. ASSUME NEW kind \in {"logout", "delete"}, EndingBegins(kind)
      PROVE  WebTypeOK'
  <2>1. flow' \in Ending
    BY <1>7 DEF EndingBegins, Ending
  <2>2. identity' \in IdentityState
    BY <1>7 DEF EndingBegins, WebTypeOK, IdentityState, EndingBegun
  <2>3. refresh' \in Refresh \cup {NULL}
    BY <1>7 DEF EndingBegins, WebTypeOK, Aborted
  <2>4. orphans' \subseteq Orphan
    BY <1>7, UnservedType DEF EndingBegins, WebTypeOK
  <2>5. jar' \in Token \cup {NULL}
    BY <1>7, CookieAfterType DEF EndingBegins, WebTypeOK
  <2>6. sessionEnding' = (flow' # NULL)
    BY <2>1, <1>7 DEF EndingBegins
  <2>7. refreshEpoch' \in 0..MaxEnding
    <3>1. refreshEpoch \in 0..MaxEnding /\ refreshEpoch < MaxEnding /\ refreshEpoch' = refreshEpoch + 1
      BY <1>7 DEF EndingBegins, WebTypeOK
    <3> QED BY <3>1
  <2>8. generation' \in Nat
    <3>1. generation' = generation + 1
      BY <1>7 DEF EndingBegins
    <3> QED BY <3>1, <1>epoch
  <2>9. interval' \in BOOLEAN
    BY <1>7 DEF EndingBegins
  <2> QED BY <2>1, <2>2, <2>3, <2>4, <2>5, <2>6, <2>7, <2>8, <2>9, <1>7 DEF EndingBegins, WebTypeOK, server
<1>8. CASE EndingSend
  <2>1. access # NULL => Server!FirstToken(access) \in Token
    BY FirstTokenType DEF WebTypeOK
  <2>2. flow' \in Ending
    BY <2>1, <1>8 DEF EndingSend, WebTypeOK, Ending
  <2> QED BY <2>2, <1>8 DEF EndingSend, WebTypeOK, server
<1>9. CASE EndingServed
  <2>1. flow' \in Ending
    BY <1>9 DEF EndingServed, WebTypeOK, Ending, Refused
  <2>2. flow.kind \in {"logout", "delete"} /\ flow.token \in Token \cup {NULL}
    BY <1>9 DEF EndingServed, WebTypeOK, Ending
  <2>3. good' \subseteq Token /\ known' = known /\ deleted' \subseteq Account
    BY <2>2, <1>9, ServerEndsType DEF EndingServed, WebTypeOK, server
  <2> QED BY <2>1, <2>3, <1>9 DEF EndingServed, WebTypeOK
<1>10. CASE EndingDone
  <2>1. identity' \in IdentityState
    BY <1>10, ReconcileType DEF EndingDone, WebTypeOK
  <2>2. signedOut' \subseteq SignIn /\ jar' \in Token \cup {NULL}
    BY <1>10 DEF EndingDone, WebTypeOK, Ending, Token
  <2> QED BY <2>1, <2>2, <1>10 DEF EndingDone, WebTypeOK, server
<1>11. CASE EndingFails
  <2>1. IdOf(user) \in Account \cup {Anonymous}
    BY DEF IdOf, WebTypeOK
  <2>2. identity' \in IdentityState
    BY <2>1, <1>11, ReconcileType DEF EndingFails, WebTypeOK
  <2>3. refresh' \in Refresh
    BY <1>11, <1>me, <1>epoch, JoinedType DEF EndingFails
  <2>4. orphans' \subseteq Orphan
    BY <1>11, UnservedType DEF EndingFails, WebTypeOK
  <2> QED BY <2>2, <2>3, <2>4, <1>11 DEF EndingFails, WebTypeOK, server, Resumed
<1>12. ASSUME NEW s \in SignIn, LoginSend(s)
       PROVE  WebTypeOK'
  <2>1. login' \in Login
    BY <1>12 DEF LoginSend, Login
  <2> QED BY <2>1, <1>12 DEF LoginSend, WebTypeOK, server
<1>13. CASE LoginServed
  <2>1. login.signIn \in SignIn /\ login' \in Login
    BY <1>13 DEF LoginServed, WebTypeOK, Login
  <2>2. known' \subseteq SignIn /\ good' \subseteq Token
    BY <2>1, <1>13, FirstTokenType DEF LoginServed, WebTypeOK, Server!Enter
  <2> QED BY <2>1, <2>2, <1>13 DEF LoginServed, WebTypeOK
<1>14. CASE LoginAnswered
  <2>1. login.signIn \in SignIn
    BY <1>14 DEF LoginAnswered, WebTypeOK, Login
  <2>2. jar' \in Token /\ user' \in Account
    BY <2>1, <1>14, FirstTokenType DEF LoginAnswered
  <2>3. identity' \in IdentityState
    BY <2>2, <1>14, FollowedType DEF LoginAnswered, WebTypeOK
  <2> QED BY <2>1, <2>2, <2>3, <1>14 DEF LoginAnswered, WebTypeOK, server
<1>15. CASE LoginFails
  BY <1>15 DEF LoginFails, WebTypeOK, server
<1>16. ASSUME NEW o \in orphans, OrphanServed(o)
       PROVE  WebTypeOK'
  <2>1. o.kind \in {"refresh", "logout", "delete"} /\ o.token \in Token
    BY DEF WebTypeOK, Orphan
  <2>2. good' \subseteq Token /\ known' = known /\ deleted' \subseteq Account
    <3>1. CASE /\ o.kind = "refresh" /\ o.token \in good /\ o.token.round < MaxRound
               /\ Server!Rotate(o.token)
               /\ UNCHANGED deleted
      <4>1. Server!NextToken(o.token) \in Token
        BY <2>1, <3>1, NextTokenType
      <4> QED BY <3>1, <4>1 DEF WebTypeOK, Server!Rotate
    <3>2. CASE /\ o.kind \in {"logout", "delete"} /\ ~Refused(o.kind, o.token)
               /\ ServerEnds(o.kind, o.token)
      BY <2>1, <3>2, ServerEndsType
    <3> QED BY <1>16, <3>1, <3>2 DEF OrphanServed
  <2> QED BY <2>2, <1>16 DEF OrphanServed, WebTypeOK
<1>17. CASE Reload
  <2>1. identity' \in IdentityState
    BY <1>17 DEF Reload, WebTypeOK, IdentityState
  <2>2. orphans' \subseteq Orphan
    BY <1>17, UnservedType DEF Reload, WebTypeOK
  <2>3. jar' \in Token \cup {NULL}
    BY <1>17, CookieAfterType DEF Reload, WebTypeOK
  <2>4. sessionEnding' = (flow' # NULL)
    BY <1>17 DEF Reload
  <2>5. reloads' \in 0..MaxReload /\ refreshEpoch' \in 0..MaxEnding /\ generation' \in Nat
    BY <1>17 DEF Reload, WebTypeOK
  <2> QED BY <2>1, <2>2, <2>3, <2>4, <2>5, <1>new, <1>17 DEF Reload, WebTypeOK, server
<1>18. CASE UNCHANGED vars
  BY <1>18 DEF vars, WebTypeOK
<1> QED BY <1>1, <1>2, <1>3, <1>4, <1>5, <1>6, <1>7, <1>8, <1>9, <1>10, <1>11, <1>12,
           <1>13, <1>14, <1>15, <1>16, <1>17, <1>18 DEF Next, EndingStep

\* Every variable keeps its type, whatever the order in which answers and
\* reloads come, and client.ts latches the session for as long as a logout or a
\* deletion is on its way.
THEOREM WebTypes == Spec => []WebTypeOK
<1>1. Init => WebTypeOK
  BY WebTypeInit
<1>2. WebTypeOK /\ [Next]_vars => WebTypeOK'
  BY WebTypeStep
<1> QED BY <1>1, <1>2, PTL DEF Spec

-----------------------------------------------------------------------------
(* The identity *)

LEMMA DisabledSound ==
    ASSUME NEW id \in IdentityState, NEW d, NEW m, m = Unsafe \/ d = m
    PROVE  Sound(Disabled(id, d, m)) /\ ~Disabled(id, d, m).ready
BY DEF Disabled, Sound, IdentityState

\* Whatever reconcile does, an identity that is ready has the distinct id it was
\* asked for.
LEMMA ReconcileSound ==
    ASSUME NEW id \in IdentityState, NEW target \in Account \cup {Anonymous}, Sound(id),
           NEW j \in Reconcile(id, target)
    PROVE  Sound(j) /\ (j.ready => j.distinct = target)
<1>safe. target # Unsafe
  BY WebNull DEF Anonymous, Unsafe
<1>1. CASE j = id /\ (id.disabled \/ id.ending)
  BY <1>1 DEF Sound
<1>2. CASE ~id.disabled /\ ~id.ending /\ id.marker = target /\ j = [id EXCEPT !.ready = TRUE]
  BY <1>2, <1>safe DEF Sound, IdentityState
<1>3. CASE j = Disabled(id, id.distinct, id.marker)
  BY <1>3, DisabledSound DEF Sound
<1>4. CASE \E d \in {id.distinct, Anonymous, target} : j = Disabled(id, d, Unsafe)
  BY <1>4, DisabledSound
<1>5. CASE j = Disabled(id, Anonymous, Anonymous)
  BY <1>5, DisabledSound
<1>6. CASE /\ ~id.disabled /\ ~id.ending
           /\ j = [id EXCEPT !.distinct = target, !.marker = target, !.ready = TRUE]
  BY <1>6 DEF Sound, IdentityState
<1>7. \/ j = id /\ (id.disabled \/ id.ending)
      \/ ~id.disabled /\ ~id.ending /\
         \/ id.marker = target /\ j = [id EXCEPT !.ready = TRUE]
         \/ j = Disabled(id, id.distinct, id.marker)
         \/ \E d \in {id.distinct, Anonymous, target} : j = Disabled(id, d, Unsafe)
         \/ j = Disabled(id, Anonymous, Anonymous)
         \/ j = [id EXCEPT !.distinct = target, !.marker = target, !.ready = TRUE]
  BY ReconcileCases
<1> QED BY <1>1, <1>2, <1>3, <1>4, <1>5, <1>6, <1>7

LEMMA EndingFinishedSound ==
    ASSUME NEW id \in IdentityState, NEW target \in Account \cup {Anonymous}, Sound(id),
           NEW j \in EndingFinished(id, target)
    PROVE  Sound(j) /\ (j.ready => j.distinct = target)
<1> DEFINE i == [id EXCEPT !.ending = FALSE]
<1>1. i \in IdentityState /\ Sound(i)
  BY DEF IdentityState, Sound
<1>2. j \in Reconcile(i, target)
  BY DEF EndingFinished
<1> HIDE DEF i
<1> QED BY <1>1, <1>2, ReconcileSound

LEMMA FollowedSound ==
    ASSUME NEW id \in IdentityState, NEW u \in Account \cup {NULL}, NEW settled \in BOOLEAN,
           Sound(id), NEW j \in Followed(id, u, settled)
    PROVE  Sound(j) /\ (j.ready /\ settled => j.distinct = IdOf(u))
<1>1. IdOf(u) \in Account \cup {Anonymous}
  BY DEF IdOf
<1>2. CASE settled
  BY <1>1, <1>2, ReconcileSound DEF Followed
<1>3. CASE ~settled
  BY <1>3 DEF Followed
<1> QED BY <1>2, <1>3

LEMMA IdentityStep ==
    ASSUME WebTypeOK, WebTypeOK', MarkerIsDistinct, ReadyMeansMe, [Next]_vars
    PROVE  MarkerIsDistinct' /\ ReadyMeansMe'
<1> USE DEF MarkerIsDistinct, ReadyMeansMe
<1>type. /\ identity \in IdentityState
         /\ user \in Account \cup {NULL} /\ user' \in Account \cup {NULL}
         /\ initialized \in BOOLEAN /\ initialized' \in BOOLEAN
  BY DEF WebTypeOK
<1>id. /\ IdOf(user) \in Account \cup {Anonymous} /\ IdOf(user)' \in Account \cup {Anonymous}
  BY <1>type DEF IdOf
<1>1. CASE UNCHANGED <<identity, user, initialized>>
  BY <1>1 DEF Sound, IdOf
<1>2. CASE RefreshAnswered
  <2>1. CASE Outdated
    BY <1>1, <1>2, <2>1 DEF RefreshAnswered
  <2>2. CASE ~Outdated
    <3>1. identity' \in Followed(identity, user', initialized')
      BY <1>2, <2>2 DEF RefreshAnswered
    <3> QED BY <3>1, <1>type, FollowedSound DEF IdOf
  <2> QED BY <2>1, <2>2
<1>3. CASE RefreshExpired
  <2>1. CASE Outdated
    BY <1>1, <1>3, <2>1 DEF RefreshExpired
  <2>2. CASE ~Outdated
    <3>1. identity' \in Followed(identity, user', initialized')
      BY <1>3, <2>2 DEF RefreshExpired
    <3> QED BY <3>1, <1>type, FollowedSound DEF IdOf
  <2> QED BY <2>1, <2>2
<1>4. ASSUME NEW kind \in {"logout", "delete"}, EndingBegins(kind)
      PROVE  MarkerIsDistinct' /\ ReadyMeansMe'
  BY <1>4, <1>type DEF EndingBegins, EndingBegun, Sound, IdentityState
<1>5. CASE EndingDone
  <2>1. identity' \in EndingFinished(identity, Anonymous) /\ user' = NULL
    BY <1>5 DEF EndingDone
  <2>2. IdOf(user)' = Anonymous
    BY <2>1 DEF IdOf
  <2>3. Sound(identity') /\ (identity'.ready => identity'.distinct = Anonymous)
    BY <2>1, <1>type, EndingFinishedSound
  <2> QED BY <2>2, <2>3 DEF Sound
<1>6. CASE EndingFails
  <2>1. identity' \in EndingFinished(identity, IdOf(user)) /\ user' = user
    BY <1>6 DEF EndingFails
  <2>2. Sound(identity') /\ (identity'.ready => identity'.distinct = IdOf(user))
    BY <2>1, <1>type, <1>id, EndingFinishedSound
  <2> QED BY <2>1, <2>2 DEF Sound, IdOf
<1>7. CASE LoginAnswered
  <2>1. identity' \in Followed(identity, user', initialized) /\ initialized' = initialized
    BY <1>7 DEF LoginAnswered
  <2> QED BY <2>1, <1>type, FollowedSound DEF IdOf
<1>8. CASE Reload
  BY <1>8, <1>type DEF Reload, Sound, IdentityState
<1>9. CASE \/ IntervalFires \/ RequestUnauthorized \/ RefreshSend \/ RefreshServed
           \/ EndingSend \/ EndingServed \/ (\E s \in SignIn : LoginSend(s))
           \/ LoginServed \/ LoginFails \/ (\E o \in orphans : OrphanServed(o))
           \/ UNCHANGED vars
  <2>1. UNCHANGED <<identity, user, initialized>>
    BY <1>9 DEF IntervalFires, RequestUnauthorized, RefreshSend, RefreshServed, EndingSend,
                EndingServed, LoginSend, LoginServed, LoginFails, OrphanServed, vars
  <2> QED BY <1>1, <2>1
<1> QED BY <1>2, <1>3, <1>4, <1>5, <1>6, <1>7, <1>8, <1>9 DEF Next, EndingStep

\* Analytics events are sent under the distinct id of the user on display and
\* of nobody else: every way in which reconcile can fail leaves the identity
\* disabled, and a marker that can be read says what PostHog was told.
THEOREM WebIdentity == Spec => []ReadyMeansMe
<1>1. Init => MarkerIsDistinct /\ ReadyMeansMe
  BY DEF Init, MarkerIsDistinct, Sound, ReadyMeansMe
<1>2. WebTypeOK /\ WebTypeOK' /\ MarkerIsDistinct /\ ReadyMeansMe /\ [Next]_vars
        => MarkerIsDistinct' /\ ReadyMeansMe'
  BY IdentityStep
<1> QED BY <1>1, <1>2, WebTypes, PTL DEF Spec

-----------------------------------------------------------------------------
(* The sign-ins the browser holds *)

LEMMA JoinedKeeps ==
    ASSUME NEW e \in Nat, NEW callers \in SUBSET Caller, NEW retry \in BOOLEAN,
           refresh \in Refresh \cup {NULL}, RefreshOK
    PROVE  LET r == Joined(refresh, e, callers, retry) IN
           IF refresh = NULL
           THEN r.stage = "csrf" /\ r.token = NULL /\ r.answer = NULL
           ELSE r.stage = refresh.stage /\ r.token = refresh.token /\ r.answer = refresh.answer
BY DEF Joined, NewRefresh, Refresh

\* A refresh that replaces another one and is no further than it
Follows ==
    refresh' # NULL =>
        IF refresh = NULL
        THEN refresh'.stage = "csrf" /\ refresh'.token = NULL /\ refresh'.answer = NULL
        ELSE /\ refresh'.stage = refresh.stage
             /\ refresh'.token = refresh.token
             /\ refresh'.answer = refresh.answer

LEMMA FollowsOK ==
    ASSUME RefreshOK, Follows, flow' = NULL \/ flow # NULL
    PROVE  RefreshOK'
BY DEF RefreshOK, Follows

\* A step that takes hold of no other sign-in and signs out of none
LEMMA HeldShrinks ==
    ASSUME WebTypeOK, WebTypeOK', HeldOK,
           known' = known, signedOut' = signedOut,
           \A s \in SignIn : Held(s)' => Held(s),
           flow' # NULL /\ flow'.token # NULL =>
               \/ Held(flow'.token.signIn)
               \/ flow # NULL /\ flow.token = flow'.token,
           login' # NULL => login' = login \/ login'.stage # "served"
    PROVE  HeldOK'
<1>1. flow' # NULL /\ flow'.token # NULL => flow'.token.signIn \in SignIn
  BY DEF WebTypeOK, Ending, Token
<1>2. login # NULL => login.signIn \in SignIn
  BY DEF WebTypeOK, Login
<1>3. flow' # NULL /\ flow'.token # NULL => flow'.token.signIn \in known'
  BY <1>1 DEF HeldOK
<1>4. ASSUME login' # NULL, login'.stage = "served"
      PROVE  /\ login'.signIn \in known'
             /\ login'.signIn \notin signedOut'
             /\ ~Held(login.signIn)'
             /\ flow' # NULL /\ flow'.token # NULL => flow'.token.signIn # login'.signIn
  <2>1. login' = login
    BY <1>4
  <2> QED BY <1>2, <1>4, <2>1 DEF HeldOK
<1>5. login' # NULL /\ login'.stage = "served" => login' = login
  OBVIOUS
<1>6. ASSUME NEW s \in SignIn, Held(s)'
      PROVE  s \in known' /\ s \notin signedOut'
  BY <1>6 DEF HeldOK
<1>7. (login' # NULL /\ login'.stage = "served") => ~Held(login.signIn)' /\ login' = login
  BY <1>4, <1>5
<1>8. signedOut' \subseteq known'
  BY DEF HeldOK
<1> QED BY <1>3, <1>4, <1>6, <1>7, <1>8 DEF HeldOK, Held

LEMMA HeldStep ==
    ASSUME WebTypeOK, WebTypeOK', RefreshOK, HeldOK, [Next]_vars
    PROVE  RefreshOK' /\ HeldOK'
<1> USE WebNull
<1>type. /\ refresh \in Refresh \cup {NULL} /\ refreshEpoch \in Nat
         /\ {Me} \in SUBSET Caller /\ {} \in SUBSET Caller
         /\ sessionEnding = (flow # NULL)
         /\ jar \in Token \cup {NULL} /\ access \in SignIn \cup {NULL}
  BY DEF WebTypeOK, Me, Caller
<1>tok. \A t \in Token : t # NULL /\ t.signIn \in SignIn
  BY DEF Token
<1>1. CASE IntervalFires
  <2>1. Follows /\ flow' = NULL
    BY <1>1, <1>type, JoinedKeeps DEF IntervalFires, Follows
  <2>2. \A s \in SignIn : Held(s)' => Held(s)
    BY <2>1, <1>1 DEF IntervalFires, Held, Follows
  <2> QED BY <2>1, <2>2, <1>1, HeldShrinks, FollowsOK DEF IntervalFires, server
<1>2. CASE RequestUnauthorized
  <2>1. Follows /\ flow' = NULL
    BY <1>2, <1>type, JoinedKeeps DEF RequestUnauthorized, Follows
  <2>2. \A s \in SignIn : Held(s)' => Held(s)
    BY <2>1, <1>2 DEF RequestUnauthorized, Held, Follows
  <2> QED BY <2>1, <2>2, <1>2, HeldShrinks, FollowsOK DEF RequestUnauthorized, server
<1>3. CASE RefreshSend
  <2>1. CASE Outdated
    <3>1. refresh' = NULL
      BY <1>3, <2>1 DEF RefreshSend
    <3>2. RefreshOK'
      BY <3>1 DEF RefreshOK
    <3>3. \A s \in SignIn : Held(s)' => Held(s)
      BY <3>1, <1>3 DEF RefreshSend, Held
    <3> QED BY <3>2, <3>3, <1>3, HeldShrinks DEF RefreshSend, server
  <2>2. CASE ~Outdated
    <3>1. /\ refresh' = [refresh EXCEPT !.stage = "sent", !.token = jar]
          /\ refresh # NULL /\ refresh.stage = "csrf" /\ flow = NULL /\ flow' = NULL
      BY <1>3, <2>2, <1>type DEF RefreshSend, Outdated
    <3>2. refresh'.stage = "sent" /\ refresh'.token = jar /\ refresh'.answer = NULL
      BY <3>1, <1>type, <1>tok DEF Refresh, RefreshOK
    <3>3. RefreshOK'
      BY <3>1, <3>2 DEF RefreshOK
    <3>4. \A s \in SignIn : Held(s)' => Held(s)
      BY <3>2, <1>3 DEF RefreshSend, Held
    <3> QED BY <3>3, <3>4, <1>3, HeldShrinks DEF RefreshSend, server
  <2> QED BY <2>1, <2>2
<1>4. CASE RefreshServed
  <2>1. flow = NULL /\ flow' = NULL /\ refresh \in Refresh
    BY <1>4, <1>type DEF RefreshServed, RefreshOK
  <2>2. refresh'.stage = "served" /\ refresh'.token = refresh.token /\ known' = known
    BY <1>4, <2>1 DEF RefreshServed, Refresh, Server!Rotate, server
  <2>3. refresh'.answer # NULL =>
          refresh'.token # NULL /\ refresh'.answer.signIn = refresh'.token.signIn
    <3>1. CASE refresh.token \in good
      <4>1. refresh.token \in Token /\ refresh.token.round < MaxRound
        BY <3>1, <1>4 DEF RefreshServed, WebTypeOK
      <4>2. refresh'.answer = Server!NextToken(refresh.token)
        BY <3>1, <2>1, <1>4 DEF RefreshServed, Refresh
      <4> QED BY <4>1, <4>2, <2>2, <1>tok, NextTokenType
    <3>2. CASE refresh.token \notin good
      <4>1. refresh'.answer = refresh.answer
        BY <3>2, <2>1, <1>4 DEF RefreshServed, Refresh
      <4> QED BY <4>1, <2>2, <1>4 DEF RefreshOK, RefreshServed
    <3> QED BY <3>1, <3>2
  <2>4. RefreshOK'
    BY <2>1, <2>2, <2>3 DEF RefreshOK
  <2>5. \A s \in SignIn : Held(s)' => Held(s)
    BY <2>2, <1>4 DEF RefreshServed, Held
  <2> QED BY <2>1, <2>2, <2>4, <2>5, <1>4, HeldShrinks DEF RefreshServed
<1>5. CASE RefreshAnswered
  <2>1. /\ refresh # NULL /\ refresh.token # NULL
        /\ jar' = refresh.answer /\ refresh.answer.signIn = refresh.token.signIn
        /\ access' = access \/ access' = refresh.answer.signIn
        /\ refresh' = NULL
    BY <1>5 DEF RefreshAnswered, RefreshOK
  <2>2. \A s \in SignIn : Held(s)' => Held(s)
    BY <2>1 DEF Held
  <2>3. RefreshOK'
    BY <2>1 DEF RefreshOK
  <2> QED BY <2>2, <2>3, <1>5, HeldShrinks DEF RefreshAnswered, server
<1>6. CASE RefreshExpired
  <2>1. jar' = jar /\ (access' = access \/ access' = NULL) /\ refresh' = NULL
    BY <1>6 DEF RefreshExpired
  <2>2. \A s \in SignIn : Held(s)' => Held(s)
    BY <2>1 DEF Held
  <2>3. RefreshOK'
    BY <2>1 DEF RefreshOK
  <2> QED BY <2>2, <2>3, <1>6, HeldShrinks DEF RefreshExpired, server
<1>7. ASSUME NEW kind \in {"logout", "delete"}, EndingBegins(kind)
      PROVE  RefreshOK' /\ HeldOK'
  <2>1. refresh' = NULL \/ (refresh' = refresh /\ (refresh = NULL \/ refresh.stage = "csrf"))
    BY <1>7 DEF EndingBegins, Aborted
  <2>2. RefreshOK'
    BY <2>1 DEF RefreshOK
  <2>3. jar' = jar \/ (refresh # NULL /\ refresh.answer # NULL /\ jar' = refresh.answer)
    BY <1>7 DEF EndingBegins, CookieAfter
  <2>4. \A s \in SignIn : Held(s)' => Held(s)
    BY <2>1, <2>3, <1>7 DEF EndingBegins, Held, RefreshOK
  <2>5. flow'.token = NULL
    BY <1>7 DEF EndingBegins
  <2> QED BY <2>2, <2>4, <2>5, <1>7, HeldShrinks DEF EndingBegins, server
<1>8. CASE EndingSend
  <2>1. flow # NULL /\ flow \in Ending
    BY <1>8 DEF EndingSend, WebTypeOK
  <2>2. flow'.token = IF flow.kind = "logout" THEN jar
                      ELSE IF access = NULL THEN NULL ELSE Server!FirstToken(access)
    BY <1>8, <2>1 DEF EndingSend, Ending
  <2>3. flow'.token # NULL => Held(flow'.token.signIn)
    BY <2>2, <1>type DEF Held, Server!FirstToken
  <2>4. RefreshOK'
    BY <1>8, <2>1 DEF EndingSend, RefreshOK
  <2>5. \A s \in SignIn : Held(s)' => Held(s)
    BY <1>8 DEF EndingSend, Held
  <2> QED BY <2>3, <2>4, <2>5, <1>8, HeldShrinks DEF EndingSend, server
<1>9. CASE EndingServed
  <2>1. flow # NULL /\ flow \in Ending
    BY <1>9 DEF EndingServed, WebTypeOK
  <2>2. flow'.token = flow.token /\ known' = known
    BY <1>9, <2>1 DEF EndingServed, Ending, server, ServerEnds, Server!EndTokens
  <2>3. RefreshOK'
    BY <1>9, <2>1 DEF EndingServed, RefreshOK
  <2>4. \A s \in SignIn : Held(s)' => Held(s)
    BY <1>9 DEF EndingServed, Held
  <2> QED BY <2>1, <2>2, <2>3, <2>4, <1>9, HeldShrinks DEF EndingServed
<1>10. CASE EndingDone
  <2>1. /\ flow # NULL /\ flow' = NULL /\ refresh' = refresh
        /\ refresh # NULL => refresh.stage = "csrf" /\ refresh.token = NULL
        /\ access' = NULL /\ known' = known /\ login' = login
    BY <1>10 DEF EndingDone, RefreshOK, server
  <2>2. RefreshOK'
    BY <2>1 DEF RefreshOK
  <2>3. CASE flow.kind = "logout"
    <3>1. jar' = NULL
      BY <1>10, <2>3 DEF EndingDone
    <3>2. \A s \in SignIn : ~Held(s)'
      BY <2>1, <3>1 DEF Held
    <3>3. signedOut' = signedOut \/ (/\ flow.token # NULL
                                     /\ signedOut' = signedOut \cup {flow.token.signIn})
      BY <1>10 DEF EndingDone
    <3>4. signedOut' \subseteq known'
      BY <3>3, <2>1 DEF HeldOK
    <3>5. ASSUME login' # NULL, login'.stage = "served"
          PROVE  login'.signIn \in known' /\ login'.signIn \notin signedOut'
      BY <3>3, <3>5, <2>1 DEF HeldOK
    <3>6. login' # NULL => login'.signIn \in SignIn
      BY DEF WebTypeOK, Login
    <3>7. login' # NULL => ~Held(login.signIn)'
      BY <3>2, <3>6, <2>1
    <3> QED BY <2>1, <2>2, <3>2, <3>4, <3>5, <3>7 DEF HeldOK
  <2>4. CASE flow.kind # "logout"
    <3>1. \A s \in SignIn : Held(s)' => Held(s)
      BY <2>1, <2>4, <1>10 DEF EndingDone, Held
    <3> QED BY <2>1, <2>2, <2>4, <3>1, <1>10, HeldShrinks DEF EndingDone
  <2> QED BY <2>3, <2>4
<1>11. CASE EndingFails
  <2>1. Follows /\ flow' = NULL
    BY <1>11, <1>type, JoinedKeeps DEF EndingFails, Follows
  <2>2. \A s \in SignIn : Held(s)' => Held(s)
    BY <2>1, <1>11 DEF EndingFails, Held, Follows
  <2> QED BY <2>1, <2>2, <1>11, HeldShrinks, FollowsOK DEF EndingFails, server
<1>12. ASSUME NEW s \in SignIn, LoginSend(s)
       PROVE  RefreshOK' /\ HeldOK'
  <2>1. login'.stage = "sent" /\ RefreshOK'
    BY <1>12 DEF LoginSend, RefreshOK
  <2>2. \A t \in SignIn : Held(t)' => Held(t)
    BY <1>12 DEF LoginSend, Held
  <2> QED BY <2>1, <2>2, <1>12, HeldShrinks DEF LoginSend, server
<1>13. CASE LoginServed
  <2>1. /\ login # NULL /\ login \in Login /\ login.signIn \in SignIn
        /\ login' # NULL /\ login'.signIn = login.signIn
        /\ login.signIn \notin known /\ known' = known \cup {login.signIn}
    BY <1>13 DEF LoginServed, WebTypeOK, Login, Server!Enter
  <2>2. \A s \in SignIn : Held(s)' <=> Held(s)
    BY <1>13 DEF LoginServed, Held
  <2>3. ~Held(login.signIn) /\ login.signIn \notin signedOut
    BY <2>1 DEF HeldOK
  <2>4. ~Held(login.signIn)'
    BY <2>1, <2>2, <2>3
  <2>6. signedOut' = signedOut /\ flow' = flow /\ RefreshOK'
    BY <1>13 DEF LoginServed, RefreshOK
  <2>7. \A s \in SignIn : Held(s)' => s \in known' /\ s \notin signedOut'
    BY <2>1, <2>2, <2>6 DEF HeldOK
  <2>8. flow' # NULL /\ flow'.token # NULL =>
          flow'.token.signIn \in known' /\ flow'.token.signIn # login'.signIn
    BY <2>1, <2>6 DEF HeldOK
  <2>9. signedOut' \subseteq known' /\ login'.signIn \in known' /\ login'.signIn \notin signedOut'
    BY <2>1, <2>3, <2>6 DEF HeldOK
  <2> QED BY <2>1, <2>4, <2>6, <2>7, <2>8, <2>9 DEF HeldOK
<1>14. CASE LoginAnswered
  <2>1. /\ login # NULL /\ login.stage = "served" /\ login.signIn \in SignIn
        /\ jar'.signIn = login.signIn /\ access' = login.signIn
        /\ known' = known /\ signedOut' = signedOut /\ flow' = flow /\ refresh' = refresh
        /\ login' = NULL
    BY <1>14 DEF LoginAnswered, WebTypeOK, Login, Server!FirstToken, server
  <2>2. \A s \in SignIn : Held(s)' => Held(s) \/ s = login.signIn
    BY <2>1 DEF Held
  <2>3. \A s \in SignIn : Held(s)' => s \in known' /\ s \notin signedOut'
    BY <2>1, <2>2 DEF HeldOK
  <2>4. RefreshOK'
    BY <2>1 DEF RefreshOK
  <2> QED BY <2>1, <2>3, <2>4 DEF HeldOK
<1>15. CASE LoginFails
  <2>1. RefreshOK' /\ \A s \in SignIn : Held(s)' => Held(s)
    BY <1>15 DEF LoginFails, RefreshOK, Held
  <2> QED BY <2>1, <1>15, HeldShrinks DEF LoginFails, server
<1>16. ASSUME NEW o \in orphans, OrphanServed(o)
       PROVE  RefreshOK' /\ HeldOK'
  <2>1. RefreshOK' /\ \A s \in SignIn : Held(s)' => Held(s)
    BY <1>16 DEF OrphanServed, RefreshOK, Held
  <2>2. known' = known
    BY <1>16 DEF OrphanServed, Server!Rotate, ServerEnds, Server!EndTokens
  <2> QED BY <2>1, <2>2, <1>16, HeldShrinks DEF OrphanServed
<1>17. CASE Reload
  <2>1. refresh'.stage = "csrf" /\ refresh'.token = NULL /\ refresh'.answer = NULL
    BY <1>17 DEF Reload, NewRefresh
  <2>2. RefreshOK'
    BY <2>1, <1>17 DEF Reload, RefreshOK
  <2>3. jar' = jar \/ (refresh # NULL /\ refresh.answer # NULL /\ jar' = refresh.answer)
    BY <1>17 DEF Reload, CookieAfter
  <2>4. \A s \in SignIn : Held(s)' => Held(s)
    BY <2>1, <2>3, <1>17 DEF Reload, Held, RefreshOK
  <2> QED BY <2>2, <2>4, <1>17, HeldShrinks DEF Reload, server
<1>18. CASE UNCHANGED vars
  <2>1. RefreshOK' /\ \A s \in SignIn : Held(s)' => Held(s)
    BY <1>18 DEF vars, RefreshOK, Held
  <2> QED BY <2>1, <1>18, HeldShrinks DEF vars
<1> QED BY <1>1, <1>2, <1>3, <1>4, <1>5, <1>6, <1>7, <1>8, <1>9, <1>10, <1>11, <1>12,
           <1>13, <1>14, <1>15, <1>16, <1>17, <1>18 DEF Next, EndingStep

\* A browser that was told a logout succeeded holds neither cookie nor access
\* token of that sign-in any more, whatever refresh, sign-in or orphaned request
\* was on its way: the latch aborts the refresh, and the sign-in that may still
\* be answered is another one.
THEOREM WebSignedOut == Spec => []SignedOutStays
<1>1. Init => RefreshOK /\ HeldOK
  <2> SUFFICES ASSUME Init PROVE RefreshOK /\ HeldOK
    OBVIOUS
  <2>1. refresh.stage = "csrf" /\ refresh.token = NULL /\ refresh.answer = NULL
    BY DEF Init, NewRefresh
  <2> QED BY <2>1, WebNull DEF Init, RefreshOK, HeldOK, Held
<1>2. WebTypeOK /\ WebTypeOK' /\ RefreshOK /\ HeldOK /\ [Next]_vars => RefreshOK' /\ HeldOK'
  BY HeldStep
<1>3. WebTypeOK /\ HeldOK => SignedOutStays
  <2> SUFFICES ASSUME WebTypeOK, HeldOK PROVE SignedOutStays
    OBVIOUS
  <2>1. access \notin signedOut
    BY WebNull DEF WebTypeOK, HeldOK, Held
  <2>2. jar # NULL => jar.signIn \notin signedOut
    BY DEF WebTypeOK, HeldOK, Held, Token
  <2> QED BY <2>1, <2>2 DEF SignedOutStays
<1> QED BY <1>1, <1>2, <1>3, WebTypes, PTL DEF Spec

-----------------------------------------------------------------------------
(* The server *)

\* The browser asks of the server nothing but what SignIns offers: signing in,
\* rotating a good token, ending tokens.  What Accounts is shown to implement is
\* what the browser is checked against.
THEOREM WebServer == Spec => Server!SignInsSpec
<1> USE DEF Server!SignInsNext, Server!signInVars
<1>1. Init => Server!SignInsInit
  BY DEF Init
<1>2. WebTypeOK /\ [Next]_vars => [Server!SignInsNext]_(Server!signInVars)
  <2> SUFFICES ASSUME WebTypeOK, [Next]_vars
               PROVE  Server!SignInsNext \/ UNCHANGED <<known, good>>
    OBVIOUS
  <2>1. ASSUME NEW kind, NEW token, ServerEnds(kind, token)
        PROVE  Server!SignInsNext
    <3>1. PICK T \in SUBSET good : Server!EndTokens(T)
      BY <2>1 DEF ServerEnds, Ended
    <3> QED BY <3>1
  <2>2. CASE RefreshServed
    BY <2>2 DEF RefreshServed, server
  <2>3. CASE EndingServed
    BY <2>1, <2>3 DEF EndingServed, server
  <2>4. CASE LoginServed
    <3>1. login.signIn \in SignIn /\ Server!Enter(login.signIn)
      BY <2>4 DEF LoginServed, WebTypeOK, Login
    <3> QED BY <3>1
  <2>5. ASSUME NEW o \in orphans, OrphanServed(o)
        PROVE  Server!SignInsNext
    BY <2>1, <2>5 DEF OrphanServed
  <2>6. CASE \/ IntervalFires \/ RequestUnauthorized \/ RefreshSend \/ RefreshAnswered
             \/ RefreshExpired \/ (\E kind \in {"logout", "delete"} : EndingBegins(kind))
             \/ EndingSend \/ EndingDone \/ EndingFails \/ (\E s \in SignIn : LoginSend(s))
             \/ LoginAnswered \/ LoginFails \/ Reload \/ UNCHANGED vars
    BY <2>6 DEF IntervalFires, RequestUnauthorized, RefreshSend, RefreshAnswered, RefreshExpired,
                EndingBegins, EndingSend, EndingDone, EndingFails, LoginSend, LoginAnswered,
                LoginFails, Reload, server, vars
  <2> QED BY <2>2, <2>3, <2>4, <2>5, <2>6 DEF Next, EndingStep
<1> QED BY <1>1, <1>2, WebTypes, PTL DEF Spec, Server!SignInsSpec

=============================================================================
