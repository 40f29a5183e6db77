----------------------------- MODULE WebSession -----------------------------
(***************************************************************************)
(* The session of the web application in one browser: the refresh cookie,  *)
(* the access token of api/client.ts, the hook use-refresh-token.ts that   *)
(* keeps it fresh and ends it, and the analytics identity of               *)
(* lib/analytics/client.ts that must follow it, against a server that is   *)
(* the abstract SignIns.                                                   *)
(*                                                                         *)
(* One document at a time: a reload loses everything in memory and keeps   *)
(* the cookie and the storage.  A request is sent, served and answered in  *)
(* three steps; one whose answer nobody waits for any more is in orphans   *)
(* and may still be served.  A change of the signed-in user and the        *)
(* effects and microtasks that follow it are one step.                     *)
(***************************************************************************)
EXTENDS Naturals

CONSTANTS
    SignIn,     \* sign-ins a user makes
    Account,
    AccountOf,  \* [SignIn -> Account]
    NULL,
    MaxRound,   \* bound on the refreshes of one sign-in
    MaxEnding,  \* bound on logouts and deletions of a document
    MaxReload   \* bound on reloads

Anonymous == "anonymous"
Unsafe == "unsafe"  \* the marker says reconciling, or nothing readable

Token == [signIn : SignIn, round : 1..MaxRound]

\* A caller of the hook's refreshSession: what it saw when it began.
Caller == [generation : Nat, access : SignIn \cup {NULL}]

\* The shared promise of refreshAccessToken; retry: a request that met 401
\* waits for it too.
Refresh == [stage : {"csrf", "sent", "served"}, epoch : Nat,
            token : Token \cup {NULL}, answer : Token \cup {NULL},
            callers : SUBSET Caller, retry : BOOLEAN]

\* good: the server did what it was asked.
Ending == [kind : {"logout", "delete"}, stage : {"begun", "sent", "served"},
           token : Token \cup {NULL}, good : BOOLEAN]

Login == [signIn : SignIn, stage : {"sent", "served"}]

Orphan == [kind : {"refresh", "logout", "delete"}, token : Token]

IdentityState == [marker : Account \cup {Anonymous, Unsafe},
                  distinct : Account \cup {Anonymous},
                  ready : BOOLEAN, disabled : BOOLEAN, ending : BOOLEAN]

ASSUME WebNull ==
    /\ NULL \notin SignIn \cup Account \cup Token \cup Refresh \cup Ending \cup Login
    /\ Account \cap {Anonymous, Unsafe} = {}
ASSUME WebConstants ==
    /\ AccountOf \in [SignIn -> Account]
    /\ MaxRound \in Nat \ {0}
    /\ MaxEnding \in Nat
    /\ MaxReload \in Nat

VARIABLES
    known, good,    \* the server, see SignIns
    deleted,        \* accounts the server deleted
    jar,            \* the refresh cookie
    access,         \* client.ts accessToken: the sign-in it is of
    user,           \* currentUserIdAtom
    initialized,    \* isAuthInitializedAtom
    sessionEnding,  \* client.ts
    refreshEpoch,   \* client.ts
    refresh,        \* client.ts refreshPromise
    generation,     \* use-refresh-token.ts
    interval,       \* use-refresh-token.ts: the 14 minute timer runs
    flow,           \* a logout or an account deletion on its way
    login,          \* a sign-in on its way
    identity,       \* analytics: stored marker and distinct id, and memory
    orphans,        \* requests nobody waits for
    reloads,
    signedOut       \* history: sign-ins this browser logged out of

server == <<known, good, deleted>>
vars == <<known, good, deleted, jar, access, user, initialized, sessionEnding,
          refreshEpoch, refresh, generation, interval, flow, login, identity,
          orphans, reloads, signedOut>>

Server == INSTANCE SignIns

-----------------------------------------------------------------------------
(* Analytics identity *)

UserIdAsIs(u) == u
IdOf(u) == IF u = NULL THEN Anonymous ELSE u

\* disableAfterIdentityMutationFailure, disableAfterCommitFailure: the document
\* sends nothing more; the reset may fail too, and so may clearing the marker.
Disabled(id, distinct, marker) ==
    [id EXCEPT !.disabled = TRUE, !.ready = FALSE, !.distinct = distinct, !.marker = marker]

MarkerKept(id, target) == id.marker
MarkerReconciling(id, target) == Unsafe

\* The outcomes of reconcile when the marker does not say target: storage that
\* can not be read or written, PostHog calls that throw, a document that dies
\* between two writes, or success.
Reconciled(id, target) ==
    LET during == MarkerReconciling(id, target) IN
    {Disabled(id, id.distinct, id.marker)}
    \cup {Disabled(id, d, during) : d \in {id.distinct, Anonymous, target}}
    \cup {Disabled(id, Anonymous, Anonymous)}
    \cup {[id EXCEPT !.distinct = target, !.marker = target,
                     !.ready = TRUE]}

\* reconcilePersistedIdentity
Reconcile(id, target) ==
    IF id.disabled \/ id.ending THEN {id}
    ELSE IF id.marker = target THEN {[id EXCEPT !.ready = TRUE],
                                     Disabled(id, id.distinct, id.marker)}
    ELSE Reconciled(id, target)

EndingBegun(id) == [id EXCEPT !.ending = TRUE, !.ready = FALSE]
EndingFinished(id, target) == Reconcile([id EXCEPT !.ending = FALSE], target)

\* AnalyticsProvider follows the user once authentication is initialized.
Followed(id, u, settled) == IF settled THEN Reconcile(id, IdOf(u)) ELSE {id}

-----------------------------------------------------------------------------
(* Refreshing *)

NewRefresh(e, callers, retry) ==
    [stage |-> "csrf", epoch |-> e, token |-> NULL, answer |-> NULL,
     callers |-> callers, retry |-> retry]

\* refreshAccessToken: one promise for everybody; none while the session ends.
Joined(r, e, callers, retry) ==
    IF r = NULL THEN NewRefresh(e, callers, retry)
    ELSE [r EXCEPT !.callers = @ \cup callers, !.retry = @ \/ retry]

\* A request that was sent with a good token, seen by nobody from now on.
Unserved(kind, r) ==
    IF r # NULL /\ r.stage = "sent" /\ (r.token \in good \/ (kind = "delete" /\ r.token # NULL))
    THEN {[kind |-> kind, token |-> r.token]} ELSE {}

\* An answer given up may have set the cookie before.
CookieAfter(r) ==
    {jar} \cup (IF r # NULL /\ r.answer # NULL THEN {r.answer} ELSE {})

NotAborted(r) == r

\* refreshAbortController.abort(): what is left of a refresh that was sent.
Aborted(r) == IF r # NULL /\ r.stage # "csrf" THEN NULL ELSE r

Me == [generation |-> generation, access |-> access]

Init ==
    /\ Server!SignInsInit
    /\ deleted = {}
    /\ jar = NULL
    /\ access = NULL /\ user = NULL /\ initialized = FALSE
    /\ sessionEnding = FALSE /\ refreshEpoch = 0
    /\ generation = 0 /\ interval = FALSE
    /\ refresh = NewRefresh(0, {[generation |-> 0, access |-> NULL]}, FALSE)
    /\ flow = NULL /\ login = NULL
    /\ \E m \in {Anonymous, Unsafe} :
        identity = [marker |-> m, distinct |-> Anonymous, ready |-> FALSE,
                    disabled |-> FALSE, ending |-> FALSE]
    /\ orphans = {}
    /\ reloads = 0
    /\ signedOut = {}

\* The timer of the hook.
IntervalFires ==
    /\ interval
    /\ ~sessionEnding
    /\ refresh' = Joined(refresh, refreshEpoch, {Me}, FALSE)
    /\ UNCHANGED <<server, jar, access, user, initialized, sessionEnding, refreshEpoch,
                   generation, interval, flow, login, identity, orphans, reloads, signedOut>>

\* A request that is answered 401 asks for a refresh before it tries again.
RequestUnauthorized ==
    /\ ~sessionEnding
    /\ refresh' = Joined(refresh, refreshEpoch, {}, TRUE)
    /\ UNCHANGED <<server, jar, access, user, initialized, sessionEnding, refreshEpoch,
                   generation, interval, flow, login, identity, orphans, reloads, signedOut>>

Outdated == sessionEnding \/ refresh.epoch # refreshEpoch

\* The CSRF token is there; the session may have begun to end meanwhile.
RefreshSend ==
    /\ refresh # NULL
    /\ refresh.stage = "csrf"
    /\ refresh' = IF Outdated THEN NULL
                  ELSE [refresh EXCEPT !.stage = "sent", !.token = jar]
    /\ UNCHANGED <<server, jar, access, user, initialized, sessionEnding, refreshEpoch,
                   generation, interval, flow, login, identity, orphans, reloads, signedOut>>

RefreshServed ==
    /\ refresh # NULL
    /\ refresh.stage = "sent"
    /\ IF refresh.token \in good
       THEN /\ refresh.token.round < MaxRound
            /\ Server!Rotate(refresh.token)
            /\ UNCHANGED deleted
            /\ refresh' = [refresh EXCEPT !.stage = "served", !.answer = Server!NextToken(refresh.token)]
       ELSE /\ refresh' = [refresh EXCEPT !.stage = "served"]
            /\ UNCHANGED server
    /\ UNCHANGED <<jar, access, user, initialized, sessionEnding, refreshEpoch,
                   generation, interval, flow, login, identity, orphans, reloads, signedOut>>

\* setLogin by the callers of this generation; a request that waits only
\* changes the access token.
RefreshAnswered ==
    LET mine == \E c \in refresh.callers : c.generation = generation IN
    /\ refresh # NULL
    /\ refresh.stage = "served"
    /\ refresh.answer # NULL
    /\ jar' = refresh.answer
    /\ IF Outdated THEN UNCHANGED <<access, user, initialized, interval, identity>>
       ELSE /\ access' = refresh.answer.signIn
            /\ user' = IF mine THEN AccountOf[access'] ELSE user
            /\ initialized' = (initialized \/ mine)
            /\ interval' = (interval \/ mine)
            /\ identity' \in Followed(identity, user', initialized')
    /\ refresh' = NULL
    /\ UNCHANGED <<server, sessionEnding, refreshEpoch, generation, flow, login,
                   orphans, reloads, signedOut>>

\* Refused, or no answer came.  A caller that finds another access token than
\* it began with keeps it, a request that met 401 clears it.
RefreshExpired ==
    LET mine == {c \in refresh.callers : c.generation = generation}
        ends == \E c \in mine : c.access = access IN
    /\ refresh # NULL
    /\ refresh.stage \in {"sent", "served"}
    /\ IF Outdated THEN UNCHANGED <<access, user, initialized, interval, generation, identity>>
       ELSE /\ access' = IF ends \/ refresh.retry THEN NULL ELSE access
            /\ user' = IF ends THEN NULL ELSE user
            /\ generation' = IF ends THEN generation + 1 ELSE generation
            /\ initialized' = (initialized \/ mine # {})
            /\ interval' = IF ends THEN FALSE ELSE interval \/ mine # {}
            /\ identity' \in Followed(identity, user', initialized')
    /\ orphans' = orphans \cup Unserved("refresh", refresh)
    /\ refresh' = NULL
    /\ UNCHANGED <<server, jar, sessionEnding, refreshEpoch, flow, login, reloads, signedOut>>

-----------------------------------------------------------------------------
(* Ending the session: logoutSession, handleDeleteAccount *)

\* beginSessionEnding
EndingBegins(kind) ==
    /\ user # NULL
    /\ flow = NULL
    /\ refreshEpoch < MaxEnding
    /\ flow' = [kind |-> kind, stage |-> "begun", token |-> NULL, good |-> FALSE]
    /\ identity' = EndingBegun(identity)
    /\ generation' = generation + 1
    /\ interval' = FALSE
    /\ sessionEnding' = TRUE
    /\ refreshEpoch' = refreshEpoch + 1
    /\ refresh' = Aborted(refresh)
    /\ orphans' = IF refresh' = NULL THEN orphans \cup Unserved("refresh", refresh) ELSE orphans
    /\ IF refresh' = NULL THEN jar' \in CookieAfter(refresh) ELSE jar' = jar
    /\ UNCHANGED <<server, access, user, initialized, login, reloads, signedOut>>

\* A logout is about the cookie, a deletion about the access token.
EndingSend ==
    /\ flow # NULL
    /\ flow.stage = "begun"
    /\ flow' = [flow EXCEPT !.stage = "sent",
                 !.token = IF flow.kind = "logout" THEN jar
                           ELSE IF access = NULL THEN NULL ELSE Server!FirstToken(access)]
    /\ UNCHANGED <<server, jar, access, user, initialized, sessionEnding, refreshEpoch, refresh,
                   generation, interval, login, identity, orphans, reloads, signedOut>>

\* What the server ends; it deletes no account twice.
Ended(kind, token) ==
    IF kind = "logout" THEN good \cap {token}
    ELSE {t \in good : AccountOf[t.signIn] = AccountOf[token.signIn]}

ServerEnds(kind, token) ==
    /\ Server!EndTokens(IF token = NULL THEN {} ELSE Ended(kind, token))
    /\ deleted' = IF kind = "delete" THEN deleted \cup {AccountOf[token.signIn]} ELSE deleted

Refused(kind, token) ==
    kind = "delete" /\ (IF token = NULL THEN TRUE ELSE AccountOf[token.signIn] \in deleted)

EndingServed ==
    /\ flow # NULL
    /\ flow.stage = "sent"
    /\ flow' = [flow EXCEPT !.stage = "served", !.good = ~Refused(flow.kind, flow.token)]
    /\ IF Refused(flow.kind, flow.token) THEN UNCHANGED server
       ELSE ServerEnds(flow.kind, flow.token)
    /\ UNCHANGED <<jar, access, user, initialized, sessionEnding, refreshEpoch, refresh,
                   generation, interval, login, identity, orphans, reloads, signedOut>>

\* The answer to a logout removes the cookie, the one to a deletion does not.
EndingDone ==
    /\ flow # NULL
    /\ flow.stage = "served"
    /\ flow.good
    /\ jar' = IF flow.kind = "logout" THEN NULL ELSE jar
    /\ signedOut' = IF flow.kind = "logout" /\ flow.token # NULL
                    THEN signedOut \cup {flow.token.signIn} ELSE signedOut
    /\ access' = NULL
    /\ user' = NULL
    /\ identity' \in EndingFinished(identity, Anonymous)
    /\ sessionEnding' = FALSE
    /\ flow' = NULL
    /\ UNCHANGED <<server, initialized, refreshEpoch, refresh, generation, interval,
                   login, orphans, reloads>>

LeftAlone == interval
Resumed == TRUE

\* No answer or a refusal: the session goes on, with a refresh to begin.
EndingFails ==
    /\ flow # NULL
    /\ orphans' = orphans \cup Unserved(flow.kind, flow)
    /\ identity' \in EndingFinished(identity, IdOf(user))
    /\ sessionEnding' = FALSE
    /\ refresh' = Joined(refresh, refreshEpoch, {Me}, FALSE)
    /\ interval' = Resumed
    /\ flow' = NULL
    /\ UNCHANGED <<server, jar, access, user, initialized, refreshEpoch, generation,
                   login, reloads, signedOut>>

-----------------------------------------------------------------------------
(* Signing in, the server's late work, and reloads *)

LoginSend(s) ==
    /\ user = NULL
    /\ flow = NULL
    /\ login = NULL
    /\ s \notin known
    /\ AccountOf[s] \notin deleted
    /\ login' = [signIn |-> s, stage |-> "sent"]
    /\ UNCHANGED <<server, jar, access, user, initialized, sessionEnding, refreshEpoch, refresh,
                   generation, interval, flow, identity, orphans, reloads, signedOut>>

LoginServed ==
    /\ login # NULL
    /\ login.stage = "sent"
    /\ AccountOf[login.signIn] \notin deleted
    /\ Server!Enter(login.signIn)
    /\ login' = [login EXCEPT !.stage = "served"]
    /\ UNCHANGED <<deleted, jar, access, user, initialized, sessionEnding, refreshEpoch, refresh,
                   generation, interval, flow, identity, orphans, reloads, signedOut>>

\* setLogin; the timer starts by an effect, once authentication is initialized.
LoginAnswered ==
    /\ login # NULL
    /\ login.stage = "served"
    /\ jar' = Server!FirstToken(login.signIn)
    /\ access' = login.signIn
    /\ user' = AccountOf[login.signIn]
    /\ interval' = (interval \/ initialized)
    /\ identity' \in Followed(identity, user', initialized)
    /\ login' = NULL
    /\ UNCHANGED <<server, initialized, sessionEnding, refreshEpoch, refresh, generation,
                   flow, orphans, reloads, signedOut>>

\* Lost before or after it was served; nobody will use what the server made.
LoginFails ==
    /\ login # NULL
    /\ login' = NULL
    /\ UNCHANGED <<server, jar, access, user, initialized, sessionEnding, refreshEpoch, refresh,
                   generation, interval, flow, identity, orphans, reloads, signedOut>>

\* A request nobody waits for reaches the server, if it ever does.
OrphanServed(o) ==
    /\ o \in orphans
    /\ orphans' = orphans \ {o}
    /\ \/ /\ o.kind = "refresh" /\ o.token \in good /\ o.token.round < MaxRound
          /\ Server!Rotate(o.token)
          /\ UNCHANGED deleted
       \/ /\ o.kind \in {"logout", "delete"} /\ ~Refused(o.kind, o.token)
          /\ ServerEnds(o.kind, o.token)
    /\ UNCHANGED <<jar, access, user, initialized, sessionEnding, refreshEpoch, refresh,
                   generation, interval, flow, login, identity, reloads, signedOut>>

Reload ==
    /\ reloads < MaxReload
    /\ reloads' = reloads + 1
    /\ access' = NULL /\ user' = NULL /\ initialized' = FALSE
    /\ sessionEnding' = FALSE /\ refreshEpoch' = 0
    /\ generation' = 0 /\ interval' = FALSE
    /\ refresh' = NewRefresh(0, {[generation |-> 0, access |-> NULL]}, FALSE)
    /\ flow' = NULL /\ login' = NULL
    /\ identity' = [identity EXCEPT !.ready = FALSE, !.disabled = FALSE, !.ending = FALSE]
    /\ orphans' = orphans \cup Unserved("refresh", refresh)
                   \cup (IF flow = NULL THEN {} ELSE Unserved(flow.kind, flow))
    /\ jar' \in CookieAfter(refresh)
    /\ UNCHANGED <<server, signedOut>>

EndingStep == EndingSend \/ EndingServed \/ EndingDone \/ EndingFails

Next ==
    \/ IntervalFires \/ RequestUnauthorized
    \/ RefreshSend \/ RefreshServed \/ RefreshAnswered \/ RefreshExpired
    \/ \E kind \in {"logout", "delete"} : EndingBegins(kind)
    \/ EndingStep
    \/ \E s \in SignIn : LoginSend(s)
    \/ LoginServed \/ LoginAnswered \/ LoginFails
    \/ \E o \in orphans : OrphanServed(o)
    \/ Reload

Spec == Init /\ [][Next]_vars
FairSpec == Spec /\ WF_vars(EndingStep)

-----------------------------------------------------------------------------
(* Properties *)

\* The types, and that the latch of client.ts is on exactly while a logout or a
\* deletion is on its way.
WebTypeOK ==
    /\ known \subseteq SignIn
    /\ good \subseteq Token
    /\ deleted \subseteq Account
    /\ jar \in Token \cup {NULL}
    /\ access \in SignIn \cup {NULL}
    /\ user \in Account \cup {NULL}
    /\ initialized \in BOOLEAN
    /\ sessionEnding = (flow # NULL)
    /\ refreshEpoch \in 0..MaxEnding
    /\ refresh \in Refresh \cup {NULL}
    /\ generation \in Nat
    /\ interval \in BOOLEAN
    /\ flow \in Ending \cup {NULL}
    /\ login \in Login \cup {NULL}
    /\ identity \in IdentityState
    /\ orphans \subseteq Orphan
    /\ reloads \in 0..MaxReload
    /\ signedOut \subseteq SignIn

\* Once a logout has succeeded, no refresh that was on its way brings that
\* sign-in back, neither as a cookie nor as an access token.
SignedOutStays ==
    /\ access \notin signedOut
    /\ jar # NULL => jar.signIn \notin signedOut

\* Once authentication is initialized, events are sent only under the distinct
\* id of the user on display, whatever became of the storage, of PostHog or of
\* the document in between.  (A session that ends before leaves initialized off
\* until a reload: AnalyticsProvider then follows nobody.)
ReadyMeansMe == identity.ready /\ initialized => identity.distinct = IdOf(user)

\* A logout or a deletion that fails leaves a session that is refreshed again.
EndingReleases == sessionEnding ~> (~sessionEnding /\ (user = NULL \/ interval))
=============================================================================
