------------------------------ MODULE Accounts ------------------------------
(***************************************************************************)
(* Accounts, refresh sessions, email challenges and OAuth sign-in as the   *)
(* handlers of services/api/src/auth/auth.service.ts and the operator's    *)
(* script manage-user-role.ts change them.                                 *)
(*                                                                         *)
(* Atomicity.  A statement outside a transaction is one action, and so is  *)
(* a transaction, except where it waits with a lock in its hand: refresh   *)
(* between locking its session and inserting the next one, resetPassword   *)
(* while it hashes and while its UPDATE of the sessions waits, and         *)
(* deleteAccount between locking the user and ending its sessions.  A lock *)
(* is held by the request in whose record it shows.  Repository.save() of  *)
(* a row read earlier writes every column back that differs meanwhile: the *)
(* stored row becomes the copy.                                            *)
(***************************************************************************)
EXTENDS Naturals, FiniteSets

CONSTANTS
    User,           \* ids an account may get
    Member,         \* accounts that exist at the start
    MemberEmail,    \* [Member -> Email]
    Email,
    Password,
    Role,           \* roles the operator grants
    Identity,       \* accounts at an OAuth provider
    IdentityEmail,  \* [Identity -> Email], the verified address
    Request,        \* slots for requests between two steps
    Operation,      \* what the requests of an instance ask for
    NULL,
    MaxSession,     \* bounds on the rows of each table
    MaxChallenge,
    MaxAttempt,
    MaxTries,       \* 5 wrong codes
    MaxRequest      \* bound on the requests ever begun

Session == 1..MaxSession
Challenge == 1..MaxChallenge
Attempt == 1..MaxAttempt    \* an OAuth attempt, and the grant it leads to

Purpose == {"REGISTRATION", "PASSWORD_RESET"}

\* User: email is NULL for the address deleteAccount leaves behind.
UserRow == [email : Email \cup {NULL}, status : {"ACTIVE", "SUSPENDED"},
            password : Password \cup {NULL}, roles : SUBSET Role]

\* RefreshSession: live stands for revokedAt and expiresAt; signIn and round
\* are what the chain of replacedById spells out.
SessionRow == [user : User, signIn : Session, round : Nat \ {0}, live : BOOLEAN]

\* EmailVerificationChallenge: recent for a minute, valid for ten, stored
\* until a failed mail deletes it.
ChallengeRow == [email : Email, purpose : Purpose, attempts : 0..MaxTries,
                 recent : BOOLEAN, valid : BOOLEAN, stored : BOOLEAN,
                 consumed : BOOLEAN, proofUsed : BOOLEAN]

Proof == [purpose : Purpose, email : Email, challenge : Challenge]

\* A grant: NULL, the account it is for, or "USED".
GrantState == {NULL, "USED"} \cup User

InFlight ==
    [op : {"register"}, email : Email, password : Password]
    \cup [op : {"issue"}, user : User]
    \cup [op : {"refresh"}, session : Session]
    \cup [op : {"reset"}, challenge : Challenge, user : User, copy : UserRow,
          ending : SUBSET Session, saved : BOOLEAN]
    \cup [op : {"save"}, user : User, copy : UserRow]
    \cup [op : {"delete"}, user : User]
    \cup [op : {"send"}, email : Email, purpose : Purpose]
    \cup [op : {"mail"}, challenge : Challenge]
    \cup [op : {"verify"}, challenge : Challenge, copy : ChallengeRow]
    \cup [op : {"identify"}, attempt : Attempt, identity : Identity]
    \cup [op : {"enrol"}, attempt : Attempt, identity : Identity]
    \cup [op : {"link"}, attempt : Attempt, identity : Identity, user : User]
    \cup [op : {"grant"}, attempt : Attempt, user : User]

Operations == {"register", "login", "refresh", "logout", "reset", "profile",
               "role", "delete", "challenge", "verify", "oauth"}

ASSUME AccountNull ==
    /\ NULL \notin User \cup Email \cup Password
    /\ NULL \notin UserRow \cup SessionRow \cup ChallengeRow \cup InFlight
    /\ NULL # "USED"
    /\ "USED" \notin User
ASSUME MemberAssumption ==
    /\ Member \subseteq User
    /\ Member # {} => Password # {}
    /\ MemberEmail \in [Member -> Email]
    /\ \A u, v \in Member : MemberEmail[u] = MemberEmail[v] => u = v
    /\ IdentityEmail \in [Identity -> Email]
    /\ Operation \subseteq Operations
ASSUME AccountBounds ==
    /\ MaxSession \in Nat
    /\ MaxChallenge \in Nat
    /\ MaxAttempt \in Nat
    /\ MaxTries \in Nat \ {0}
    /\ MaxRequest \in Nat

VARIABLES
    users,      \* users
    sessions,   \* refresh_sessions
    challenges, \* email_verification_challenges
    identities, \* oauth_identities: the account of an identity
    attempts,   \* oauth_attempts: started, and consumed
    grants,     \* oauth_login_grants, by the attempt they come from
    proofs,     \* signed proofs handed out by verifyEmailChallenge
    mailed,     \* challenges whose code reached its address
    request,    \* handlers between two steps
    begun,      \* requests so far
    verified,   \* history: how often a challenge was verified
    spent       \* history: how often its proof set a password

rows == <<users, sessions, challenges, identities, attempts, grants>>
vars == <<users, sessions, challenges, identities, attempts, grants, proofs,
          mailed, request, begun, verified, spent>>

-----------------------------------------------------------------------------
(* Rows and locks *)

Exists(u) == users[u] # NULL
ActiveOrNot(u) == Exists(u)
Active(u) == Exists(u) /\ users[u].status = "ACTIVE"
HasEmail(u, e) == Exists(u) /\ users[u].email = e

Serving(w, op) == request[w] # NULL /\ request[w].op = op

NotLocked(s) == FALSE

\* refresh holds its session FOR UPDATE until it commits.
SessionLocked(s) == \E w \in Request : Serving(w, "refresh") /\ request[w].session = s

\* deleteAccount holds its user FOR UPDATE; an insert that refers to the user
\* waits for it, because a foreign key takes the row FOR KEY SHARE.
UserLocked(u) == \E w \in Request : Serving(w, "delete") /\ request[w].user = u

\* resetPassword holds the row it saved until it commits.
UserSaved(u) == \E w \in Request : Serving(w, "reset") /\ request[w].saved /\ request[w].user = u
Writable(u) == ~UserLocked(u) /\ ~UserSaved(u)

\* The unique index on users.email, which also sees what is not committed.
EmailFree(u, e) == e = NULL \/ \A v \in User \ {u} :
    /\ ~HasEmail(v, e)
    /\ ~\E w \in Request : /\ Serving(w, "reset") /\ request[w].saved
                          /\ request[w].user = v /\ request[w].copy.email = e

ChallengeLocked(c) == \E w \in Request : Serving(w, "reset") /\ request[w].challenge = c

LiveSessions(u) == {s \in Session : sessions[s] # NULL /\ sessions[s].user = u /\ sessions[s].live}

Ended(S) == [s \in Session |-> IF s \in S THEN [sessions[s] EXCEPT !.live = FALSE] ELSE sessions[s]]

FreshSession(s) == sessions[s] = NULL /\ \A t \in Session : t < s => sessions[t] # NULL
FreshChallenge(c) == challenges[c] = NULL /\ \A d \in Challenge : d < c => challenges[d] # NULL

\* Room in the bounded table for a session a request is about to insert.
SessionsLeft ==
    LET inserting == {w \in Request : Serving(w, "refresh")}
        stored == {s \in Session : sessions[s] # NULL}
    IN  Cardinality(stored) + Cardinality(inserting) < MaxSession

Enter(w, op, r) ==
    /\ op \in Operation
    /\ request[w] = NULL
    /\ begun < MaxRequest
    /\ begun' = begun + 1
    /\ request' = [request EXCEPT ![w] = r]

Proceed(w, r) == request' = [request EXCEPT ![w] = r]
Leave(w) == Proceed(w, NULL)

-----------------------------------------------------------------------------
Init ==
    /\ users = [u \in User |-> IF u \in Member
                              THEN [email |-> MemberEmail[u], status |-> "ACTIVE",
                                    password |-> CHOOSE p \in Password : TRUE, roles |-> {}]
                              ELSE NULL]
    /\ sessions = [s \in Session |-> NULL]
    /\ challenges = [c \in Challenge |-> NULL]
    /\ identities = [i \in Identity |-> NULL]
    /\ attempts = [a \in Attempt |-> "NONE"]
    /\ grants = [a \in Attempt |-> NULL]
    /\ proofs = {}
    /\ mailed = {}
    /\ request = [w \in Request |-> NULL]
    /\ begun = 0
    /\ verified = [c \in Challenge |-> 0]
    /\ spent = [c \in Challenge |-> 0]

-----------------------------------------------------------------------------
(* Email challenges *)

Stored(c, e, p) ==
    /\ challenges[c] # NULL
    /\ challenges[c].stored /\ challenges[c].email = e /\ challenges[c].purpose = p

\* sendEmailChallenge: the look-ups before the insert.
SendBegin(w, e, p) ==
    /\ p = "PASSWORD_RESET" => \E u \in User : HasEmail(u, e)
    /\ \A c \in Challenge : Stored(c, e, p) => ~challenges[c].recent
    /\ Enter(w, "challenge", [op |-> "send", email |-> e, purpose |-> p])
    /\ UNCHANGED <<rows, proofs, mailed, verified, spent>>

SendInsert(w, c) ==
    LET req == request[w] IN
    /\ Serving(w, "send")
    /\ FreshChallenge(c)
    /\ challenges' = [challenges EXCEPT ![c] =
           [email |-> req.email, purpose |-> req.purpose, attempts |-> 0,
            recent |-> TRUE, valid |-> TRUE, stored |-> TRUE,
            consumed |-> FALSE, proofUsed |-> FALSE]]
    /\ Proceed(w, [op |-> "mail", challenge |-> c])
    /\ UNCHANGED <<users, sessions, identities, attempts, grants, proofs, mailed, begun, verified, spent>>

\* The mail arrives, which the handler may learn or not.
MailDelivered(w) ==
    /\ Serving(w, "mail")
    /\ mailed' = mailed \cup {request[w].challenge}
    /\ UNCHANGED <<rows, proofs, request, begun, verified, spent>>

SendDone(w) ==
    /\ Serving(w, "mail")
    /\ request[w].challenge \in mailed
    /\ Leave(w)
    /\ UNCHANGED <<rows, proofs, mailed, begun, verified, spent>>

\* Refused, or not answered in ten seconds.
SendFailed(w) ==
    LET c == request[w].challenge IN
    /\ Serving(w, "mail")
    /\ ~ChallengeLocked(c)
    /\ challenges' = [challenges EXCEPT ![c].stored = FALSE]
    /\ Leave(w)
    /\ UNCHANGED <<users, sessions, identities, attempts, grants, proofs, mailed, begun, verified, spent>>

Open(c, e, p) == Stored(c, e, p) /\ challenges[c].valid /\ ~challenges[c].consumed

TriesLeftOrOne(c) == challenges[c].attempts <= MaxTries
TriesLeft(c) == challenges[c].attempts < MaxTries

\* verifyEmailChallenge reads the newest open challenge.
VerifyBegin(w, e, p) ==
    \E c \in Challenge :
        /\ Open(c, e, p)
        /\ \A d \in Challenge : Open(d, e, p) => d <= c
        /\ TriesLeft(c)
        /\ Enter(w, "verify", [op |-> "verify", challenge |-> c,
                                copy |-> [challenges[c] EXCEPT !.attempts = @ + 1]])
        /\ UNCHANGED <<rows, proofs, mailed, verified, spent>>

\* save() of a copy: every column, the row itself if it was deleted; what
\* only time changes is not a column.
Restored(c, copy) == [copy EXCEPT !.recent = challenges[c].recent, !.valid = challenges[c].valid]

VerifyWrong(w) ==
    LET c == request[w].challenge IN
    /\ Serving(w, "verify")
    /\ ~ChallengeLocked(c)
    /\ challenges' = [challenges EXCEPT ![c] = Restored(c, request[w].copy)]
    /\ Leave(w)
    /\ UNCHANGED <<users, sessions, identities, attempts, grants, proofs, mailed, begun, verified, spent>>

VerifyRight(w) ==
    LET c == request[w].challenge
        copy == request[w].copy IN
    /\ Serving(w, "verify")
    /\ c \in mailed
    /\ ~ChallengeLocked(c)
    /\ challenges' = [challenges EXCEPT ![c] = [Restored(c, copy) EXCEPT !.consumed = TRUE]]
    /\ proofs' = proofs \cup {[purpose |-> copy.purpose, email |-> copy.email, challenge |-> c]}
    /\ verified' = [verified EXCEPT ![c] = @ + 1]
    /\ Leave(w)
    /\ UNCHANGED <<users, sessions, identities, attempts, grants, mailed, begun, spent>>

\* Fifteen minutes pass.
ProofExpires(p) ==
    /\ proofs' = proofs \ {p}
    /\ UNCHANGED <<rows, mailed, request, begun, verified, spent>>

\* A minute passes, ten minutes pass.
ChallengeAges(c) ==
    /\ challenges[c] # NULL
    /\ challenges[c].valid
    /\ challenges' = [challenges EXCEPT ![c] =
           IF challenges[c].recent THEN [@ EXCEPT !.recent = FALSE] ELSE [@ EXCEPT !.valid = FALSE]]
    /\ UNCHANGED <<users, sessions, identities, attempts, grants, proofs, mailed, request, begun, verified, spent>>

-----------------------------------------------------------------------------
(* Registration, login, OAuth: what leads to a session *)

\* register: the proof and the unlocked exists().
RegisterBegin(w, e, pw) ==
    /\ \E p \in proofs : p.purpose = "REGISTRATION" /\ p.email = e
    /\ \A u \in User : ~HasEmail(u, e)
    /\ Enter(w, "register", [op |-> "register", email |-> e, password |-> pw])
    /\ UNCHANGED <<rows, proofs, mailed, verified, spent>>

NewUser(u, e, pw) ==
    /\ users[u] = NULL
    /\ EmailFree(u, e)
    /\ users' = [users EXCEPT ![u] = [email |-> e, status |-> "ACTIVE", password |-> pw, roles |-> {}]]

RegisterInsert(w, u) ==
    /\ Serving(w, "register")
    /\ NewUser(u, request[w].email, request[w].password)
    /\ Proceed(w, [op |-> "issue", user |-> u])
    /\ UNCHANGED <<sessions, challenges, identities, attempts, grants, proofs, mailed, begun, verified, spent>>

\* login compares with the hash it read; the session comes later.
Login(w, u, pw) ==
    /\ Active(u)
    /\ users[u].password = pw
    /\ Enter(w, "login", [op |-> "issue", user |-> u])
    /\ UNCHANGED <<rows, proofs, mailed, verified, spent>>

\* issueSession
IssueSession(w, s) ==
    LET u == request[w].user IN
    /\ Serving(w, "issue")
    /\ SessionsLeft
    /\ ~UserLocked(u)
    /\ FreshSession(s)
    /\ sessions' = [sessions EXCEPT ![s] = [user |-> u, signIn |-> s, round |-> 1, live |-> TRUE]]
    /\ Leave(w)
    /\ UNCHANGED <<users, challenges, identities, attempts, grants, proofs, mailed, begun, verified, spent>>

StartOAuth(a) ==
    /\ "oauth" \in Operation
    /\ attempts[a] = "NONE"
    /\ attempts' = [attempts EXCEPT ![a] = "STARTED"]
    /\ UNCHANGED <<users, sessions, challenges, identities, grants, proofs, mailed, request, begun, verified, spent>>

\* completeOAuth consumes its attempt, then asks the provider who it is.
ConsumeAttempt(w, a, i) ==
    /\ attempts[a] = "STARTED"
    /\ attempts' = [attempts EXCEPT ![a] = "CONSUMED"]
    /\ Enter(w, "oauth", [op |-> "identify", attempt |-> a, identity |-> i])
    /\ UNCHANGED <<users, sessions, challenges, identities, grants, proofs, mailed, verified, spent>>

\* findOrCreateOAuthUser: the identity, else the address, else a new account.
FindIdentity(w) ==
    LET req == request[w] IN
    /\ Serving(w, "identify")
    /\ IF identities[req.identity] # NULL
       THEN Proceed(w, [op |-> "grant", attempt |-> req.attempt, user |-> identities[req.identity]])
       ELSE IF \E u \in User : HasEmail(u, IdentityEmail[req.identity])
       THEN \E u \in User :
                /\ HasEmail(u, IdentityEmail[req.identity])
                /\ Proceed(w, [op |-> "link", attempt |-> req.attempt, identity |-> req.identity, user |-> u])
       ELSE Proceed(w, [op |-> "enrol", attempt |-> req.attempt, identity |-> req.identity])
    /\ UNCHANGED <<rows, proofs, mailed, begun, verified, spent>>

EnrolUser(w, u) ==
    LET req == request[w] IN
    /\ Serving(w, "enrol")
    /\ NewUser(u, IdentityEmail[req.identity], NULL)
    /\ Proceed(w, [op |-> "link", attempt |-> req.attempt, identity |-> req.identity, user |-> u])
    /\ UNCHANGED <<sessions, challenges, identities, attempts, grants, proofs, mailed, begun, verified, spent>>

\* The unique index on an identity makes the second of two inserts fail.
LinkIdentity(w) ==
    LET req == request[w] IN
    /\ Serving(w, "link")
    /\ identities[req.identity] = NULL
    /\ ~UserLocked(req.user)
    /\ identities' = [identities EXCEPT ![req.identity] = req.user]
    /\ Proceed(w, [op |-> "grant", attempt |-> req.attempt, user |-> req.user])
    /\ UNCHANGED <<users, sessions, challenges, attempts, grants, proofs, mailed, begun, verified, spent>>

SaveGrant(w) ==
    LET req == request[w] IN
    /\ Serving(w, "grant")
    /\ ~UserLocked(req.user)
    /\ grants' = [grants EXCEPT ![req.attempt] = req.user]
    /\ Leave(w)
    /\ UNCHANGED <<users, sessions, challenges, identities, attempts, proofs, mailed, begun, verified, spent>>

\* exchangeOAuthGrant, which rolls the grant back for an account not active.
ExchangeGrant(w, a) ==
    /\ grants[a] \in User
    /\ Active(grants[a])
    /\ grants' = [grants EXCEPT ![a] = "USED"]
    /\ Enter(w, "oauth", [op |-> "issue", user |-> grants[a]])
    /\ UNCHANGED <<users, sessions, challenges, identities, attempts, proofs, mailed, verified, spent>>

-----------------------------------------------------------------------------
(* Sessions *)

\* refresh locks its session and then looks at the account.
RefreshBegin(w, s) ==
    /\ sessions[s] # NULL
    /\ sessions[s].live
    /\ SessionsLeft
    /\ ~SessionLocked(s)
    /\ Active(sessions[s].user)
    /\ Enter(w, "refresh", [op |-> "refresh", session |-> s])
    /\ UNCHANGED <<rows, proofs, mailed, verified, spent>>

RefreshCommit(w, t) ==
    LET s == request[w].session IN
    /\ Serving(w, "refresh")
    /\ ~UserLocked(sessions[s].user)
    /\ FreshSession(t)
    /\ sessions' = [Ended({s}) EXCEPT ![t] =
           [user |-> sessions[s].user, signIn |-> sessions[s].signIn,
            round |-> sessions[s].round + 1, live |-> TRUE]]
    /\ Leave(w)
    /\ UNCHANGED <<users, challenges, identities, attempts, grants, proofs, mailed, begun, verified, spent>>

\* revoke, which logout calls; a token that is not live changes nothing.
Revoke(s) ==
    /\ "logout" \in Operation
    /\ sessions[s] # NULL
    /\ sessions[s].live
    /\ ~SessionLocked(s)
    /\ sessions' = Ended({s})
    /\ UNCHANGED <<users, challenges, identities, attempts, grants, proofs, mailed, request, begun, verified, spent>>

-----------------------------------------------------------------------------
(* Password reset, profile, roles, deletion *)

\* resetPassword locks the challenge of its proof, reads the user, hashes.
ResetBegin(w, p, u, pw) ==
    LET c == p.challenge IN
    /\ p.purpose = "PASSWORD_RESET"
    /\ challenges[c].stored
    /\ ~challenges[c].proofUsed
    /\ challenges[c].consumed
    /\ ~ChallengeLocked(c)
    /\ HasEmail(u, p.email)
    /\ Enter(w, "reset", [op |-> "reset", challenge |-> c, user |-> u,
                           copy |-> [users[u] EXCEPT !.password = pw],
                           ending |-> {}, saved |-> FALSE])
    /\ UNCHANGED <<rows, proofs, mailed, verified, spent>>

\* It saves the user and begins to end the sessions that are live now.
ResetSave(w) ==
    LET req == request[w] IN
    /\ Serving(w, "reset")
    /\ ~req.saved
    /\ Writable(req.user)
    /\ EmailFree(req.user, req.copy.email)
    /\ Proceed(w, [op |-> "reset", challenge |-> req.challenge, user |-> req.user, copy |-> req.copy,
                    ending |-> LiveSessions(req.user), saved |-> TRUE])
    /\ UNCHANGED <<rows, proofs, mailed, begun, verified, spent>>

ProofKept(row) == row
ProofUsed(row) == [row EXCEPT !.proofUsed = TRUE]

\* Its UPDATE waited for those a refresh held; a session inserted meanwhile
\* is not among them.
ResetCommit(w) ==
    LET req == request[w] IN
    /\ Serving(w, "reset")
    /\ req.saved
    /\ \A s \in req.ending : ~SessionLocked(s)
    /\ users' = [users EXCEPT ![req.user] = req.copy]
    /\ challenges' = [challenges EXCEPT ![req.challenge] = ProofUsed(@)]
    /\ sessions' = Ended(req.ending)
    /\ spent' = [spent EXCEPT ![req.challenge] = @ + 1]
    /\ Leave(w)
    /\ UNCHANGED <<identities, attempts, grants, proofs, mailed, begun, verified>>

\* updateProfile; what it changes is not modelled, that it saves a copy is.
ProfileBegin(w, u) ==
    /\ Active(u)
    /\ Enter(w, "profile", [op |-> "save", user |-> u, copy |-> users[u]])
    /\ UNCHANGED <<rows, proofs, mailed, verified, spent>>

\* manageUserRole
RoleBegin(w, u, e, r) ==
    /\ HasEmail(u, e)
    /\ \E roles \in {users[u].roles \cup {r}, users[u].roles \ {r}} :
           /\ roles # users[u].roles
           /\ Enter(w, "role", [op |-> "save", user |-> u, copy |-> [users[u] EXCEPT !.roles = roles]])
    /\ UNCHANGED <<rows, proofs, mailed, verified, spent>>

SaveUser(w) ==
    LET req == request[w] IN
    /\ Serving(w, "save")
    /\ Writable(req.user)
    /\ EmailFree(req.user, req.copy.email)
    /\ users' = [users EXCEPT ![req.user] = req.copy]
    /\ Leave(w)
    /\ UNCHANGED <<sessions, challenges, identities, attempts, grants, proofs, mailed, begun, verified, spent>>

\* deleteAccount locks the user, then everything that refers to it.
DeleteBegin(w, u) ==
    /\ Exists(u)
    /\ Writable(u)
    /\ Enter(w, "delete", [op |-> "delete", user |-> u])
    /\ UNCHANGED <<rows, proofs, mailed, verified, spent>>

DeletedRow(row) == [row EXCEPT !.status = "SUSPENDED", !.email = NULL, !.password = NULL]

DeleteCommit(w) ==
    LET u == request[w].user IN
    /\ Serving(w, "delete")
    /\ \A s \in LiveSessions(u) : ~SessionLocked(s)
    /\ users' = [users EXCEPT ![u] = DeletedRow(@)]
    /\ identities' = [i \in Identity |-> IF identities[i] = u THEN NULL ELSE identities[i]]
    /\ sessions' = Ended(LiveSessions(u))
    /\ Leave(w)
    /\ UNCHANGED <<challenges, attempts, grants, proofs, mailed, begun, verified, spent>>

\* Any step may fail: the transaction rolls back, earlier statements stay.  A
\* deletion that waits for the session of a refresh which waits for the account
\* is a deadlock, and PostgreSQL fails one of the two.
Abandon(w) ==
    /\ request[w] # NULL
    /\ Leave(w)
    /\ UNCHANGED <<rows, proofs, mailed, begun, verified, spent>>

-----------------------------------------------------------------------------
Next ==
    \/ \E w \in Request, e \in Email, p \in Purpose : SendBegin(w, e, p) \/ VerifyBegin(w, e, p)
    \/ \E w \in Request, c \in Challenge : SendInsert(w, c)
    \/ \E w \in Request :
        \/ MailDelivered(w) \/ SendDone(w) \/ SendFailed(w)
        \/ VerifyWrong(w) \/ VerifyRight(w)
        \/ FindIdentity(w) \/ LinkIdentity(w) \/ SaveGrant(w)
        \/ ResetSave(w) \/ ResetCommit(w) \/ SaveUser(w) \/ DeleteCommit(w)
        \/ Abandon(w)
    \/ \E c \in Challenge : ChallengeAges(c)
    \/ \E p \in proofs : ProofExpires(p)
    \/ \E w \in Request, e \in Email, pw \in Password : RegisterBegin(w, e, pw)
    \/ \E w \in Request, u \in User : RegisterInsert(w, u) \/ EnrolUser(w, u)
    \/ \E w \in Request, u \in User, pw \in Password : Login(w, u, pw)
    \/ \E w \in Request, s \in Session : IssueSession(w, s) \/ RefreshBegin(w, s) \/ RefreshCommit(w, s)
    \/ \E s \in Session : Revoke(s)
    \/ \E a \in Attempt : StartOAuth(a)
    \/ \E w \in Request, a \in Attempt, i \in Identity : ConsumeAttempt(w, a, i)
    \/ \E w \in Request, a \in Attempt : ExchangeGrant(w, a)
    \/ \E w \in Request, p \in proofs, u \in User, pw \in Password : ResetBegin(w, p, u, pw)
    \/ \E w \in Request, u \in User : ProfileBegin(w, u) \/ DeleteBegin(w, u)
    \/ \E w \in Request, u \in User, e \in Email, r \in Role : RoleBegin(w, u, e, r)

Spec == Init /\ [][Next]_vars

-----------------------------------------------------------------------------
(* Properties *)

\* The rows keep their columns' types; no challenge counts more wrong codes
\* than it allows, and a request knows what its next step needs.
AccountsTypeOK ==
    /\ users \in [User -> UserRow \cup {NULL}]
    /\ sessions \in [Session -> SessionRow \cup {NULL}]
    /\ challenges \in [Challenge -> ChallengeRow \cup {NULL}]
    /\ identities \in [Identity -> User \cup {NULL}]
    /\ attempts \in [Attempt -> {"NONE", "STARTED", "CONSUMED"}]
    /\ grants \in [Attempt -> GrantState]
    /\ proofs \subseteq Proof
    /\ mailed \subseteq Challenge
    /\ request \in [Request -> InFlight \cup {NULL}]
    /\ begun \in 0..MaxRequest
    /\ verified \in [Challenge -> Nat]
    /\ spent \in [Challenge -> Nat]

TokenOf(row) == [signIn |-> row.signIn, round |-> row.round]
StoredSessions == {s \in Session : sessions[s] # NULL}

Sign == INSTANCE SignIns WITH
    SignIn <- Session,
    known <- {sessions[s].signIn : s \in StoredSessions},
    good <- {TokenOf(sessions[s]) : s \in {t \in StoredSessions : sessions[t].live}}

\* Whatever refreshes, logouts, resets and deletions overtake each other, what
\* the sessions table accepts behaves like tokens that are rotated one by one:
\* one good token per sign-in, and none that comes back.
ImplementsSignIns == Sign!SignInsSpec

\* A reset proof sets one password.  A slow verification may save its stale
\* copy over the used challenge and open it again, but only by giving the
\* right code once more.
ProofSpentOncePerVerification == \A c \in Challenge : spent[c] <= verified[c]

\* A login that was on its way may leave a session to an account deleted
\* meanwhile, but such a session is never refreshed: the deletion waits for
\* refreshes it meets, and a later one sees that the account is not active.
DeletedNeverRefreshes ==
    \A s \in Session :
        /\ sessions[s] # NULL
        /\ sessions[s].live
        /\ users[sessions[s].user].status = "SUSPENDED"
        => sessions[s].round = 1
=============================================================================
