--------------------------- MODULE AccountsProofs ---------------------------
(* Theorems about Accounts, for every value of its constants. *)
EXTENDS Accounts, TLAPS

-----------------------------------------------------------------------------
(* The inductive invariant *)

\* What a request rests on: the rows it read are still there, a refresh holds
\* a good session of an active account, and a copy to be saved is of an active
\* account.
Knows(r) ==
    /\ r.op = "issue" => Exists(r.user)
    /\ r.op = "refresh" => /\ sessions[r.session] # NULL
                           /\ sessions[r.session].live
                           /\ Active(sessions[r.session].user)
    /\ r.op = "reset" => /\ Exists(r.user)
                         /\ r.copy.status = "ACTIVE"
                         /\ \A s \in r.ending : sessions[s] # NULL
                         /\ challenges[r.challenge] # NULL
    /\ r.op = "save" => Exists(r.user) /\ r.copy.status = "ACTIVE"
    /\ r.op = "delete" => Exists(r.user)
    /\ r.op \in {"mail", "verify"} => challenges[r.challenge] # NULL

UsersOK ==
    /\ users \in [User -> UserRow \cup {NULL}]
    /\ \A u \in User : Exists(u) /\ users[u].status = "SUSPENDED" => users[u].email = NULL

\* One good session per sign-in, which began with a session of its own; a
\* rotated session that is good belongs to an active account.
SessionsOK ==
    /\ sessions \in [Session -> SessionRow \cup {NULL}]
    /\ \A s \in Session : sessions[s] # NULL =>
        /\ Exists(sessions[s].user)
        /\ sessions[sessions[s].signIn] # NULL
        /\ sessions[s].live /\ sessions[s].round # 1 => Active(sessions[s].user)
    /\ \A s, t \in Session :
        /\ sessions[s] # NULL /\ sessions[s].live
        /\ sessions[t] # NULL /\ sessions[t].live
        /\ sessions[s].signIn = sessions[t].signIn
        => s = t

ChallengesOK ==
    /\ challenges \in [Challenge -> ChallengeRow \cup {NULL}]
    /\ proofs \subseteq Proof
    /\ \A p \in proofs : challenges[p.challenge] # NULL

\* A session is held by one refresh at a time.
RequestsOK ==
    /\ request \in [Request -> InFlight \cup {NULL}]
    /\ \A w \in Request : request[w] # NULL => Knows(request[w])
    /\ \A v, w \in Request :
        /\ Serving(v, "refresh") /\ Serving(w, "refresh")
        /\ request[v].session = request[w].session
        => v = w

RestOK ==
    /\ identities \in [Identity -> User \cup {NULL}]
    /\ attempts \in [Attempt -> {"NONE", "STARTED", "CONSUMED"}]
    /\ grants \in [Attempt -> GrantState]
    /\ mailed \subseteq Challenge
    /\ begun \in 0..MaxRequest
    /\ verified \in [Challenge -> Nat]
    /\ spent \in [Challenge -> Nat]

AccountsInv == UsersOK /\ SessionsOK /\ ChallengesOK /\ RequestsOK /\ RestOK

-----------------------------------------------------------------------------
(* Rows and requests *)

\* A request in flight is of the type its operation names.
LEMMA FlightTypes ==
    ASSUME NEW r \in InFlight
    PROVE  /\ r.op = "register" => r.email \in Email /\ r.password \in Password
           /\ r.op \in {"issue", "delete"} => r.user \in User
           /\ r.op = "refresh" => r.session \in Session
           /\ r.op = "reset" => /\ r.challenge \in Challenge /\ r.user \in User
                                /\ r.copy \in UserRow /\ r.ending \subseteq Session
                                /\ r.saved \in BOOLEAN
                                /\ r = [op |-> "reset", challenge |-> r.challenge, user |-> r.user,
                                        copy |-> r.copy, ending |-> r.ending, saved |-> r.saved]
           /\ r.op = "save" => r.user \in User /\ r.copy \in UserRow
           /\ r.op = "send" => r.email \in Email /\ r.purpose \in Purpose
           /\ r.op = "mail" => r.challenge \in Challenge
           /\ r.op = "verify" => r.challenge \in Challenge /\ r.copy \in ChallengeRow
           /\ r.op \in {"identify", "enrol", "link"} => r.attempt \in Attempt /\ r.identity \in Identity
           /\ r.op \in {"link", "grant"} => r.attempt \in Attempt /\ r.user \in User
BY DEF InFlight

LEMMA Flights ==
    /\ \A e \in Email, pw \in Password : [op |-> "register", email |-> e, password |-> pw] \in InFlight
    /\ \A u \in User : /\ [op |-> "issue", user |-> u] \in InFlight
                       /\ [op |-> "delete", user |-> u] \in InFlight
    /\ \A s \in Session : [op |-> "refresh", session |-> s] \in InFlight
    /\ \A u \in User, copy \in UserRow : [op |-> "save", user |-> u, copy |-> copy] \in InFlight
    /\ \A e \in Email, p \in Purpose : [op |-> "send", email |-> e, purpose |-> p] \in InFlight
    /\ \A c \in Challenge : [op |-> "mail", challenge |-> c] \in InFlight
    /\ \A c \in Challenge, copy \in ChallengeRow :
         [op |-> "verify", challenge |-> c, copy |-> copy] \in InFlight
    /\ \A a \in Attempt, i \in Identity :
         /\ [op |-> "identify", attempt |-> a, identity |-> i] \in InFlight
         /\ [op |-> "enrol", attempt |-> a, identity |-> i] \in InFlight
    /\ \A a \in Attempt, i \in Identity, u \in User :
         [op |-> "link", attempt |-> a, identity |-> i, user |-> u] \in InFlight
    /\ \A a \in Attempt, u \in User : [op |-> "grant", attempt |-> a, user |-> u] \in InFlight
BY DEF InFlight

LEMMA ResetFlight ==
    ASSUME NEW c \in Challenge, NEW u \in User, NEW copy \in UserRow,
           NEW S \in SUBSET Session, NEW saved \in BOOLEAN
    PROVE  [op |-> "reset", challenge |-> c, user |-> u, copy |-> copy,
            ending |-> S, saved |-> saved] \in InFlight
BY DEF InFlight

\* What is not NULL is a row.
LEMMA Rows ==
    ASSUME AccountsInv
    PROVE  /\ \A u \in User : Exists(u) => users[u] \in UserRow
           /\ \A s \in Session : sessions[s] # NULL => sessions[s] \in SessionRow
           /\ \A c \in Challenge : challenges[c] # NULL => challenges[c] \in ChallengeRow
           /\ \A w \in Request : request[w] # NULL => request[w] \in InFlight /\ Knows(request[w])
           /\ \A w \in Request : \A op \in STRING :
                Serving(w, op) => request[w] # NULL /\ request[w].op = op
BY DEF AccountsInv, UsersOK, SessionsOK, ChallengesOK, RequestsOK, Exists, Serving

\* Rows that exist go on to exist.
Grows ==
    /\ \A u \in User : users[u] # NULL => users'[u] # NULL
    /\ \A s \in Session : sessions[s] # NULL => sessions'[s] # NULL
    /\ \A c \in Challenge : challenges[c] # NULL => challenges'[c] # NULL

\* The session a refresh holds stays good, and its account active.
KeepsHeld(r) ==
    r.op = "refresh" => /\ sessions'[r.session].live
                        /\ users'[sessions'[r.session].user] # NULL
                        /\ users'[sessions'[r.session].user].status = "ACTIVE"

LEMMA KnowsStays ==
    ASSUME NEW r \in InFlight, Knows(r), Grows, KeepsHeld(r)
    PROVE  Knows(r)'
<1>1. /\ r.op \in {"issue", "delete", "reset", "save"} => users'[r.user] # NULL
      /\ r.op = "reset" => \A s \in r.ending : sessions'[s] # NULL
      /\ r.op \in {"mail", "verify", "reset"} => challenges'[r.challenge] # NULL
      /\ r.op = "refresh" => sessions'[r.session] # NULL
  BY FlightTypes DEF Knows, Grows, Exists, Active
<1>2. r.op \in {"reset", "save"} => r.copy.status = "ACTIVE"
  BY DEF Knows
<1>3. QED
  BY <1>1, <1>2 DEF Knows, KeepsHeld, Exists, Active

\* The request of w becomes r, whatever else the step does.
LEMMA RequestBecomes ==
    ASSUME AccountsInv, NEW w \in Request, NEW r \in InFlight \cup {NULL},
           request' = [request EXCEPT ![w] = r],
           r # NULL => Knows(r)',
           Grows,
           \A v \in Request \ {w} : request[v] # NULL => KeepsHeld(request[v]),
           r # NULL /\ r.op = "refresh" =>
               \A v \in Request \ {w} : Serving(v, "refresh") => request[v].session # r.session
    PROVE  RequestsOK'
<1>0. request \in [Request -> InFlight \cup {NULL}]
  BY DEF AccountsInv, RequestsOK
<1>1. /\ request' \in [Request -> InFlight \cup {NULL}]
      /\ request'[w] = r
      /\ \A v \in Request \ {w} : request'[v] = request[v]
  BY <1>0
<1>2. ASSUME NEW v \in Request, request'[v] # NULL
      PROVE  Knows(request[v])'
  <2>1. CASE v = w
    BY <1>1, <1>2, <2>1 DEF Knows, Exists, Active
  <2>2. CASE v # w
    <3>1. PICK q \in InFlight : q = request[v] /\ q = request'[v] /\ Knows(q) /\ KeepsHeld(q)
      BY <1>1, <1>2, <2>2, Rows
    <3>2. Knows(q)'
      BY <3>1, KnowsStays
    <3>3. QED
      BY <3>1, <3>2 DEF Knows, Exists, Active
  <2>3. QED
    BY <2>1, <2>2
<1>3. ASSUME NEW v \in Request, NEW x \in Request,
             Serving(v, "refresh")', Serving(x, "refresh")',
             request'[v].session = request'[x].session
      PROVE  v = x
  BY <1>1, <1>3 DEF AccountsInv, RequestsOK, Serving
<1>4. QED
  BY <1>1, <1>2, <1>3 DEF RequestsOK

\* Requests go on as they were.
LEMMA RequestStays ==
    ASSUME AccountsInv, UNCHANGED request, Grows,
           \A v \in Request : request[v] # NULL => KeepsHeld(request[v])
    PROVE  RequestsOK'
<1>1. ASSUME NEW v \in Request, request'[v] # NULL
      PROVE  Knows(request[v])'
  <2>1. PICK q \in InFlight : q = request[v] /\ q = request'[v] /\ Knows(q) /\ KeepsHeld(q)
    BY <1>1, Rows
  <2>2. Knows(q)'
    BY <2>1, KnowsStays
  <2>3. QED
    BY <2>1, <2>2 DEF Knows, Exists, Active
<1>2. QED
  BY <1>1 DEF AccountsInv, RequestsOK, Serving

\* A step that leaves users, sessions and challenges alone.
LEMMA TablesStay ==
    ASSUME AccountsInv, UNCHANGED <<users, sessions, challenges>>
    PROVE  /\ UsersOK' /\ SessionsOK' /\ Grows
           /\ \A v \in Request : request[v] # NULL => KeepsHeld(request[v])
           /\ proofs' \subseteq proofs => ChallengesOK'
<1>1. UsersOK' /\ SessionsOK' /\ Grows
  BY DEF AccountsInv, UsersOK, SessionsOK, Grows, Exists, Active
<1>2. \A v \in Request : request[v] # NULL => KeepsHeld(request[v])
  BY Rows DEF KeepsHeld, Knows, Exists, Active
<1>3. proofs' \subseteq proofs => ChallengesOK'
  BY DEF AccountsInv, ChallengesOK
<1>4. QED
  BY <1>1, <1>2, <1>3

\* A step that changes no more than one request and the small tables.
LEMMA QuietStep ==
    ASSUME AccountsInv, UNCHANGED <<users, sessions, challenges>>, proofs' \subseteq proofs,
           NEW w \in Request, NEW r \in InFlight \cup {NULL},
           request' = [request EXCEPT ![w] = r],
           r # NULL => Knows(r),
           r # NULL /\ r.op = "refresh" => ~SessionLocked(r.session),
           RestOK'
    PROVE  AccountsInv'
<1>1. /\ UsersOK' /\ SessionsOK' /\ ChallengesOK' /\ Grows
      /\ \A v \in Request : request[v] # NULL => KeepsHeld(request[v])
  BY TablesStay
<1>2. r # NULL => Knows(r)'
  BY DEF Knows, Exists, Active
<1>3. r # NULL /\ r.op = "refresh" =>
        \A v \in Request \ {w} : Serving(v, "refresh") => request[v].session # r.session
  BY DEF SessionLocked
<1>4. RequestsOK'
  BY <1>1, <1>2, <1>3, RequestBecomes
<1>5. QED
  BY <1>1, <1>4 DEF AccountsInv

\* What does not wait for the tables and sets no counter keeps the small tables.
LEMMA RestStays ==
    ASSUME AccountsInv, UNCHANGED <<identities, attempts, grants, mailed, verified, spent>>,
           UNCHANGED begun \/ \E w \in Request : \E op, r : Enter(w, op, r)
    PROVE  RestOK'
BY AccountBounds DEF AccountsInv, RestOK, Enter

\* A request begins.
LEMMA EnterStep ==
    ASSUME AccountsInv, NEW w \in Request, NEW op, NEW r \in InFlight, Enter(w, op, r),
           UNCHANGED <<users, sessions, challenges, proofs>>, Knows(r),
           r.op = "refresh" => ~SessionLocked(r.session),
           UNCHANGED <<identities, mailed, verified, spent>>,
           attempts' \in [Attempt -> {"NONE", "STARTED", "CONSUMED"}],
           grants' \in [Attempt -> GrantState]
    PROVE  AccountsInv'
<1>1. RestOK'
  BY AccountBounds DEF AccountsInv, RestOK, Enter
<1>2. request' = [request EXCEPT ![w] = r]
  BY DEF Enter
<1>3. QED
  BY <1>1, <1>2, QuietStep

\* A request leaves, whatever it was.
LEMMA LeaveStep ==
    ASSUME AccountsInv, NEW w \in Request, Leave(w),
           UNCHANGED <<rows, proofs, mailed, begun, verified, spent>>
    PROVE  AccountsInv'
<1>1. RestOK'
  BY RestStays DEF rows
<1>2. request' = [request EXCEPT ![w] = NULL]
  BY DEF Leave, Proceed
<1>3. QED
  BY <1>1, <1>2, QuietStep DEF rows

LEMMA HasEmailActive ==
    ASSUME AccountsInv, NEW u \in User, NEW e \in Email, HasEmail(u, e)
    PROVE  Exists(u) /\ users[u] \in UserRow /\ users[u].status = "ACTIVE"
<1>1. Exists(u) /\ users[u] \in UserRow /\ users[u].email # NULL
  BY Rows, AccountNull DEF HasEmail
<1>2. users[u].status \in {"ACTIVE", "SUSPENDED"}
  BY <1>1 DEF UserRow
<1>3. QED
  BY <1>1, <1>2 DEF AccountsInv, UsersOK

\* The handlers' first steps, and those that change no table they share.
LEMMA BeginSteps ==
    ASSUME AccountsInv, NEW w \in Request
    PROVE  /\ \A e \in Email, p \in Purpose : SendBegin(w, e, p) \/ VerifyBegin(w, e, p) => AccountsInv'
           /\ \A e \in Email, pw \in Password : RegisterBegin(w, e, pw) => AccountsInv'
           /\ \A u \in User, pw \in Password : Login(w, u, pw) => AccountsInv'
           /\ \A a \in Attempt, i \in Identity : ConsumeAttempt(w, a, i) => AccountsInv'
           /\ \A a \in Attempt : ExchangeGrant(w, a) => AccountsInv'
           /\ \A s \in Session : RefreshBegin(w, s) => AccountsInv'
           /\ \A p \in proofs, u \in User, pw \in Password : ResetBegin(w, p, u, pw) => AccountsInv'
           /\ \A u \in User : ProfileBegin(w, u) \/ DeleteBegin(w, u) => AccountsInv'
           /\ \A u \in User, e \in Email, r \in Role : RoleBegin(w, u, e, r) => AccountsInv'
<1> USE DEF rows
<1>0. RestOK
  BY DEF AccountsInv
<1>1. ASSUME NEW e \in Email, NEW p \in Purpose, SendBegin(w, e, p)
      PROVE  AccountsInv'
  <2> DEFINE r == [op |-> "send", email |-> e, purpose |-> p]
  <2>1. r \in InFlight /\ Knows(r) /\ r.op # "refresh"
    BY Flights DEF Knows
  <2>2. Enter(w, "challenge", r)
    BY <1>1 DEF SendBegin
  <2> HIDE DEF r
  <2>3. QED
    BY <1>0, <1>1, <2>1, <2>2, EnterStep DEF SendBegin, RestOK
<1>2. ASSUME NEW e \in Email, NEW p \in Purpose, VerifyBegin(w, e, p)
      PROVE  AccountsInv'
  <2>1. PICK c \in Challenge :
          /\ Open(c, e, p) /\ TriesLeft(c)
          /\ Enter(w, "verify", [op |-> "verify", challenge |-> c,
                                  copy |-> [challenges[c] EXCEPT !.attempts = @ + 1]])
          /\ UNCHANGED <<rows, proofs, mailed, verified, spent>>
    BY <1>2 DEF VerifyBegin
  <2> DEFINE copy == [challenges[c] EXCEPT !.attempts = @ + 1]
             r == [op |-> "verify", challenge |-> c, copy |-> copy]
  <2>2. challenges[c] # NULL /\ challenges[c] \in ChallengeRow
    BY <2>1, Rows DEF Open, Stored
  <2>3. copy \in ChallengeRow
    BY <2>1, <2>2, AccountBounds DEF ChallengeRow, TriesLeft
  <2>4. Enter(w, "verify", r)
    BY <2>1
  <2> HIDE DEF copy
  <2>5. r \in InFlight /\ Knows(r) /\ r.op # "refresh"
    BY <2>2, <2>3, Flights DEF Knows
  <2> HIDE DEF r
  <2>6. QED
    BY <1>0, <2>1, <2>4, <2>5, EnterStep DEF RestOK
<1>3. ASSUME NEW e \in Email, NEW pw \in Password, RegisterBegin(w, e, pw)
      PROVE  AccountsInv'
  <2> DEFINE r == [op |-> "register", email |-> e, password |-> pw]
  <2>1. r \in InFlight /\ Knows(r) /\ r.op # "refresh"
    BY Flights DEF Knows
  <2>2. Enter(w, "register", r)
    BY <1>3 DEF RegisterBegin
  <2> HIDE DEF r
  <2>3. QED
    BY <1>0, <1>3, <2>1, <2>2, EnterStep DEF RegisterBegin, RestOK
<1>4. ASSUME NEW u \in User, NEW pw \in Password, Login(w, u, pw)
      PROVE  AccountsInv'
  <2> DEFINE r == [op |-> "issue", user |-> u]
  <2>1. r \in InFlight /\ Knows(r) /\ r.op # "refresh"
    BY <1>4, Flights DEF Knows, Login, Active
  <2>2. Enter(w, "login", r)
    BY <1>4 DEF Login
  <2> HIDE DEF r
  <2>3. QED
    BY <1>0, <1>4, <2>1, <2>2, EnterStep DEF Login, RestOK
<1>5. ASSUME NEW a \in Attempt, NEW i \in Identity, ConsumeAttempt(w, a, i)
      PROVE  AccountsInv'
  <2> DEFINE r == [op |-> "identify", attempt |-> a, identity |-> i]
  <2>1. r \in InFlight /\ Knows(r) /\ r.op # "refresh"
    BY Flights DEF Knows
  <2>2. Enter(w, "oauth", r)
    BY <1>5 DEF ConsumeAttempt
  <2> HIDE DEF r
  <2>3. QED
    BY <1>0, <1>5, <2>1, <2>2, EnterStep DEF ConsumeAttempt, RestOK
<1>6. ASSUME NEW a \in Attempt, ExchangeGrant(w, a)
      PROVE  AccountsInv'
  <2> DEFINE r == [op |-> "issue", user |-> grants[a]]
  <2>1. r \in InFlight /\ Knows(r) /\ r.op # "refresh"
    BY <1>6, Flights DEF Knows, ExchangeGrant, Active
  <2>2. Enter(w, "oauth", r)
    BY <1>6 DEF ExchangeGrant
  <2> HIDE DEF r
  <2>3. grants' \in [Attempt -> GrantState]
    BY <1>0, <1>6 DEF ExchangeGrant, RestOK, GrantState
  <2>4. QED
    BY <1>0, <1>6, <2>1, <2>2, <2>3, EnterStep DEF ExchangeGrant, RestOK
<1>7. ASSUME NEW s \in Session, RefreshBegin(w, s)
      PROVE  AccountsInv'
  <2> DEFINE r == [op |-> "refresh", session |-> s]
  <2>1. r \in InFlight /\ Knows(r) /\ ~SessionLocked(r.session)
    BY <1>7, Flights DEF Knows, RefreshBegin
  <2>2. Enter(w, "refresh", r)
    BY <1>7 DEF RefreshBegin
  <2> HIDE DEF r
  <2>3. QED
    BY <1>0, <1>7, <2>1, <2>2, EnterStep DEF RefreshBegin, RestOK
<1>8. ASSUME NEW p \in proofs, NEW u \in User, NEW pw \in Password, ResetBegin(w, p, u, pw)
      PROVE  AccountsInv'
  <2> DEFINE c == p.challenge
             copy == [users[u] EXCEPT !.password = pw]
             r == [op |-> "reset", challenge |-> c, user |-> u, copy |-> copy,
                   ending |-> {}, saved |-> FALSE]
  <2>1. p.email \in Email /\ c \in Challenge /\ challenges[c] # NULL
    BY DEF AccountsInv, ChallengesOK, Proof
  <2>2. Exists(u) /\ users[u] \in UserRow /\ users[u].status = "ACTIVE"
    BY <1>8, <2>1, HasEmailActive DEF ResetBegin
  <2>3. copy \in UserRow /\ copy.status = "ACTIVE"
    BY <2>2 DEF UserRow
  <2>4. Enter(w, "reset", r)
    BY <1>8 DEF ResetBegin
  <2> HIDE DEF copy, c
  <2>5. r \in InFlight /\ r.op = "reset"
    BY <2>1, <2>3, ResetFlight
  <2>6. Knows(r)
    BY <2>1, <2>2, <2>3 DEF Knows
  <2> HIDE DEF r
  <2>7. QED
    BY <1>0, <1>8, <2>4, <2>5, <2>6, EnterStep DEF ResetBegin, RestOK
<1>9. ASSUME NEW u \in User, ProfileBegin(w, u)
      PROVE  AccountsInv'
  <2> DEFINE r == [op |-> "save", user |-> u, copy |-> users[u]]
  <2>1. r \in InFlight /\ Knows(r) /\ r.op # "refresh"
    BY <1>9, Rows, Flights DEF Knows, ProfileBegin, Active
  <2>2. Enter(w, "profile", r)
    BY <1>9 DEF ProfileBegin
  <2> HIDE DEF r
  <2>3. QED
    BY <1>0, <1>9, <2>1, <2>2, EnterStep DEF ProfileBegin, RestOK
<1>10. ASSUME NEW u \in User, DeleteBegin(w, u)
       PROVE  AccountsInv'
  <2> DEFINE r == [op |-> "delete", user |-> u]
  <2>1. r \in InFlight /\ Knows(r) /\ r.op # "refresh"
    BY <1>10, Flights DEF Knows, DeleteBegin
  <2>2. Enter(w, "delete", r)
    BY <1>10 DEF DeleteBegin
  <2> HIDE DEF r
  <2>3. QED
    BY <1>0, <1>10, <2>1, <2>2, EnterStep DEF DeleteBegin, RestOK
<1>11. ASSUME NEW u \in User, NEW e \in Email, NEW role \in Role, RoleBegin(w, u, e, role)
       PROVE  AccountsInv'
  <2>1. PICK roles \in {users[u].roles \cup {role}, users[u].roles \ {role}} :
          Enter(w, "role", [op |-> "save", user |-> u, copy |-> [users[u] EXCEPT !.roles = roles]])
    BY <1>11 DEF RoleBegin
  <2> DEFINE copy == [users[u] EXCEPT !.roles = roles]
             r == [op |-> "save", user |-> u, copy |-> copy]
  <2>2. Exists(u) /\ users[u] \in UserRow /\ users[u].status = "ACTIVE"
    BY <1>11, HasEmailActive DEF RoleBegin
  <2>3. copy \in UserRow /\ copy.status = "ACTIVE"
    BY <2>2 DEF UserRow
  <2>4. Enter(w, "role", r)
    BY <2>1
  <2> HIDE DEF copy
  <2>5. r \in InFlight /\ Knows(r) /\ r.op # "refresh"
    BY <2>2, <2>3, Flights DEF Knows
  <2> HIDE DEF r
  <2>6. QED
    BY <1>0, <1>11, <2>4, <2>5, EnterStep DEF RoleBegin, RestOK
<1>12. QED
  BY <1>1, <1>2, <1>3, <1>4, <1>5, <1>6, <1>7, <1>8, <1>9, <1>10, <1>11

\* A step no request takes part in.
LEMMA IdleStep ==
    ASSUME AccountsInv, UNCHANGED <<users, sessions, challenges, request>>, proofs' \subseteq proofs,
           RestOK'
    PROVE  AccountsInv'
<1>1. /\ UsersOK' /\ SessionsOK' /\ ChallengesOK' /\ Grows
      /\ \A v \in Request : request[v] # NULL => KeepsHeld(request[v])
  BY TablesStay
<1>2. RequestsOK'
  BY <1>1, RequestStays
<1>3. QED
  BY <1>1, <1>2 DEF AccountsInv

\* The steps of a request that begin no session and end none.
LEMMA QuietSteps ==
    ASSUME AccountsInv, NEW w \in Request
    PROVE  /\ MailDelivered(w) => AccountsInv'
           /\ SendDone(w) \/ Abandon(w) => AccountsInv'
           /\ FindIdentity(w) => AccountsInv'
           /\ LinkIdentity(w) => AccountsInv'
           /\ SaveGrant(w) => AccountsInv'
           /\ ResetSave(w) => AccountsInv'
<1> USE DEF rows
<1>0. RestOK
  BY DEF AccountsInv
<1>1. ASSUME MailDelivered(w) PROVE AccountsInv'
  <2>1. request[w] \in InFlight /\ request[w].op = "mail"
    BY <1>1, Rows DEF MailDelivered, Serving
  <2>2. request[w].challenge \in Challenge
    BY <2>1, FlightTypes
  <2>3. RestOK'
    BY <1>0, <1>1, <2>2 DEF MailDelivered, RestOK
  <2>4. QED
    BY <1>1, <2>3, IdleStep DEF MailDelivered
<1>2. ASSUME SendDone(w) \/ Abandon(w) PROVE AccountsInv'
  BY <1>2, LeaveStep DEF SendDone, Abandon
<1>4. ASSUME FindIdentity(w) PROVE AccountsInv'
  <2> DEFINE req == request[w]
  <2>1. req \in InFlight /\ req.op = "identify"
    BY <1>4, Rows DEF FindIdentity, Serving
  <2>2. req.attempt \in Attempt /\ req.identity \in Identity
    BY <2>1, FlightTypes
  <2>3. PICK r : /\ request' = [request EXCEPT ![w] = r]
                 /\ r \in InFlight /\ Knows(r) /\ r.op # "refresh"
    <3>1. CASE identities[req.identity] # NULL
      <4> DEFINE r == [op |-> "grant", attempt |-> req.attempt, user |-> identities[req.identity]]
      <4>1. request' = [request EXCEPT ![w] = r]
        BY <1>4, <3>1 DEF FindIdentity, Proceed
      <4>2. identities[req.identity] \in User
        BY <1>0, <2>2, <3>1 DEF RestOK
      <4>3. r \in InFlight /\ Knows(r) /\ r.op # "refresh"
        BY <2>2, <4>2, Flights DEF Knows
      <4>4. QED
        BY <4>1, <4>3
    <3>2. CASE /\ identities[req.identity] = NULL
               /\ \E u \in User : HasEmail(u, IdentityEmail[req.identity])
      <4>1. PICK u \in User : request' = [request EXCEPT ![w] =
               [op |-> "link", attempt |-> req.attempt, identity |-> req.identity, user |-> u]]
        BY <1>4, <3>2 DEF FindIdentity, Proceed
      <4> DEFINE r == [op |-> "link", attempt |-> req.attempt, identity |-> req.identity, user |-> u]
      <4>2. r \in InFlight /\ Knows(r) /\ r.op # "refresh"
        BY <2>2, Flights DEF Knows
      <4>3. QED
        BY <4>1, <4>2
    <3>3. CASE /\ identities[req.identity] = NULL
               /\ ~\E u \in User : HasEmail(u, IdentityEmail[req.identity])
      <4> DEFINE r == [op |-> "enrol", attempt |-> req.attempt, identity |-> req.identity]
      <4>1. request' = [request EXCEPT ![w] = r]
        BY <1>4, <3>3 DEF FindIdentity, Proceed
      <4>2. r \in InFlight /\ Knows(r) /\ r.op # "refresh"
        BY <2>2, Flights DEF Knows
      <4>3. QED
        BY <4>1, <4>2
    <3>4. QED
      BY <3>1, <3>2, <3>3
  <2>4. RestOK'
    BY <1>4, RestStays DEF FindIdentity
  <2>5. QED
    BY <1>4, <2>3, <2>4, QuietStep DEF FindIdentity
<1>5. ASSUME LinkIdentity(w) PROVE AccountsInv'
  <2> DEFINE req == request[w]
             r == [op |-> "grant", attempt |-> req.attempt, user |-> req.user]
  <2>1. req \in InFlight /\ req.op = "link"
    BY <1>5, Rows DEF LinkIdentity, Serving
  <2>2. req.attempt \in Attempt /\ req.identity \in Identity /\ req.user \in User
    BY <2>1, FlightTypes
  <2>3. r \in InFlight /\ Knows(r) /\ r.op # "refresh"
    BY <2>2, Flights DEF Knows
  <2>4. request' = [request EXCEPT ![w] = r]
    BY <1>5 DEF LinkIdentity, Proceed
  <2>5. RestOK'
    BY <1>0, <1>5, <2>2 DEF LinkIdentity, RestOK
  <2> HIDE DEF r
  <2>6. QED
    BY <1>5, <2>3, <2>4, <2>5, QuietStep DEF LinkIdentity
<1>6. ASSUME SaveGrant(w) PROVE AccountsInv'
  <2>1. request[w] \in InFlight /\ request[w].op = "grant"
    BY <1>6, Rows DEF SaveGrant, Serving
  <2>2. request[w].attempt \in Attempt /\ request[w].user \in GrantState
    BY <2>1, FlightTypes DEF GrantState
  <2>3. RestOK'
    BY <1>0, <1>6, <2>2 DEF SaveGrant, RestOK
  <2>4. request' = [request EXCEPT ![w] = NULL]
    BY <1>6 DEF SaveGrant, Leave, Proceed
  <2>5. QED
    BY <1>6, <2>3, <2>4, QuietStep DEF SaveGrant
<1>7. ASSUME ResetSave(w) PROVE AccountsInv'
  <2> DEFINE req == request[w]
             S == LiveSessions(req.user)
             r == [op |-> "reset", challenge |-> req.challenge, user |-> req.user,
                   copy |-> req.copy, ending |-> S, saved |-> TRUE]
  <2>1. req \in InFlight /\ req.op = "reset" /\ Knows(req)
    BY <1>7, Rows DEF ResetSave, Serving
  <2>2. S \subseteq Session /\ \A s \in S : sessions[s] # NULL
    BY DEF LiveSessions
  <2>5. /\ req.challenge \in Challenge /\ req.user \in User /\ req.copy \in UserRow
        /\ Exists(req.user) /\ req.copy.status = "ACTIVE" /\ challenges[req.challenge] # NULL
    BY <2>1, FlightTypes DEF Knows
  <2>6. request' = [request EXCEPT ![w] = r]
    BY <1>7 DEF ResetSave, Proceed
  <2> HIDE DEF S
  <2>7. r \in InFlight
    BY <2>2, <2>5, ResetFlight
  <2>8. Knows(r) /\ r.op # "refresh"
    BY <2>2, <2>5 DEF Knows
  <2>9. RestOK'
    BY <1>7, RestStays DEF ResetSave
  <2> HIDE DEF r
  <2>10. QED
    BY <1>7, <2>6, <2>7, <2>8, <2>9, QuietStep DEF ResetSave
<1>8. QED
  BY <1>1, <1>2, <1>4, <1>5, <1>6, <1>7

LEMMA IdleSteps ==
    ASSUME AccountsInv
    PROVE  /\ \A a \in Attempt : StartOAuth(a) => AccountsInv'
           /\ \A p \in proofs : ProofExpires(p) => AccountsInv'
<1> USE DEF rows
<1>1. ASSUME NEW a \in Attempt, StartOAuth(a) PROVE AccountsInv'
  <2>1. RestOK'
    BY <1>1 DEF StartOAuth, AccountsInv, RestOK
  <2>2. QED
    BY <1>1, <2>1, IdleStep DEF StartOAuth
<1>2. ASSUME NEW p \in proofs, ProofExpires(p) PROVE AccountsInv'
  <2>1. RestOK'
    BY <1>2, RestStays DEF ProofExpires
  <2>2. QED
    BY <1>2, <2>1, IdleStep DEF ProofExpires
<1>3. QED
  BY <1>1, <1>2

-----------------------------------------------------------------------------
(* Challenges *)

\* The row of a challenge is written.
LEMMA ChallengeStep ==
    ASSUME AccountsInv, NEW c \in Challenge, NEW row \in ChallengeRow,
           challenges' = [challenges EXCEPT ![c] = row],
           UNCHANGED <<users, sessions>>,
           \/ proofs' = proofs
           \/ \E p \in Proof : p.challenge = c /\ proofs' = proofs \cup {p}
    PROVE  /\ UsersOK' /\ SessionsOK' /\ ChallengesOK' /\ Grows
           /\ \A v \in Request : request[v] # NULL => KeepsHeld(request[v])
<1>1. challenges \in [Challenge -> ChallengeRow \cup {NULL}] /\ row # NULL
  BY AccountNull DEF AccountsInv, ChallengesOK
<1>2. /\ challenges' \in [Challenge -> ChallengeRow \cup {NULL}]
      /\ challenges'[c] # NULL
      /\ \A d \in Challenge : challenges[d] # NULL => challenges'[d] # NULL
  BY <1>1
<1>3. proofs \subseteq Proof /\ \A p \in Proof : p.challenge \in Challenge
  BY DEF AccountsInv, ChallengesOK, Proof
<1>4. ChallengesOK'
  BY <1>2, <1>3 DEF AccountsInv, ChallengesOK
<1>5. UsersOK' /\ SessionsOK' /\ Grows
  BY <1>2 DEF AccountsInv, UsersOK, SessionsOK, Grows, Exists, Active
<1>6. \A v \in Request : request[v] # NULL => KeepsHeld(request[v])
  BY Rows DEF KeepsHeld, Knows, Exists, Active
<1>7. QED
  BY <1>4, <1>5, <1>6

LEMMA ChallengeSteps ==
    ASSUME AccountsInv, NEW w \in Request
    PROVE  /\ \A c \in Challenge : SendInsert(w, c) => AccountsInv'
           /\ SendFailed(w) => AccountsInv'
           /\ VerifyWrong(w) => AccountsInv'
           /\ VerifyRight(w) => AccountsInv'
<1>0. RestOK
  BY DEF AccountsInv
<1>1. ASSUME NEW c \in Challenge, SendInsert(w, c) PROVE AccountsInv'
  <2> DEFINE req == request[w]
             row == [email |-> req.email, purpose |-> req.purpose, attempts |-> 0,
                     recent |-> TRUE, valid |-> TRUE, stored |-> TRUE,
                     consumed |-> FALSE, proofUsed |-> FALSE]
             r == [op |-> "mail", challenge |-> c]
  <2>1. req \in InFlight /\ req.op = "send"
    BY <1>1, Rows DEF SendInsert, Serving
  <2>2. req.email \in Email /\ req.purpose \in Purpose
    BY <2>1, FlightTypes
  <2>3. row \in ChallengeRow
    BY <2>2, AccountBounds DEF ChallengeRow
  <2>4. challenges' = [challenges EXCEPT ![c] = row] /\ request' = [request EXCEPT ![w] = r]
    BY <1>1 DEF SendInsert, Proceed
  <2> HIDE DEF row
  <2>5. /\ UsersOK' /\ SessionsOK' /\ ChallengesOK' /\ Grows
        /\ \A v \in Request : request[v] # NULL => KeepsHeld(request[v])
    BY <1>1, <2>3, <2>4, ChallengeStep DEF SendInsert
  <2>6. r \in InFlight /\ r.op = "mail" /\ r.challenge = c
    BY Flights
  <2>7. challenges'[c] # NULL
    BY <2>3, <2>4, AccountNull DEF AccountsInv, ChallengesOK
  <2> HIDE DEF r
  <2>8. Knows(r)'
    BY <2>6, <2>7 DEF Knows
  <2>9. RequestsOK'
    BY <2>4, <2>5, <2>6, <2>8, RequestBecomes
  <2>10. RestOK'
    BY <1>1, RestStays DEF SendInsert
  <2>11. QED
    BY <2>5, <2>9, <2>10 DEF AccountsInv
<1>2. ASSUME NEW c \in Challenge, NEW row \in ChallengeRow,
             challenges' = [challenges EXCEPT ![c] = row],
             UNCHANGED <<users, sessions>>,
             \/ proofs' = proofs
             \/ \E p \in Proof : p.challenge = c /\ proofs' = proofs \cup {p},
             Leave(w), RestOK'
      PROVE  AccountsInv'
  <2>1. /\ UsersOK' /\ SessionsOK' /\ ChallengesOK' /\ Grows
        /\ \A v \in Request : request[v] # NULL => KeepsHeld(request[v])
    BY <1>2, ChallengeStep
  <2>2. RequestsOK'
    BY <1>2, <2>1, RequestBecomes DEF Leave, Proceed
  <2>3. QED
    BY <1>2, <2>1, <2>2 DEF AccountsInv
<1>3. ASSUME SendFailed(w) PROVE AccountsInv'
  <2> DEFINE c == request[w].challenge
             row == [challenges[c] EXCEPT !.stored = FALSE]
  <2>1. request[w] \in InFlight /\ request[w].op = "mail" /\ Knows(request[w])
    BY <1>3, Rows DEF SendFailed, Serving
  <2>2. c \in Challenge /\ challenges[c] # NULL /\ challenges[c] \in ChallengeRow
    BY <2>1, FlightTypes, Rows DEF Knows
  <2>3. row \in ChallengeRow
    BY <2>2 DEF ChallengeRow
  <2>4. challenges' = [challenges EXCEPT ![c] = row]
    BY <1>3 DEF SendFailed
  <2>5. RestOK'
    BY <1>3, RestStays DEF SendFailed
  <2> HIDE DEF c, row
  <2>6. QED
    BY <1>2, <1>3, <2>2, <2>3, <2>4, <2>5 DEF SendFailed
<1>4. ASSUME Serving(w, "verify")
      PROVE  /\ request[w].challenge \in Challenge
             /\ request[w].copy \in ChallengeRow
             /\ Restored(request[w].challenge, request[w].copy) \in ChallengeRow
  <2>1. request[w] \in InFlight /\ request[w].op = "verify" /\ Knows(request[w])
    BY <1>4, Rows DEF Serving
  <2>2. /\ request[w].challenge \in Challenge /\ request[w].copy \in ChallengeRow
        /\ challenges[request[w].challenge] \in ChallengeRow
    BY <2>1, FlightTypes, Rows DEF Knows
  <2>3. QED
    BY <2>2 DEF Restored, ChallengeRow
<1>5. ASSUME VerifyWrong(w) PROVE AccountsInv'
  <2> DEFINE c == request[w].challenge
             row == Restored(c, request[w].copy)
  <2>1. c \in Challenge /\ row \in ChallengeRow /\ challenges' = [challenges EXCEPT ![c] = row]
    BY <1>4, <1>5 DEF VerifyWrong
  <2>2. RestOK'
    BY <1>5, RestStays DEF VerifyWrong
  <2> HIDE DEF c, row
  <2>3. QED
    BY <1>2, <1>5, <2>1, <2>2 DEF VerifyWrong
<1>6. ASSUME VerifyRight(w) PROVE AccountsInv'
  <2> DEFINE c == request[w].challenge
             copy == request[w].copy
             row == [Restored(c, copy) EXCEPT !.consumed = TRUE]
             p == [purpose |-> copy.purpose, email |-> copy.email, challenge |-> c]
  <2>1. c \in Challenge /\ copy \in ChallengeRow /\ Restored(c, copy) \in ChallengeRow
    BY <1>4, <1>6 DEF VerifyRight
  <2>2. row \in ChallengeRow
    BY <2>1 DEF ChallengeRow
  <2>3. p \in Proof /\ p.challenge = c
    BY <2>1 DEF ChallengeRow, Proof
  <2>4. challenges' = [challenges EXCEPT ![c] = row] /\ proofs' = proofs \cup {p}
    BY <1>6 DEF VerifyRight
  <2>5. RestOK'
    BY <1>0, <1>6, <2>1 DEF VerifyRight, RestOK
  <2> HIDE DEF c, row, copy, p
  <2>6. QED
    BY <1>2, <1>6, <2>1, <2>2, <2>3, <2>4, <2>5 DEF VerifyRight
<1>7. QED
  BY <1>1, <1>3, <1>5, <1>6

LEMMA ChallengeAgesStep ==
    ASSUME AccountsInv, NEW c \in Challenge, ChallengeAges(c)
    PROVE  AccountsInv'
<1> DEFINE row == IF challenges[c].recent THEN [challenges[c] EXCEPT !.recent = FALSE]
                  ELSE [challenges[c] EXCEPT !.valid = FALSE]
<1>1. row \in ChallengeRow
  BY Rows DEF ChallengeAges, ChallengeRow
<1>2. challenges' = [challenges EXCEPT ![c] = row]
  BY DEF ChallengeAges
<1> HIDE DEF row
<1>3. /\ UsersOK' /\ SessionsOK' /\ ChallengesOK' /\ Grows
      /\ \A v \in Request : request[v] # NULL => KeepsHeld(request[v])
  BY <1>1, <1>2, ChallengeStep DEF ChallengeAges
<1>4. RequestsOK'
  BY <1>3, RequestStays DEF ChallengeAges
<1>5. RestOK'
  BY RestStays DEF ChallengeAges
<1>6. QED
  BY <1>3, <1>4, <1>5 DEF AccountsInv

-----------------------------------------------------------------------------
(* Accounts *)

\* The row of an account is written, active.
LEMMA UserStep ==
    ASSUME AccountsInv, NEW u \in User, NEW row \in UserRow, row.status = "ACTIVE",
           users' = [users EXCEPT ![u] = row]
    PROVE  /\ UsersOK'
           /\ \A v \in User : Exists(v) => users'[v] # NULL
           /\ \A v \in User : Active(v) => users'[v] # NULL /\ users'[v].status = "ACTIVE"
<1>1. users \in [User -> UserRow \cup {NULL}] /\ row # NULL
  BY AccountNull DEF AccountsInv, UsersOK
<1>2. \A v \in User : users'[v] = IF v = u THEN row ELSE users[v]
  BY <1>1
<1>3. users' \in [User -> UserRow \cup {NULL}]
  BY <1>1
<1>4. QED
  BY <1>1, <1>2, <1>3 DEF AccountsInv, UsersOK, Exists, Active

\* The row of an account is written, the sessions and challenges stay.
LEMMA AccountStep ==
    ASSUME AccountsInv, NEW u \in User, NEW row \in UserRow, row.status = "ACTIVE",
           users' = [users EXCEPT ![u] = row],
           UNCHANGED <<sessions, challenges, identities, attempts, grants, proofs, mailed,
                       begun, verified, spent>>,
           NEW w \in Request, NEW r \in InFlight \cup {NULL},
           request' = [request EXCEPT ![w] = r],
           r # NULL => r.op \notin {"refresh", "reset", "save", "delete", "mail", "verify"},
           r # NULL /\ r.op = "issue" => r.user = u
    PROVE  AccountsInv'
<1>1. /\ UsersOK'
      /\ \A v \in User : Exists(v) => users'[v] # NULL
      /\ \A v \in User : Active(v) => users'[v] # NULL /\ users'[v].status = "ACTIVE"
  BY UserStep
<1>2. \A s \in Session : sessions[s] # NULL => sessions[s].user \in User
  BY Rows DEF SessionRow
<1>3. SessionsOK' /\ ChallengesOK' /\ Grows
  BY <1>1, <1>2 DEF AccountsInv, SessionsOK, ChallengesOK, Grows, Exists, Active
<1>4. ASSUME NEW v \in Request, request[v] # NULL PROVE KeepsHeld(request[v])
  <2>1. request[v] \in InFlight /\ Knows(request[v])
    BY <1>4, Rows
  <2>2. QED
    BY <1>1, <1>2, <2>1, FlightTypes DEF Knows, KeepsHeld
<1>5. r # NULL => Knows(r)'
  <2>1. users'[u] # NULL
    BY AccountNull DEF AccountsInv, UsersOK
  <2>2. QED
    BY <2>1 DEF Knows, Exists
<1>6. RequestsOK'
  BY <1>3, <1>4, <1>5, RequestBecomes
<1>7. RestOK'
  BY RestStays
<1>8. QED
  BY <1>1, <1>3, <1>6, <1>7 DEF AccountsInv

LEMMA AccountSteps ==
    ASSUME AccountsInv, NEW w \in Request
    PROVE  /\ \A u \in User : RegisterInsert(w, u) \/ EnrolUser(w, u) => AccountsInv'
           /\ SaveUser(w) => AccountsInv'
<1>1. ASSUME NEW u \in User, RegisterInsert(w, u) PROVE AccountsInv'
  <2> DEFINE row == [email |-> request[w].email, status |-> "ACTIVE",
                     password |-> request[w].password, roles |-> {}]
             r == [op |-> "issue", user |-> u]
  <2>1. request[w] \in InFlight /\ request[w].op = "register"
    BY <1>1, Rows DEF RegisterInsert, Serving
  <2>2. row \in UserRow /\ row.status = "ACTIVE"
    BY <2>1, FlightTypes DEF UserRow
  <2>3. users' = [users EXCEPT ![u] = row] /\ request' = [request EXCEPT ![w] = r]
    BY <1>1 DEF RegisterInsert, NewUser, Proceed
  <2>4. r \in InFlight /\ r.op = "issue" /\ r.user = u
    BY Flights
  <2> HIDE DEF row, r
  <2>5. QED
    BY <1>1, <2>2, <2>3, <2>4, AccountStep DEF RegisterInsert
<1>2. ASSUME NEW u \in User, EnrolUser(w, u) PROVE AccountsInv'
  <2> DEFINE req == request[w]
             row == [email |-> IdentityEmail[req.identity], status |-> "ACTIVE",
                     password |-> NULL, roles |-> {}]
             r == [op |-> "link", attempt |-> req.attempt, identity |-> req.identity, user |-> u]
  <2>1. req \in InFlight /\ req.op = "enrol"
    BY <1>2, Rows DEF EnrolUser, Serving
  <2>2. req.attempt \in Attempt /\ req.identity \in Identity
    BY <2>1, FlightTypes
  <2>3. row \in UserRow /\ row.status = "ACTIVE"
    BY <2>2, MemberAssumption DEF UserRow
  <2>4. users' = [users EXCEPT ![u] = row] /\ request' = [request EXCEPT ![w] = r]
    BY <1>2 DEF EnrolUser, NewUser, Proceed
  <2>5. r \in InFlight /\ r.op = "link"
    BY <2>2, Flights
  <2> HIDE DEF row, r
  <2>6. QED
    BY <1>2, <2>3, <2>4, <2>5, AccountStep DEF EnrolUser
<1>3. ASSUME SaveUser(w) PROVE AccountsInv'
  <2>1. request[w] \in InFlight /\ request[w].op = "save" /\ Knows(request[w])
    BY <1>3, Rows DEF SaveUser, Serving
  <2>2. /\ request[w].user \in User /\ request[w].copy \in UserRow
        /\ request[w].copy.status = "ACTIVE"
    BY <2>1, FlightTypes DEF Knows
  <2>3. /\ users' = [users EXCEPT ![request[w].user] = request[w].copy]
        /\ request' = [request EXCEPT ![w] = NULL]
    BY <1>3 DEF SaveUser, Leave, Proceed
  <2>4. QED
    BY <1>3, <2>2, <2>3, AccountStep DEF SaveUser
<1>4. QED
  BY <1>1, <1>2, <1>3

-----------------------------------------------------------------------------
(* Sessions *)

\* A stored session that is ended keeps its other columns.
LEMMA EndedRows ==
    ASSUME AccountsInv, NEW S \in SUBSET Session, \A s \in S : sessions[s] # NULL
    PROVE  /\ Ended(S) \in [Session -> SessionRow \cup {NULL}]
           /\ \A s \in Session :
                /\ s \notin S => Ended(S)[s] = sessions[s]
                /\ Ended(S)[s] # NULL <=> sessions[s] # NULL
                /\ sessions[s] # NULL =>
                     /\ Ended(S)[s].user = sessions[s].user
                     /\ Ended(S)[s].signIn = sessions[s].signIn
                     /\ Ended(S)[s].round = sessions[s].round
                     /\ Ended(S)[s].live <=> sessions[s].live /\ s \notin S
<1>1. ASSUME NEW s \in S
      PROVE  /\ Ended(S)[s] = [sessions[s] EXCEPT !.live = FALSE]
             /\ sessions[s] \in SessionRow
             /\ Ended(S)[s] \in SessionRow
  <2>1. Ended(S)[s] = [sessions[s] EXCEPT !.live = FALSE]
    BY DEF Ended
  <2>2. sessions[s] \in SessionRow
    BY Rows
  <2>3. [sessions[s] EXCEPT !.live = FALSE] \in SessionRow
    BY <2>2 DEF SessionRow
  <2>4. QED
    BY <2>1, <2>2, <2>3
<1>2. \A s \in Session \ S : Ended(S)[s] = sessions[s]
  BY DEF Ended
<1>3. \A s \in S : /\ Ended(S)[s].user = sessions[s].user
                   /\ Ended(S)[s].signIn = sessions[s].signIn
                   /\ Ended(S)[s].round = sessions[s].round
                   /\ Ended(S)[s].live = FALSE
  BY <1>1 DEF SessionRow
<1>4. Ended(S) \in [Session -> SessionRow \cup {NULL}]
  <2>1. \A s \in Session : Ended(S)[s] \in SessionRow \cup {NULL}
    BY <1>1, <1>2 DEF AccountsInv, SessionsOK
  <2>2. QED
    BY <2>1 DEF Ended
<1>5. \A s \in S : Ended(S)[s] # NULL
  BY <1>1, AccountNull
<1>6. \A s \in Session : sessions[s] # NULL => sessions[s].live \in BOOLEAN
  BY Rows DEF SessionRow
<1>7. QED
  BY <1>2, <1>3, <1>4, <1>5, <1>6

\* Sessions no refresh holds are ended; accounts stay active but for those
\* whose good sessions are all ended.
LEMMA EndStep ==
    ASSUME AccountsInv, NEW S \in SUBSET Session,
           \A s \in S : sessions[s] # NULL /\ ~SessionLocked(s),
           sessions' = Ended(S),
           UsersOK',
           \A u \in User : Exists(u) => users'[u] # NULL,
           \A s \in Session \ S :
               sessions[s] # NULL /\ sessions[s].live /\ Active(sessions[s].user) =>
                   users'[sessions[s].user].status = "ACTIVE",
           \A c \in Challenge : challenges[c] # NULL => challenges'[c] # NULL
    PROVE  /\ SessionsOK' /\ Grows
           /\ \A v \in Request : request[v] # NULL => KeepsHeld(request[v])
<1>1. /\ sessions' \in [Session -> SessionRow \cup {NULL}]
      /\ \A s \in Session :
           /\ s \notin S => sessions'[s] = sessions[s]
           /\ sessions'[s] # NULL <=> sessions[s] # NULL
           /\ sessions[s] # NULL =>
                /\ sessions'[s].user = sessions[s].user
                /\ sessions'[s].signIn = sessions[s].signIn
                /\ sessions'[s].round = sessions[s].round
                /\ sessions'[s].live <=> sessions[s].live /\ s \notin S
  BY EndedRows
<1>2. \A s \in Session : sessions[s] # NULL => sessions[s].user \in User /\ sessions[s].signIn \in Session
  BY Rows DEF SessionRow
<1>3. Grows
  BY <1>1 DEF Grows, Exists
<1>4. ASSUME NEW s \in Session, sessions'[s] # NULL
      PROVE  /\ users'[sessions'[s].user] # NULL
             /\ sessions'[sessions'[s].signIn] # NULL
             /\ sessions'[s].live /\ sessions'[s].round # 1 =>
                  users'[sessions'[s].user].status = "ACTIVE"
  <2>1. /\ sessions[s] # NULL /\ sessions'[s].user = sessions[s].user
        /\ sessions'[s].signIn = sessions[s].signIn /\ sessions'[s].round = sessions[s].round
        /\ sessions[s].user \in User /\ sessions[s].signIn \in Session
        /\ sessions'[s].live => sessions[s].live /\ s \notin S
    BY <1>1, <1>2, <1>4
  <2>2. /\ Exists(sessions[s].user) /\ sessions[sessions[s].signIn] # NULL
        /\ sessions[s].live /\ sessions[s].round # 1 => Active(sessions[s].user)
    BY <2>1 DEF AccountsInv, SessionsOK
  <2>3. QED
    BY <1>1, <2>1, <2>2
<1>5. ASSUME NEW s \in Session, NEW t \in Session,
             sessions'[s] # NULL, sessions'[s].live, sessions'[t] # NULL, sessions'[t].live,
             sessions'[s].signIn = sessions'[t].signIn
      PROVE  s = t
  BY <1>1, <1>5 DEF AccountsInv, SessionsOK
<1>6. SessionsOK'
  BY <1>1, <1>4, <1>5 DEF SessionsOK, Exists, Active
<1>7. ASSUME NEW v \in Request, request[v] # NULL, request[v].op = "refresh"
      PROVE  KeepsHeld(request[v])
  <2> DEFINE s == request[v].session
  <2>1. request[v] \in InFlight /\ Knows(request[v])
    BY <1>7, Rows
  <2>2. /\ s \in Session /\ sessions[s] # NULL /\ sessions[s].live /\ Active(sessions[s].user)
    BY <1>7, <2>1, FlightTypes DEF Knows
  <2>3. s \notin S
    BY <1>7 DEF SessionLocked, Serving
  <2>4. sessions'[s] = sessions[s] /\ sessions[s].user \in User /\ users'[sessions[s].user] # NULL
    BY <1>1, <1>2, <2>2, <2>3 DEF Active
  <2>5. QED
    BY <2>2, <2>3, <2>4 DEF KeepsHeld
<1>8. QED
  BY <1>3, <1>6, <1>7 DEF KeepsHeld

\* A session is inserted for an account that exists: the first of its
\* sign-in, or the successor of a good one that is ended with it.
LEMMA InsertStep ==
    ASSUME AccountsInv, NEW t \in Session, sessions[t] = NULL,
           NEW row \in SessionRow, row.live = TRUE, Exists(row.user),
           NEW S \in SUBSET Session,
           \/ S = {} /\ row.signIn = t /\ row.round = 1
           \/ \E s \in Session : /\ S = {s} /\ sessions[s] # NULL /\ sessions[s].live
                                 /\ row.signIn = sessions[s].signIn
                                 /\ Active(row.user),
           sessions' = [Ended(S) EXCEPT ![t] = row],
           UNCHANGED <<users, challenges>>
    PROVE  /\ SessionsOK' /\ Grows
           /\ \A s \in Session \ S : sessions[s] # NULL => sessions'[s] = sessions[s]
<1>0. \A s \in S : sessions[s] # NULL
  OBVIOUS
<1>1. /\ Ended(S) \in [Session -> SessionRow \cup {NULL}]
      /\ \A s \in Session :
           /\ s \notin S => Ended(S)[s] = sessions[s]
           /\ Ended(S)[s] # NULL <=> sessions[s] # NULL
           /\ sessions[s] # NULL =>
                /\ Ended(S)[s].user = sessions[s].user
                /\ Ended(S)[s].signIn = sessions[s].signIn
                /\ Ended(S)[s].round = sessions[s].round
                /\ Ended(S)[s].live <=> sessions[s].live /\ s \notin S
  BY <1>0, EndedRows
<1>2. row # NULL
  BY AccountNull
<1>3. /\ sessions' \in [Session -> SessionRow \cup {NULL}]
      /\ sessions'[t] = row
      /\ \A s \in Session \ {t} : sessions'[s] = Ended(S)[s]
  BY <1>1
<1>4. \A s \in Session : sessions[s] # NULL => sessions[s].signIn \in Session
  BY Rows DEF SessionRow
<1>5. Grows
  BY <1>1, <1>2, <1>3 DEF Grows
<1>6. ASSUME NEW s \in Session, sessions'[s] # NULL
      PROVE  /\ Exists(sessions'[s].user)
             /\ sessions'[sessions'[s].signIn] # NULL
             /\ sessions'[s].live /\ sessions'[s].round # 1 => Active(sessions'[s].user)
  <2>1. CASE s = t
    <3>1. \/ row.signIn = t /\ row.round = 1
          \/ \E x \in Session : /\ sessions[x] # NULL
                                /\ row.signIn = sessions[x].signIn /\ Active(row.user)
      OBVIOUS
    <3>2. \A x \in Session : sessions[x] # NULL => sessions'[sessions[x].signIn] # NULL
      BY <1>4, <1>5 DEF AccountsInv, SessionsOK, Grows
    <3>3. QED
      BY <1>2, <1>3, <2>1, <3>1, <3>2
  <2>2. CASE s # t
    <3>1. /\ sessions[s] # NULL /\ sessions'[s].user = sessions[s].user
          /\ sessions'[s].signIn = sessions[s].signIn /\ sessions'[s].round = sessions[s].round
          /\ sessions'[s].live => sessions[s].live
      BY <1>1, <1>3, <1>6, <2>2
    <3>2. /\ Exists(sessions[s].user) /\ sessions[sessions[s].signIn] # NULL
          /\ sessions[s].live /\ sessions[s].round # 1 => Active(sessions[s].user)
      BY <3>1 DEF AccountsInv, SessionsOK
    <3>3. sessions'[sessions[s].signIn] # NULL
      BY <1>4, <1>5, <3>1, <3>2 DEF Grows
    <3>4. QED
      BY <3>1, <3>2, <3>3
  <2>3. QED
    BY <2>1, <2>2
<1>7. ASSUME NEW x \in Session, sessions[x] # NULL, sessions[x].live, x \notin S
      PROVE  sessions[x].signIn # row.signIn
  <2>1. CASE S = {} /\ row.signIn = t
    BY <1>7, <2>1 DEF AccountsInv, SessionsOK
  <2>2. CASE \E s \in Session : /\ S = {s} /\ sessions[s] # NULL /\ sessions[s].live
                                /\ row.signIn = sessions[s].signIn
    BY <1>7, <2>2 DEF AccountsInv, SessionsOK
  <2>3. QED
    BY <2>1, <2>2
<1>8. ASSUME NEW x \in Session, NEW y \in Session,
             sessions'[x] # NULL, sessions'[x].live, sessions'[y] # NULL, sessions'[y].live,
             sessions'[x].signIn = sessions'[y].signIn
      PROVE  x = y
  <2>1. \A z \in Session : z # t /\ sessions'[z] # NULL /\ sessions'[z].live =>
          /\ sessions[z] # NULL /\ sessions[z].live /\ z \notin S
          /\ sessions'[z].signIn = sessions[z].signIn
    BY <1>1, <1>3
  <2>2. x = t /\ y # t => FALSE
    BY <1>3, <1>7, <1>8, <2>1
  <2>3. y = t /\ x # t => FALSE
    BY <1>3, <1>7, <1>8, <2>1
  <2>4. x # t /\ y # t => x = y
    BY <1>8, <2>1 DEF AccountsInv, SessionsOK
  <2>5. QED
    BY <2>2, <2>3, <2>4
<1>9. SessionsOK'
  BY <1>3, <1>6, <1>8 DEF SessionsOK, Exists, Active
<1>10. \A s \in Session \ S : sessions[s] # NULL => sessions'[s] = sessions[s]
  BY <1>1, <1>3
<1>11. QED
  BY <1>5, <1>9, <1>10

LEMMA SessionSteps ==
    ASSUME AccountsInv, NEW w \in Request
    PROVE  /\ \A s \in Session : IssueSession(w, s) => AccountsInv'
           /\ \A t \in Session : RefreshCommit(w, t) => AccountsInv'
<1>1. ASSUME NEW t \in Session, IssueSession(w, t) PROVE AccountsInv'
  <2> DEFINE u == request[w].user
             row == [user |-> u, signIn |-> t, round |-> 1, live |-> TRUE]
  <2>1. request[w] \in InFlight /\ request[w].op = "issue" /\ Knows(request[w])
    BY <1>1, Rows DEF IssueSession, Serving
  <2>2. u \in User /\ Exists(u) /\ sessions[t] = NULL
    BY <1>1, <2>1, FlightTypes DEF Knows, IssueSession, FreshSession
  <2>3. row \in SessionRow /\ row.live = TRUE /\ row.user = u /\ row.signIn = t /\ row.round = 1
    BY <2>2 DEF SessionRow
  <2>4. Ended({}) = sessions
    BY DEF Ended, AccountsInv, SessionsOK
  <2>5. sessions' = [Ended({}) EXCEPT ![t] = row]
    BY <1>1, <2>4 DEF IssueSession
  <2> HIDE DEF row, u
  <2>6. UNCHANGED <<users, challenges>>
    BY <1>1 DEF IssueSession
  <2> DEFINE S == {}
  <2>7. /\ S \in SUBSET Session /\ S = {}
        /\ sessions' = [Ended(S) EXCEPT ![t] = row]
    BY <2>5
  <2> HIDE DEF S
  <2>8. /\ SessionsOK' /\ Grows
        /\ \A s \in Session \ S : sessions[s] # NULL => sessions'[s] = sessions[s]
    BY <2>2, <2>3, <2>6, <2>7, InsertStep
  <2>9. ASSUME NEW v \in Request, request[v] # NULL PROVE KeepsHeld(request[v])
    <3>1. request[v] \in InFlight /\ Knows(request[v])
      BY <2>9, Rows
    <3>2. QED
      BY <2>6, <2>7, <2>8, <3>1, FlightTypes DEF Knows, KeepsHeld, Exists, Active
  <2>10. RequestsOK'
    BY <1>1, <2>8, <2>9, RequestBecomes DEF IssueSession, Leave, Proceed
  <2>11. UsersOK' /\ ChallengesOK'
    BY <1>1 DEF IssueSession, AccountsInv, UsersOK, ChallengesOK, Exists
  <2>12. RestOK'
    BY <1>1, RestStays DEF IssueSession
  <2>13. QED
    BY <2>8, <2>10, <2>11, <2>12 DEF AccountsInv
<1>2. ASSUME NEW t \in Session, RefreshCommit(w, t) PROVE AccountsInv'
  <2> DEFINE s == request[w].session
             row == [user |-> sessions[s].user, signIn |-> sessions[s].signIn,
                     round |-> sessions[s].round + 1, live |-> TRUE]
             S == {s}
  <2>1. request[w] \in InFlight /\ request[w].op = "refresh" /\ Knows(request[w])
    BY <1>2, Rows DEF RefreshCommit, Serving
  <2>2. /\ s \in Session /\ sessions[s] # NULL /\ sessions[s].live /\ Active(sessions[s].user)
        /\ sessions[s] \in SessionRow /\ sessions[t] = NULL
    BY <1>2, <2>1, FlightTypes, Rows DEF Knows, RefreshCommit, FreshSession
  <2>3. /\ row \in SessionRow /\ row.live = TRUE
        /\ row.signIn = sessions[s].signIn /\ row.user = sessions[s].user
    BY <2>2 DEF SessionRow
  <2>4. sessions' = [Ended(S) EXCEPT ![t] = row] /\ UNCHANGED <<users, challenges>>
    BY <1>2 DEF RefreshCommit
  <2>5. \A v \in Request \ {w} : Serving(v, "refresh") => request[v].session \notin S
    BY <1>2 DEF RefreshCommit, AccountsInv, RequestsOK
  <2>6. S \in SUBSET Session /\ S = {s}
    BY <2>2
  <2> HIDE DEF s, row, S
  <2>7. Exists(row.user) /\ Active(row.user)
    BY <2>2, <2>3 DEF Active
  <2>8. \/ S = {} /\ row.signIn = t /\ row.round = 1
        \/ \E x \in Session : /\ S = {x} /\ sessions[x] # NULL /\ sessions[x].live
                              /\ row.signIn = sessions[x].signIn
                              /\ Active(row.user)
    BY <2>2, <2>3, <2>6, <2>7
  <2>9. /\ SessionsOK' /\ Grows
        /\ \A x \in Session \ S : sessions[x] # NULL => sessions'[x] = sessions[x]
    <3>1. row \in SessionRow /\ row.live = TRUE /\ Exists(row.user)
          /\ S \in SUBSET Session /\ sessions[t] = NULL
      BY <2>2, <2>3, <2>6, <2>7
    <3>2. QED
      BY <2>4, <2>8, <3>1, InsertStep
  <2>10. ASSUME NEW v \in Request \ {w}, request[v] # NULL PROVE KeepsHeld(request[v])
    <3>1. request[v] \in InFlight /\ Knows(request[v])
      BY <2>10, Rows
    <3>2. request[v].op = "refresh" => request[v].session \notin S
      BY <2>5, <2>10 DEF Serving
    <3>3. QED
      BY <2>4, <2>9, <3>1, <3>2, FlightTypes DEF Knows, KeepsHeld, Exists, Active
  <2>11. RequestsOK'
    BY <1>2, <2>9, <2>10, RequestBecomes DEF RefreshCommit, Leave, Proceed
  <2>12. UsersOK' /\ ChallengesOK'
    BY <1>2 DEF RefreshCommit, AccountsInv, UsersOK, ChallengesOK, Exists
  <2>13. RestOK'
    BY <1>2, RestStays DEF RefreshCommit
  <2>14. QED
    BY <2>9, <2>11, <2>12, <2>13 DEF AccountsInv
<1>3. QED
  BY <1>1, <1>2

LEMMA RevokeStep ==
    ASSUME AccountsInv, NEW s \in Session, Revoke(s)
    PROVE  AccountsInv'
<1> DEFINE S == {s}
<1>1. S \in SUBSET Session /\ sessions' = Ended(S)
  BY DEF Revoke
<1>2. \A x \in S : sessions[x] # NULL /\ ~SessionLocked(x)
  BY DEF Revoke
<1> HIDE DEF S
<1>3. UsersOK' /\ ChallengesOK'
  BY DEF Revoke, AccountsInv, UsersOK, ChallengesOK, Exists
<1>4. UNCHANGED <<users, challenges, request>>
  BY DEF Revoke
<1>5. /\ SessionsOK' /\ Grows
      /\ \A v \in Request : request[v] # NULL => KeepsHeld(request[v])
  BY <1>1, <1>2, <1>3, <1>4, EndStep DEF Exists, Active
<1>6. RequestsOK'
  BY <1>4, <1>5, RequestStays
<1>7. RestOK'
  BY RestStays DEF Revoke
<1>8. QED
  BY <1>3, <1>5, <1>6, <1>7 DEF AccountsInv

\* resetPassword and deleteAccount write an account and end sessions.
LEMMA AccountEnds ==
    ASSUME AccountsInv, NEW w \in Request, Leave(w), NEW S \in SUBSET Session,
           \A s \in S : sessions[s] # NULL /\ ~SessionLocked(s),
           sessions' = Ended(S), UsersOK', ChallengesOK', RestOK',
           \A u \in User : Exists(u) => users'[u] # NULL,
           \A s \in Session \ S :
               sessions[s] # NULL /\ sessions[s].live /\ Active(sessions[s].user) =>
                   users'[sessions[s].user].status = "ACTIVE",
           \A c \in Challenge : challenges[c] # NULL => challenges'[c] # NULL
    PROVE  AccountsInv'
<1>1. /\ SessionsOK' /\ Grows
      /\ \A v \in Request : request[v] # NULL => KeepsHeld(request[v])
  BY EndStep
<1>2. RequestsOK'
  BY <1>1, RequestBecomes DEF Leave, Proceed
<1>3. QED
  BY <1>1, <1>2 DEF AccountsInv

LEMMA ResetCommitStep ==
    ASSUME AccountsInv, NEW w \in Request, ResetCommit(w)
    PROVE  AccountsInv'
<1> DEFINE req == request[w]
           S == req.ending
           c == req.challenge
           row == [challenges[c] EXCEPT !.proofUsed = TRUE]
<1>1. req \in InFlight /\ req.op = "reset" /\ Knows(req)
  BY Rows DEF ResetCommit, Serving
<1>2. /\ c \in Challenge /\ challenges[c] \in ChallengeRow
      /\ req.user \in User /\ req.copy \in UserRow /\ req.copy.status = "ACTIVE"
      /\ S \subseteq Session /\ \A s \in S : sessions[s] # NULL
  BY <1>1, FlightTypes, Rows DEF Knows
<1>3. row \in ChallengeRow /\ challenges' = [challenges EXCEPT ![c] = row]
  BY <1>2 DEF ResetCommit, ProofUsed, ChallengeRow
<1>4. row # NULL
  BY <1>3, AccountNull
<1>5. ChallengesOK' /\ \A d \in Challenge : challenges[d] # NULL => challenges'[d] # NULL
  <2>1. challenges \in [Challenge -> ChallengeRow \cup {NULL}] /\ proofs' = proofs
        /\ \A p \in proofs : p.challenge \in Challenge
    BY DEF ResetCommit, AccountsInv, ChallengesOK, Proof
  <2> HIDE DEF row
  <2>2. challenges' \in [Challenge -> ChallengeRow \cup {NULL}]
        /\ \A d \in Challenge : challenges[d] # NULL => challenges'[d] # NULL
    BY <1>2, <1>3, <1>4, <2>1
  <2>3. QED
    BY <2>1, <2>2 DEF AccountsInv, ChallengesOK
<1>6. users' = [users EXCEPT ![req.user] = req.copy]
  BY DEF ResetCommit
<1>7. /\ UsersOK'
      /\ \A v \in User : Exists(v) => users'[v] # NULL
      /\ \A v \in User : Active(v) => users'[v] # NULL /\ users'[v].status = "ACTIVE"
  BY <1>2, <1>6, UserStep
<1>8. RestOK'
  BY <1>2 DEF ResetCommit, AccountsInv, RestOK
<1>9. /\ sessions' = Ended(S) /\ Leave(w)
      /\ \A s \in S : ~SessionLocked(s)
  BY DEF ResetCommit
<1>10. \A s \in Session : sessions[s] # NULL => sessions[s].user \in User
  BY Rows DEF SessionRow
<1> HIDE DEF S
<1>11. QED
  BY <1>2, <1>5, <1>7, <1>8, <1>9, <1>10, AccountEnds

LEMMA DeleteCommitStep ==
    ASSUME AccountsInv, NEW w \in Request, DeleteCommit(w)
    PROVE  AccountsInv'
<1> DEFINE u == request[w].user
           S == LiveSessions(u)
           row == DeletedRow(users[u])
<1>1. request[w] \in InFlight /\ request[w].op = "delete" /\ Knows(request[w])
  BY Rows DEF DeleteCommit, Serving
<1>2. u \in User /\ Exists(u) /\ users[u] \in UserRow
  BY <1>1, FlightTypes, Rows DEF Knows
<1>3. row \in UserRow /\ row.email = NULL
  BY <1>2 DEF DeletedRow, UserRow
<1>4. row # NULL /\ users' = [users EXCEPT ![u] = row]
  BY <1>3, AccountNull DEF DeleteCommit
<1>5. users \in [User -> UserRow \cup {NULL}]
  BY DEF AccountsInv, UsersOK
<1> HIDE DEF row
<1>6. /\ users' \in [User -> UserRow \cup {NULL}]
      /\ users'[u] = row
      /\ \A v \in User \ {u} : users'[v] = users[v]
  BY <1>2, <1>3, <1>4, <1>5
<1>7. UsersOK'
  BY <1>3, <1>6 DEF AccountsInv, UsersOK, Exists
<1>8. \A v \in User : Exists(v) => users'[v] # NULL
  BY <1>4, <1>6 DEF Exists
<1>9. \A s \in Session \ S :
        sessions[s] # NULL /\ sessions[s].live /\ Active(sessions[s].user) =>
            users'[sessions[s].user].status = "ACTIVE"
  <2>1. \A s \in Session : sessions[s] # NULL => sessions[s].user \in User
    BY Rows DEF SessionRow
  <2>2. \A s \in Session \ S : sessions[s] # NULL /\ sessions[s].live => sessions[s].user # u
    BY DEF LiveSessions
  <2> HIDE DEF u, S
  <2>3. QED
    BY <1>6, <2>1, <2>2 DEF Active
<1>10. /\ S \subseteq Session
       /\ \A s \in S : sessions[s] # NULL /\ ~SessionLocked(s)
       /\ sessions' = Ended(S) /\ Leave(w)
       /\ UNCHANGED <<challenges, proofs>>
  BY DEF DeleteCommit, LiveSessions
<1>11. ChallengesOK'
  BY <1>10 DEF AccountsInv, ChallengesOK
<1>12. RestOK'
  BY DEF DeleteCommit, AccountsInv, RestOK
<1> HIDE DEF S, u
<1>13. QED
  BY <1>7, <1>8, <1>9, <1>10, <1>11, <1>12, AccountEnds

-----------------------------------------------------------------------------
(* The invariant holds *)

LEMMA AccountsInit == Init => AccountsInv
<1> SUFFICES ASSUME Init PROVE AccountsInv
  OBVIOUS
<1>1. UsersOK
  <2>1. ASSUME NEW u \in Member
        PROVE  /\ users[u] \in UserRow
               /\ users[u].status = "ACTIVE"
    <3>1. (CHOOSE p \in Password : TRUE) \in Password
      BY MemberAssumption
    <3>2. users[u] = [email |-> MemberEmail[u], status |-> "ACTIVE",
                      password |-> CHOOSE p \in Password : TRUE, roles |-> {}]
      BY MemberAssumption DEF Init
    <3>3. MemberEmail[u] \in Email
      BY MemberAssumption
    <3>4. QED
      BY <3>1, <3>2, <3>3 DEF UserRow
  <2>2. \A u \in User \ Member : users[u] = NULL
    BY DEF Init
  <2>3. users = [u \in User |-> users[u]]
    BY DEF Init
  <2>4. QED
    BY <2>1, <2>2, <2>3 DEF UsersOK, Exists
<1>2. SessionsOK
  BY DEF Init, SessionsOK
<1>3. ChallengesOK
  BY DEF Init, ChallengesOK
<1>4. RequestsOK
  BY DEF Init, RequestsOK, Serving
<1>5. RestOK
  BY AccountBounds DEF Init, RestOK, GrantState
<1>6. QED
  BY <1>1, <1>2, <1>3, <1>4, <1>5 DEF AccountsInv

LEMMA AccountsStep == AccountsInv /\ [Next]_vars => AccountsInv'
<1> SUFFICES ASSUME AccountsInv, [Next]_vars PROVE AccountsInv'
  OBVIOUS
<1>1. ASSUME NEW w \in Request,
             \/ \E e \in Email, p \in Purpose : SendBegin(w, e, p) \/ VerifyBegin(w, e, p)
             \/ \E e \in Email, pw \in Password : RegisterBegin(w, e, pw)
             \/ \E u \in User, pw \in Password : Login(w, u, pw)
             \/ \E a \in Attempt, i \in Identity : ConsumeAttempt(w, a, i)
             \/ \E a \in Attempt : ExchangeGrant(w, a)
             \/ \E s \in Session : RefreshBegin(w, s)
             \/ \E p \in proofs, u \in User, pw \in Password : ResetBegin(w, p, u, pw)
             \/ \E u \in User : ProfileBegin(w, u) \/ DeleteBegin(w, u)
             \/ \E u \in User, e \in Email, r \in Role : RoleBegin(w, u, e, r)
      PROVE  AccountsInv'
  BY <1>1, BeginSteps
<1>2. ASSUME NEW w \in Request,
             \/ MailDelivered(w) \/ SendDone(w) \/ Abandon(w) \/ FindIdentity(w)
             \/ LinkIdentity(w) \/ SaveGrant(w) \/ ResetSave(w)
      PROVE  AccountsInv'
  BY <1>2, QuietSteps
<1>3. ASSUME NEW w \in Request,
             \/ \E c \in Challenge : SendInsert(w, c)
             \/ SendFailed(w) \/ VerifyWrong(w) \/ VerifyRight(w)
      PROVE  AccountsInv'
  BY <1>3, ChallengeSteps
<1>4. ASSUME NEW c \in Challenge, ChallengeAges(c)
      PROVE  AccountsInv'
  BY <1>4, ChallengeAgesStep
<1>5. ASSUME NEW w \in Request,
             \/ \E u \in User : RegisterInsert(w, u) \/ EnrolUser(w, u)
             \/ SaveUser(w)
      PROVE  AccountsInv'
  BY <1>5, AccountSteps
<1>6. ASSUME NEW w \in Request, \E s \in Session : IssueSession(w, s) \/ RefreshCommit(w, s)
      PROVE  AccountsInv'
  BY <1>6, SessionSteps
<1>7. ASSUME NEW s \in Session, Revoke(s)
      PROVE  AccountsInv'
  BY <1>7, RevokeStep
<1>8. ASSUME NEW w \in Request, ResetCommit(w) \/ DeleteCommit(w)
      PROVE  AccountsInv'
  BY <1>8, ResetCommitStep, DeleteCommitStep
<1>9. CASE \/ \E a \in Attempt : StartOAuth(a)
           \/ \E p \in proofs : ProofExpires(p)
  BY <1>9, IdleSteps
<1>10. CASE UNCHANGED vars
  <2>1. /\ UNCHANGED <<users, sessions, challenges, request, proofs>>
        /\ UNCHANGED <<identities, attempts, grants, mailed, begun, verified, spent>>
    BY <1>10 DEF vars
  <2>2. RestOK'
    BY <2>1, RestStays
  <2>3. QED
    BY <2>1, <2>2, IdleStep
<1>11. QED
  BY <1>1, <1>2, <1>3, <1>4, <1>5, <1>6, <1>7, <1>8, <1>9, <1>10 DEF Next

\* The inductive invariant of the users, sessions, challenges and requests, which
\* every theorem below rests on.
THEOREM AccountsInvariant == Spec => []AccountsInv
BY AccountsInit, AccountsStep, PTL DEF Spec

\* Every row and every request in flight is typed, whatever requests meet.
THEOREM AccountsTypeCorrect == Spec => []AccountsTypeOK
<1>1. AccountsInv => AccountsTypeOK
  BY DEF AccountsInv, UsersOK, SessionsOK, ChallengesOK, RequestsOK, RestOK, AccountsTypeOK
<1>2. QED
  BY <1>1, AccountsInvariant, PTL

\* A session left to an account that is deleted meanwhile is never rotated:
\* deleteAccount waits for the refreshes it meets and ends what they inserted,
\* and refresh looks at the account after it has locked the session.
THEOREM DeletedNeverRefreshesCorrect == Spec => []DeletedNeverRefreshes
<1>1. AccountsInv => DeletedNeverRefreshes
  BY DEF AccountsInv, SessionsOK, DeletedNeverRefreshes, Active
<1>2. QED
  BY <1>1, AccountsInvariant, PTL

-----------------------------------------------------------------------------
(* Accounts implements SignIns *)

\* The tokens that the sessions of S stand for, as far as they are good.
TokensOf(S) == {TokenOf(sessions[s]) : s \in {t \in S : sessions[t] # NULL /\ sessions[t].live}}
SignInsMade == {sessions[s].signIn : s \in StoredSessions}

LEMMA SignInsShown ==
    /\ Sign!signInVars = <<SignInsMade, TokensOf(Session)>>
    /\ Sign!signInVars' = <<SignInsMade', TokensOf(Session)'>>
<1>1. {t \in StoredSessions : sessions[t].live} =
          {t \in Session : sessions[t] # NULL /\ sessions[t].live}
  BY DEF StoredSessions
<1>2. {t \in StoredSessions : sessions[t].live}' =
          {t \in Session : sessions[t] # NULL /\ sessions[t].live}'
  BY DEF StoredSessions
<1>3. QED
  BY <1>1, <1>2 DEF Sign!signInVars, SignInsMade, TokensOf

\* Ending sessions ends their tokens and no other.
LEMMA TokensEnded ==
    ASSUME AccountsInv, NEW S \in SUBSET Session, \A s \in S : sessions[s] # NULL,
           sessions' = Ended(S)
    PROVE  /\ SignInsMade' = SignInsMade
           /\ TokensOf(Session)' = TokensOf(Session) \ TokensOf(S)
<1>1. \A s \in Session :
           /\ s \notin S => sessions'[s] = sessions[s]
           /\ sessions'[s] # NULL <=> sessions[s] # NULL
           /\ sessions[s] # NULL =>
                /\ sessions'[s].signIn = sessions[s].signIn
                /\ sessions'[s].live <=> sessions[s].live /\ s \notin S
  BY EndedRows
<1>2. SignInsMade' = SignInsMade
  <2>1. StoredSessions' = StoredSessions
    BY <1>1 DEF StoredSessions
  <2>2. \A s \in StoredSessions : sessions'[s].signIn = sessions[s].signIn
    BY <1>1 DEF StoredSessions
  <2>3. QED
    BY <2>1, <2>2 DEF SignInsMade
<1> DEFINE Live == {s \in Session : sessions[s] # NULL /\ sessions[s].live}
<1>3. {s \in Session : sessions[s] # NULL /\ sessions[s].live}' = Live \ S
  BY <1>1
<1>4. TokensOf(Session)' = {TokenOf(sessions[s]) : s \in Live \ S}
  <2>1. TokensOf(Session)' = {TokenOf(sessions'[s]) : s \in Live \ S}
    BY <1>3 DEF TokensOf, TokenOf
  <2>2. \A s \in Live \ S : TokenOf(sessions'[s]) = TokenOf(sessions[s])
    BY <1>1
  <2>3. QED
    BY <2>1, <2>2
<1>5. TokensOf(S) = {TokenOf(sessions[s]) : s \in Live \cap S}
  <2>1. {t \in S : sessions[t] # NULL /\ sessions[t].live} = Live \cap S
    OBVIOUS
  <2>2. QED
    BY <2>1 DEF TokensOf
<1>6. TokensOf(Session) = {TokenOf(sessions[s]) : s \in Live}
  BY DEF TokensOf
<1>7. \A s, t \in Live : TokenOf(sessions[s]) = TokenOf(sessions[t]) => s = t
  BY DEF TokenOf, AccountsInv, SessionsOK
<1> HIDE DEF Live
<1>8. QED
  BY <1>2, <1>4, <1>5, <1>6, <1>7

LEMMA EndRefines ==
    ASSUME AccountsInv, NEW S \in SUBSET Session, \A s \in S : sessions[s] # NULL,
           sessions' = Ended(S)
    PROVE  Sign!SignInsNext
<1>1. /\ SignInsMade' = SignInsMade
      /\ TokensOf(Session)' = TokensOf(Session) \ TokensOf(S)
  BY TokensEnded
<1>2. TokensOf(S) \in SUBSET TokensOf(Session)
  BY DEF TokensOf
<1>3. QED
  BY <1>1, <1>2, SignInsShown DEF Sign!SignInsNext, Sign!EndTokens, Sign!signInVars

\* Inserting a session makes its token good.
LEMMA TokenInserted ==
    ASSUME AccountsInv, NEW t \in Session, sessions[t] = NULL,
           NEW row \in SessionRow, row.live = TRUE,
           NEW S \in SUBSET Session, \A s \in S : sessions[s] # NULL,
           sessions' = [Ended(S) EXCEPT ![t] = row]
    PROVE  /\ SignInsMade' = SignInsMade \cup {row.signIn}
           /\ TokensOf(Session)' = (TokensOf(Session) \ TokensOf(S)) \cup {TokenOf(row)}
<1>1. /\ Ended(S) \in [Session -> SessionRow \cup {NULL}]
      /\ \A s \in Session :
           /\ s \notin S => Ended(S)[s] = sessions[s]
           /\ Ended(S)[s] # NULL <=> sessions[s] # NULL
           /\ sessions[s] # NULL =>
                /\ Ended(S)[s].signIn = sessions[s].signIn
                /\ Ended(S)[s].live <=> sessions[s].live /\ s \notin S
  BY EndedRows
<1>2. row # NULL /\ t \notin S
  BY AccountNull
<1>3. /\ sessions'[t] = row
      /\ \A s \in Session \ {t} : sessions'[s] = Ended(S)[s]
  BY <1>1
<1>4. SignInsMade' = SignInsMade \cup {row.signIn}
  <2>1. StoredSessions' = StoredSessions \cup {t}
    BY <1>1, <1>2, <1>3 DEF StoredSessions
  <2>2. \A s \in StoredSessions : s # t /\ sessions'[s].signIn = sessions[s].signIn
    BY <1>1, <1>3 DEF StoredSessions
  <2>3. QED
    BY <1>3, <2>1, <2>2 DEF SignInsMade
<1> DEFINE Live == {s \in Session : sessions[s] # NULL /\ sessions[s].live}
<1>5. {s \in Session : sessions[s] # NULL /\ sessions[s].live}' = (Live \ S) \cup {t}
  BY <1>1, <1>2, <1>3
<1>6. TokensOf(Session)' = {TokenOf(sessions[s]) : s \in Live \ S} \cup {TokenOf(row)}
  <2>1. TokensOf(Session)' = {TokenOf(sessions'[s]) : s \in (Live \ S) \cup {t}}
    BY <1>5 DEF TokensOf, TokenOf
  <2>2. \A s \in Live \ S : TokenOf(sessions'[s]) = TokenOf(sessions[s])
    BY <1>1, <1>3
  <2>3. TokenOf(sessions'[t]) = TokenOf(row)
    BY <1>3
  <2> HIDE DEF Live
  <2>4. QED
    BY <2>1, <2>2, <2>3
<1>7. TokensOf(S) = {TokenOf(sessions[s]) : s \in Live \cap S}
  <2>1. {x \in S : sessions[x] # NULL /\ sessions[x].live} = Live \cap S
    OBVIOUS
  <2>2. QED
    BY <2>1 DEF TokensOf
<1>8. TokensOf(Session) = {TokenOf(sessions[s]) : s \in Live}
  BY DEF TokensOf
<1>9. \A s, x \in Live : TokenOf(sessions[s]) = TokenOf(sessions[x]) => s = x
  BY DEF TokenOf, AccountsInv, SessionsOK
<1> HIDE DEF Live
<1>10. QED
  BY <1>4, <1>6, <1>7, <1>8, <1>9

LEMMA IssueRefines ==
    ASSUME AccountsInv, NEW w \in Request, NEW t \in Session, IssueSession(w, t)
    PROVE  Sign!SignInsNext
<1> DEFINE row == [user |-> request[w].user, signIn |-> t, round |-> 1, live |-> TRUE]
           S == {}
<1>1. request[w] \in InFlight /\ request[w].op = "issue"
  BY Rows DEF IssueSession, Serving
<1>2. request[w].user \in User /\ sessions[t] = NULL
  BY <1>1, FlightTypes DEF IssueSession, FreshSession
<1>3. row \in SessionRow /\ row.live = TRUE /\ row.signIn = t /\ TokenOf(row) = Sign!FirstToken(t)
  BY <1>2 DEF SessionRow, TokenOf, Sign!FirstToken
<1>4. sessions' = [Ended(S) EXCEPT ![t] = row]
  <2>1. Ended({}) = sessions
    BY DEF Ended, AccountsInv, SessionsOK
  <2>2. QED
    BY <2>1 DEF IssueSession
<1>5. S \in SUBSET Session /\ TokensOf(S) = {} /\ \A s \in S : sessions[s] # NULL
  BY DEF TokensOf
<1> HIDE DEF row, S
<1>6. /\ SignInsMade' = SignInsMade \cup {t}
      /\ TokensOf(Session)' = TokensOf(Session) \cup {Sign!FirstToken(t)}
  <2>1. /\ SignInsMade' = SignInsMade \cup {row.signIn}
        /\ TokensOf(Session)' = (TokensOf(Session) \ TokensOf(S)) \cup {TokenOf(row)}
    BY <1>2, <1>3, <1>4, <1>5, TokenInserted
  <2>2. QED
    BY <2>1, <1>3, <1>5
<1>7. t \notin SignInsMade
  BY <1>2 DEF SignInsMade, StoredSessions, AccountsInv, SessionsOK
<1>8. QED
  BY <1>6, <1>7, SignInsShown DEF Sign!SignInsNext, Sign!Enter, Sign!signInVars

LEMMA RefreshRefines ==
    ASSUME AccountsInv, NEW w \in Request, NEW t \in Session, RefreshCommit(w, t)
    PROVE  Sign!SignInsNext
<1> DEFINE s == request[w].session
           row == [user |-> sessions[s].user, signIn |-> sessions[s].signIn,
                   round |-> sessions[s].round + 1, live |-> TRUE]
           S == {s}
           token == TokenOf(sessions[s])
<1>1. request[w] \in InFlight /\ request[w].op = "refresh" /\ Knows(request[w])
  BY Rows DEF RefreshCommit, Serving
<1>2. /\ s \in Session /\ sessions[s] # NULL /\ sessions[s].live
      /\ sessions[s] \in SessionRow /\ sessions[t] = NULL
  BY <1>1, FlightTypes, Rows DEF Knows, RefreshCommit, FreshSession
<1>3. /\ row \in SessionRow /\ row.live = TRUE /\ row.signIn = sessions[s].signIn
      /\ TokenOf(row) = Sign!NextToken(token)
  BY <1>2 DEF SessionRow, TokenOf, Sign!NextToken
<1>4. sessions' = [Ended(S) EXCEPT ![t] = row]
  BY DEF RefreshCommit
<1>5. /\ S \in SUBSET Session /\ \A x \in S : sessions[x] # NULL
      /\ TokensOf(S) = {token} /\ token \in TokensOf(Session)
      /\ sessions[s].signIn \in SignInsMade
  BY <1>2 DEF TokensOf, SignInsMade, StoredSessions
<1> HIDE DEF row, S, token, s
<1>6. /\ SignInsMade' = SignInsMade
      /\ TokensOf(Session)' = (TokensOf(Session) \ {token}) \cup {Sign!NextToken(token)}
  <2>1. /\ SignInsMade' = SignInsMade \cup {row.signIn}
        /\ TokensOf(Session)' = (TokensOf(Session) \ TokensOf(S)) \cup {TokenOf(row)}
    BY <1>2, <1>3, <1>4, <1>5, TokenInserted
  <2>2. QED
    BY <2>1, <1>3, <1>5
<1>7. QED
  BY <1>5, <1>6, SignInsShown DEF Sign!SignInsNext, Sign!Rotate, Sign!signInVars

LEMMA SignInsStep == AccountsInv /\ [Next]_vars => [Sign!SignInsNext]_(Sign!signInVars)
<1> SUFFICES ASSUME AccountsInv, [Next]_vars
             PROVE  Sign!SignInsNext \/ UNCHANGED Sign!signInVars
  OBVIOUS
<1>1. ASSUME UNCHANGED sessions PROVE UNCHANGED Sign!signInVars
  BY <1>1 DEF Sign!signInVars, StoredSessions, TokenOf
<1>2. ASSUME NEW w \in Request, NEW t \in Session, IssueSession(w, t) \/ RefreshCommit(w, t)
      PROVE  Sign!SignInsNext
  BY <1>2, IssueRefines, RefreshRefines
<1>3. ASSUME NEW s \in Session, Revoke(s)
      PROVE  Sign!SignInsNext
  <2> DEFINE S == {s}
  <2>1. S \in SUBSET Session /\ sessions' = Ended(S) /\ \A x \in S : sessions[x] # NULL
    BY <1>3 DEF Revoke
  <2> HIDE DEF S
  <2>2. QED
    BY <2>1, EndRefines
<1>4. ASSUME NEW w \in Request, ResetCommit(w)
      PROVE  Sign!SignInsNext
  <2> DEFINE S == request[w].ending
  <2>1. request[w] \in InFlight /\ request[w].op = "reset" /\ Knows(request[w])
    BY <1>4, Rows DEF ResetCommit, Serving
  <2>2. S \in SUBSET Session /\ \A x \in S : sessions[x] # NULL
    BY <2>1, FlightTypes DEF Knows
  <2>3. sessions' = Ended(S)
    BY <1>4 DEF ResetCommit
  <2> HIDE DEF S
  <2>4. QED
    BY <2>2, <2>3, EndRefines
<1>5. ASSUME NEW w \in Request, DeleteCommit(w)
      PROVE  Sign!SignInsNext
  <2> DEFINE S == LiveSessions(request[w].user)
  <2>1. S \in SUBSET Session /\ sessions' = Ended(S) /\ \A x \in S : sessions[x] # NULL
    BY <1>5 DEF DeleteCommit, LiveSessions
  <2> HIDE DEF S
  <2>2. QED
    BY <2>1, EndRefines
<1>6. CASE UNCHANGED vars
  BY <1>1, <1>6 DEF vars
<1>7. QED
  BY <1>1, <1>2, <1>3, <1>4, <1>5, <1>6
  DEF Next, rows, SendBegin, VerifyBegin, SendInsert, MailDelivered, SendDone, SendFailed,
      VerifyWrong, VerifyRight, FindIdentity, LinkIdentity, SaveGrant, ResetSave, SaveUser,
      Abandon, ChallengeAges, ProofExpires, RegisterBegin, RegisterInsert, EnrolUser, Login,
      RefreshBegin, StartOAuth, ConsumeAttempt, ExchangeGrant, ResetBegin, ProfileBegin,
      DeleteBegin, RoleBegin

\* What the sessions table accepts behaves like tokens rotated one by one.
THEOREM AccountsImplementSignIns == Spec => ImplementsSignIns
<1>1. Init => Sign!SignInsInit
  BY DEF Init, Sign!SignInsInit, StoredSessions
<1>2. QED
  BY <1>1, SignInsStep, AccountsInvariant, PTL DEF Spec, ImplementsSignIns, Sign!SignInsSpec

\* At most one token of a sign-in is good, however requests race.
THEOREM OneGoodToken == Spec => []Sign!OneTokenPerSignIn
<1>1. AccountsInv => Sign!OneTokenPerSignIn
  BY DEF AccountsInv, SessionsOK, Sign!OneTokenPerSignIn, StoredSessions, TokenOf
<1>2. QED
  BY <1>1, AccountsInvariant, PTL

-----------------------------------------------------------------------------
(* A proof sets one password *)

\* A challenge whose proof may be used was verified more often than its proof
\* was used, and so was the one a reset holds.
SpentInv ==
    /\ \A c \in Challenge :
        /\ spent[c] <= verified[c]
        /\ challenges[c] # NULL /\ challenges[c].consumed /\ ~challenges[c].proofUsed =>
               spent[c] < verified[c]
    /\ \A w \in Request :
        /\ Serving(w, "reset") => spent[request[w].challenge] < verified[request[w].challenge]
        /\ Serving(w, "verify") => request[w].copy.consumed = FALSE
    /\ \A v, w \in Request :
        /\ Serving(v, "reset") /\ Serving(w, "reset")
        /\ request[v].challenge = request[w].challenge
        => v = w

\* The request of w becomes r, which is no reset.
LEMMA SpentStays ==
    ASSUME AccountsInv, SpentInv, UNCHANGED <<challenges, verified, spent>>,
           \/ UNCHANGED request
           \/ \E w \in Request, r \in InFlight \cup {NULL} :
                /\ request' = [request EXCEPT ![w] = r]
                /\ r = NULL \/ r.op \notin {"reset", "verify"}
    PROVE  SpentInv'
<1>1. CASE UNCHANGED request
  BY <1>1 DEF SpentInv, Serving
<1>2. CASE ~UNCHANGED request
  <2>1. PICK w \in Request, r \in InFlight \cup {NULL} :
           /\ request' = [request EXCEPT ![w] = r]
           /\ r = NULL \/ r.op \notin {"reset", "verify"}
    BY <1>2
  <2>2. \A v \in Request : request'[v] = IF v = w THEN r ELSE request[v]
    BY <2>1 DEF AccountsInv, RequestsOK
  <2>3. ASSUME NEW v \in Request, NEW op \in {"reset", "verify"}, Serving(v, op)'
        PROVE  Serving(v, op) /\ request'[v] = request[v]
    BY <2>1, <2>2, <2>3 DEF Serving
  <2>4. QED
    BY <2>3 DEF SpentInv
<1>3. QED
  BY <1>1, <1>2

\* A verification answers: the counters of its challenge, and its row.
LEMMA SpentChallenge ==
    ASSUME AccountsInv, SpentInv, NEW c \in Challenge, NEW row \in ChallengeRow,
           challenges' = [challenges EXCEPT ![c] = row],
           UNCHANGED spent,
           \/ UNCHANGED verified
           \/ verified' = [verified EXCEPT ![c] = @ + 1],
           row.consumed /\ ~row.proofUsed => spent[c] < verified'[c],
           \/ UNCHANGED request
           \/ \E w \in Request, r \in InFlight \cup {NULL} :
                /\ request' = [request EXCEPT ![w] = r]
                /\ r = NULL \/ r.op \notin {"reset", "verify"}
    PROVE  SpentInv'
<1>1. \A d \in Challenge : challenges'[d] = IF d = c THEN row ELSE challenges[d]
  BY DEF AccountsInv, ChallengesOK
<1>2. \A d \in Challenge : /\ spent[d] \in Nat /\ verified[d] \in Nat /\ verified'[d] \in Nat
                           /\ verified[d] <= verified'[d]
  BY DEF AccountsInv, RestOK
<1>3. ASSUME NEW d \in Challenge
      PROVE  /\ spent'[d] <= verified'[d]
             /\ challenges'[d] # NULL /\ challenges'[d].consumed /\ ~challenges'[d].proofUsed =>
                    spent'[d] < verified'[d]
  BY <1>1, <1>2 DEF SpentInv
<1>4. ASSUME NEW v \in Request, NEW op \in {"reset", "verify"}, Serving(v, op)'
      PROVE  Serving(v, op) /\ request'[v] = request[v]
  <2>1. CASE UNCHANGED request
    BY <1>4, <2>1 DEF Serving
  <2>2. CASE ~UNCHANGED request
    <3>1. PICK w \in Request, r \in InFlight \cup {NULL} :
             /\ request' = [request EXCEPT ![w] = r]
             /\ r = NULL \/ r.op \notin {"reset", "verify"}
      BY <2>2
    <3>2. \A x \in Request : request'[x] = IF x = w THEN r ELSE request[x]
      BY <3>1 DEF AccountsInv, RequestsOK
    <3>3. QED
      BY <1>4, <3>1, <3>2 DEF Serving
  <2>3. QED
    BY <2>1, <2>2
<1>5. ASSUME NEW v \in Request, Serving(v, "reset")'
      PROVE  spent'[request'[v].challenge] < verified'[request'[v].challenge]
  <2>1. Serving(v, "reset") /\ request'[v] = request[v]
    BY <1>4, <1>5
  <2>2. request[v].challenge \in Challenge
    <3>1. request[v] \in InFlight /\ request[v].op = "reset"
      BY <2>1, Rows DEF Serving
    <3>2. QED
      BY <3>1, FlightTypes
  <2>3. spent[request[v].challenge] < verified[request[v].challenge]
    BY <2>1 DEF SpentInv
  <2>4. QED
    BY <1>2, <2>1, <2>2, <2>3
<1>6. ASSUME NEW v \in Request, Serving(v, "verify")'
      PROVE  request'[v].copy.consumed = FALSE
  BY <1>4, <1>6 DEF SpentInv
<1>7. ASSUME NEW v \in Request, NEW w \in Request, Serving(v, "reset")', Serving(w, "reset")',
             request'[v].challenge = request'[w].challenge
      PROVE  v = w
  BY <1>4, <1>7 DEF SpentInv
<1>8. QED
  BY <1>3, <1>5, <1>6, <1>7 DEF SpentInv

\* A request is a reset whose challenge no other holds.
LEMMA ResetSpent ==
    ASSUME AccountsInv, SpentInv, UNCHANGED <<challenges, verified, spent>>,
           NEW w \in Request, NEW r, r.op = "reset",
           \A v \in Request : request'[v] = IF v = w THEN r ELSE request[v],
           spent[r.challenge] < verified[r.challenge],
           \A v \in Request \ {w} : Serving(v, "reset") => request[v].challenge # r.challenge
    PROVE  SpentInv'
<1>1. \A v \in Request : Serving(v, "reset")' => v = w \/ Serving(v, "reset")
  BY DEF Serving
<1>2. \A v \in Request : Serving(v, "verify")' => Serving(v, "verify") /\ request'[v] = request[v]
  BY DEF Serving
<1>3. \A v \in Request : Serving(v, "reset")' =>
        spent[request'[v].challenge] < verified[request'[v].challenge]
  BY <1>1 DEF SpentInv
<1>4. \A v, x \in Request : /\ Serving(v, "reset")' /\ Serving(x, "reset")'
                            /\ request'[v].challenge = request'[x].challenge
                            => v = x
  BY <1>1 DEF SpentInv
<1>5. QED
  BY <1>2, <1>3, <1>4 DEF SpentInv

LEMMA SpentAges ==
    ASSUME AccountsInv, SpentInv, NEW c \in Challenge, ChallengeAges(c)
    PROVE  SpentInv'
<1> DEFINE row == IF challenges[c].recent THEN [challenges[c] EXCEPT !.recent = FALSE]
                  ELSE [challenges[c] EXCEPT !.valid = FALSE]
<1>1. challenges[c] \in ChallengeRow /\ challenges[c] # NULL
  BY Rows DEF ChallengeAges
<1>2. /\ row \in ChallengeRow
      /\ row.consumed = challenges[c].consumed /\ row.proofUsed = challenges[c].proofUsed
  BY <1>1 DEF ChallengeRow
<1>3. challenges' = [challenges EXCEPT ![c] = row] /\ UNCHANGED <<request, verified, spent>>
  BY DEF ChallengeAges
<1> HIDE DEF row
<1>4. row.consumed /\ ~row.proofUsed => spent[c] < verified'[c]
  BY <1>1, <1>2, <1>3 DEF SpentInv
<1>5. QED
  BY <1>2, <1>3, <1>4, SpentChallenge

LEMMA SpentVerify ==
    ASSUME AccountsInv, SpentInv, NEW w \in Request
    PROVE  /\ \A c \in Challenge : SendInsert(w, c) => SpentInv'
           /\ SendFailed(w) => SpentInv'
           /\ VerifyWrong(w) \/ VerifyRight(w) => SpentInv'
<1>1. ASSUME NEW c \in Challenge, SendInsert(w, c) PROVE SpentInv'
  <2> DEFINE req == request[w]
             row == [email |-> req.email, purpose |-> req.purpose, attempts |-> 0,
                     recent |-> TRUE, valid |-> TRUE, stored |-> TRUE,
                     consumed |-> FALSE, proofUsed |-> FALSE]
             r == [op |-> "mail", challenge |-> c]
  <2>1. req \in InFlight /\ req.op = "send"
    BY <1>1, Rows DEF SendInsert, Serving
  <2>2. row \in ChallengeRow /\ row.consumed = FALSE
    BY <2>1, FlightTypes, AccountBounds DEF ChallengeRow
  <2>3. challenges' = [challenges EXCEPT ![c] = row] /\ request' = [request EXCEPT ![w] = r]
        /\ UNCHANGED <<verified, spent>>
    BY <1>1 DEF SendInsert, Proceed
  <2>4. r \in InFlight /\ r.op = "mail"
    BY Flights
  <2> HIDE DEF row, r
  <2>5. QED
    BY <2>2, <2>3, <2>4, SpentChallenge
<1>2. ASSUME NEW c \in Challenge, NEW row \in ChallengeRow,
             challenges' = [challenges EXCEPT ![c] = row], UNCHANGED spent,
             \/ UNCHANGED verified
             \/ verified' = [verified EXCEPT ![c] = @ + 1],
             row.consumed /\ ~row.proofUsed => spent[c] < verified'[c],
             Leave(w)
      PROVE  SpentInv'
  <2>1. request' = [request EXCEPT ![w] = NULL]
    BY <1>2 DEF Leave, Proceed
  <2>2. QED
    BY <1>2, <2>1, SpentChallenge
<1>3. ASSUME SendFailed(w) PROVE SpentInv'
  <2> DEFINE c == request[w].challenge
             row == [challenges[c] EXCEPT !.stored = FALSE]
  <2>1. request[w] \in InFlight /\ request[w].op = "mail" /\ Knows(request[w])
    BY <1>3, Rows DEF SendFailed, Serving
  <2>2. c \in Challenge /\ challenges[c] # NULL /\ challenges[c] \in ChallengeRow
    BY <2>1, FlightTypes, Rows DEF Knows
  <2>3. /\ row \in ChallengeRow
        /\ row.consumed = challenges[c].consumed /\ row.proofUsed = challenges[c].proofUsed
    BY <2>2 DEF ChallengeRow
  <2>4. challenges' = [challenges EXCEPT ![c] = row] /\ UNCHANGED <<verified, spent>> /\ Leave(w)
    BY <1>3 DEF SendFailed
  <2> HIDE DEF c, row
  <2>5. row.consumed /\ ~row.proofUsed => spent[c] < verified'[c]
    BY <2>2, <2>3, <2>4 DEF SpentInv
  <2>6. QED
    BY <1>2, <2>2, <2>3, <2>4, <2>5
<1>4. ASSUME VerifyWrong(w) \/ VerifyRight(w) PROVE SpentInv'
  <2> DEFINE c == request[w].challenge
             copy == request[w].copy
             kept == Restored(c, copy)
             row == [kept EXCEPT !.consumed = TRUE]
  <2>1. Serving(w, "verify") /\ request[w] \in InFlight /\ request[w].op = "verify" /\ Knows(request[w])
    BY <1>4, Rows DEF VerifyWrong, VerifyRight, Serving
  <2>2. /\ c \in Challenge /\ copy \in ChallengeRow /\ copy.consumed = FALSE
        /\ challenges[c] \in ChallengeRow
    BY <2>1, FlightTypes, Rows DEF Knows, SpentInv
  <2>3. kept \in ChallengeRow /\ kept.consumed = FALSE
    BY <2>2 DEF Restored, ChallengeRow
  <2> HIDE DEF kept
  <2>4. row \in ChallengeRow
    BY <2>3 DEF ChallengeRow
  <2>5. CASE VerifyWrong(w)
    <3>1. challenges' = [challenges EXCEPT ![c] = kept] /\ UNCHANGED <<verified, spent>> /\ Leave(w)
      BY <2>5 DEF VerifyWrong, kept
    <3> HIDE DEF c
    <3>2. QED
      BY <1>2, <2>2, <2>3, <3>1
  <2>6. CASE VerifyRight(w)
    <3>1. /\ challenges' = [challenges EXCEPT ![c] = row] /\ UNCHANGED spent /\ Leave(w)
          /\ verified' = [verified EXCEPT ![c] = @ + 1]
      BY <2>6 DEF VerifyRight, kept
    <3> HIDE DEF row, c
    <3>2. spent[c] < verified'[c]
      <4>1. verified \in [Challenge -> Nat] /\ spent \in [Challenge -> Nat] /\ spent[c] <= verified[c]
        BY <2>2 DEF AccountsInv, RestOK, SpentInv
      <4>2. verified'[c] = verified[c] + 1
        BY <2>2, <3>1, <4>1
      <4>3. QED
        BY <2>2, <4>1, <4>2
    <3>3. QED
      BY <1>2, <2>2, <2>4, <3>1, <3>2
  <2>7. QED
    BY <1>4, <2>5, <2>6
<1>5. QED
  BY <1>1, <1>3, <1>4

LEMMA SpentReset ==
    ASSUME AccountsInv, SpentInv, NEW w \in Request, ResetCommit(w)
    PROVE  SpentInv'
<1> DEFINE c == request[w].challenge
           row == [challenges[c] EXCEPT !.proofUsed = TRUE]
<1>1. Serving(w, "reset") /\ request[w] \in InFlight /\ request[w].op = "reset" /\ Knows(request[w])
  BY Rows DEF ResetCommit, Serving
<1>2. c \in Challenge /\ challenges[c] \in ChallengeRow
  BY <1>1, FlightTypes, Rows DEF Knows
<1>3. /\ row.proofUsed = TRUE
      /\ challenges' = [challenges EXCEPT ![c] = row]
  BY <1>2 DEF ResetCommit, ProofUsed, ChallengeRow
<1>4. spent' = [spent EXCEPT ![c] = @ + 1] /\ UNCHANGED verified
      /\ request' = [request EXCEPT ![w] = NULL]
  BY DEF ResetCommit, Leave, Proceed
<1>5. spent[c] < verified[c]
  BY <1>1 DEF SpentInv
<1>6. \A v \in Request \ {w} : Serving(v, "reset") => request[v].challenge # c
  BY <1>1 DEF SpentInv
<1> HIDE DEF c, row
<1>7. /\ \A d \in Challenge : challenges'[d] = IF d = c THEN row ELSE challenges[d]
      /\ \A d \in Challenge : spent'[d] = IF d = c THEN spent[d] + 1 ELSE spent[d]
      /\ \A d \in Challenge : spent[d] \in Nat /\ verified[d] \in Nat
  BY <1>3, <1>4 DEF AccountsInv, ChallengesOK, RestOK
<1>8. ASSUME NEW d \in Challenge
      PROVE  /\ spent'[d] <= verified'[d]
             /\ challenges'[d] # NULL /\ challenges'[d].consumed /\ ~challenges'[d].proofUsed =>
                    spent'[d] < verified'[d]
  <2>1. CASE d = c
    BY <1>2, <1>3, <1>4, <1>5, <1>7, <2>1
  <2>2. CASE d # c
    BY <1>4, <1>7, <2>2 DEF SpentInv
  <2>3. QED
    BY <2>1, <2>2
<1>9. \A v \in Request, op \in {"reset", "verify"} :
         Serving(v, op)' => v # w /\ Serving(v, op) /\ request'[v] = request[v]
  BY <1>4 DEF AccountsInv, RequestsOK, Serving
<1>10. ASSUME NEW v \in Request, Serving(v, "reset")'
       PROVE  spent'[request'[v].challenge] < verified'[request'[v].challenge]
  <2>1. v # w /\ Serving(v, "reset") /\ request'[v] = request[v]
    BY <1>9, <1>10
  <2>2. request[v] \in InFlight /\ request[v].op = "reset"
    BY <2>1, Rows DEF Serving
  <2>3. request[v].challenge \in Challenge \ {c}
    BY <1>6, <2>1, <2>2, FlightTypes
  <2>4. spent[request[v].challenge] < verified[request[v].challenge]
    BY <2>1 DEF SpentInv
  <2>5. QED
    BY <1>4, <1>7, <2>1, <2>3, <2>4
<1>11. QED
  BY <1>8, <1>9, <1>10 DEF SpentInv

LEMMA SpentInit == Init => SpentInv
BY DEF Init, SpentInv, Serving

LEMMA SpentStep == AccountsInv /\ SpentInv /\ [Next]_vars => SpentInv'
<1> SUFFICES ASSUME AccountsInv, SpentInv, [Next]_vars PROVE SpentInv'
  OBVIOUS
<1> USE DEF rows
<1>0. AccountsInv'
  BY AccountsStep
<1>1. ASSUME UNCHANGED <<challenges, verified, spent, request>> PROVE SpentInv'
  BY <1>1, SpentStays
<1>2. ASSUME NEW w \in Request, UNCHANGED <<challenges, verified, spent>>, Leave(w) PROVE SpentInv'
  BY <1>2, SpentStays DEF Leave, Proceed
<1>3. ASSUME NEW w \in Request, NEW r, r.op \notin {"reset", "verify"},
             UNCHANGED <<challenges, verified, spent>>, request' = [request EXCEPT ![w] = r]
      PROVE  SpentInv'
  <2>1. request'[w] = r
    BY <1>3 DEF AccountsInv, RequestsOK
  <2>2. r \in InFlight \cup {NULL}
    BY <1>0, <2>1 DEF AccountsInv, RequestsOK
  <2>3. QED
    BY <1>3, <2>2, SpentStays
<1>4. ASSUME NEW w \in Request,
             \/ \E e \in Email, p \in Purpose : SendBegin(w, e, p)
             \/ \E e \in Email, pw \in Password : RegisterBegin(w, e, pw)
             \/ \E u \in User, pw \in Password : Login(w, u, pw)
             \/ \E a \in Attempt, i \in Identity : ConsumeAttempt(w, a, i)
             \/ \E a \in Attempt : ExchangeGrant(w, a)
             \/ \E s \in Session : RefreshBegin(w, s)
             \/ \E u \in User : ProfileBegin(w, u) \/ DeleteBegin(w, u)
             \/ \E u \in User, e \in Email, role \in Role : RoleBegin(w, u, e, role)
      PROVE  SpentInv'
  <2>1. \E op, r : Enter(w, op, r) /\ r.op \notin {"reset", "verify"}
    <3> DEFINE Begins == \E op, r : Enter(w, op, r) /\ r.op \notin {"reset", "verify"}
    <3>0. \A op, r : Enter(w, op, r) /\ r.op \notin {"reset", "verify"} => Begins
      OBVIOUS
    <3> HIDE DEF Begins
    <3>1. ASSUME NEW e \in Email, NEW p \in Purpose, SendBegin(w, e, p) PROVE Begins
      <4> DEFINE r == [op |-> "send", email |-> e, purpose |-> p]
      <4>1. Enter(w, "challenge", r) /\ r.op \notin {"reset", "verify"}
        BY <3>1 DEF SendBegin
      <4>2. QED
        BY <3>0, <4>1
    <3>2. ASSUME NEW e \in Email, NEW pw \in Password, RegisterBegin(w, e, pw) PROVE Begins
      <4> DEFINE r == [op |-> "register", email |-> e, password |-> pw]
      <4>1. Enter(w, "register", r) /\ r.op \notin {"reset", "verify"}
        BY <3>2 DEF RegisterBegin
      <4>2. QED
        BY <3>0, <4>1
    <3>3. ASSUME NEW u \in User, NEW pw \in Password, Login(w, u, pw) PROVE Begins
      <4> DEFINE r == [op |-> "issue", user |-> u]
      <4>1. Enter(w, "login", r) /\ r.op \notin {"reset", "verify"}
        BY <3>3 DEF Login
      <4>2. QED
        BY <3>0, <4>1
    <3>4. ASSUME NEW a \in Attempt, NEW i \in Identity, ConsumeAttempt(w, a, i) PROVE Begins
      <4> DEFINE r == [op |-> "identify", attempt |-> a, identity |-> i]
      <4>1. Enter(w, "oauth", r) /\ r.op \notin {"reset", "verify"}
        BY <3>4 DEF ConsumeAttempt
      <4>2. QED
        BY <3>0, <4>1
    <3>5. ASSUME NEW a \in Attempt, ExchangeGrant(w, a) PROVE Begins
      <4> DEFINE r == [op |-> "issue", user |-> grants[a]]
      <4>1. Enter(w, "oauth", r) /\ r.op \notin {"reset", "verify"}
        BY <3>5 DEF ExchangeGrant
      <4>2. QED
        BY <3>0, <4>1
    <3>6. ASSUME NEW s \in Session, RefreshBegin(w, s) PROVE Begins
      <4> DEFINE r == [op |-> "refresh", session |-> s]
      <4>1. Enter(w, "refresh", r) /\ r.op \notin {"reset", "verify"}
        BY <3>6 DEF RefreshBegin
      <4>2. QED
        BY <3>0, <4>1
    <3>7. ASSUME NEW u \in User, ProfileBegin(w, u) PROVE Begins
      <4> DEFINE r == [op |-> "save", user |-> u, copy |-> users[u]]
      <4>1. Enter(w, "profile", r) /\ r.op \notin {"reset", "verify"}
        BY <3>7 DEF ProfileBegin
      <4>2. QED
        BY <3>0, <4>1
    <3>8. ASSUME NEW u \in User, DeleteBegin(w, u) PROVE Begins
      <4> DEFINE r == [op |-> "delete", user |-> u]
      <4>1. Enter(w, "delete", r) /\ r.op \notin {"reset", "verify"}
        BY <3>8 DEF DeleteBegin
      <4>2. QED
        BY <3>0, <4>1
    <3>9. ASSUME NEW u \in User, NEW e \in Email, NEW role \in Role, RoleBegin(w, u, e, role)
          PROVE  Begins
      <4>1. PICK roles : Enter(w, "role", [op |-> "save", user |-> u,
                                           copy |-> [users[u] EXCEPT !.roles = roles]])
        BY <3>9 DEF RoleBegin
      <4> DEFINE r == [op |-> "save", user |-> u, copy |-> [users[u] EXCEPT !.roles = roles]]
      <4>2. Enter(w, "role", r) /\ r.op \notin {"reset", "verify"}
        BY <4>1
      <4>3. QED
        BY <3>0, <4>2
    <3>10. Begins
      BY <1>4, <3>1, <3>2, <3>3, <3>4, <3>5, <3>6, <3>7, <3>8, <3>9
    <3>11. QED
      BY <3>10 DEF Begins
  <2>2. UNCHANGED <<challenges, verified, spent>>
    BY <1>4 DEF SendBegin, RegisterBegin, Login, ConsumeAttempt, ExchangeGrant, RefreshBegin,
                ProfileBegin, DeleteBegin, RoleBegin
  <2>3. PICK r : request' = [request EXCEPT ![w] = r] /\ r.op \notin {"reset", "verify"}
    BY <2>1 DEF Enter
  <2>4. QED
    BY <1>3, <2>2, <2>3
<1>5. CASE \/ \E w \in Request : MailDelivered(w)
           \/ \E a \in Attempt : StartOAuth(a)
           \/ \E p \in proofs : ProofExpires(p)
           \/ \E s \in Session : Revoke(s)
           \/ UNCHANGED vars
  BY <1>1, <1>5 DEF MailDelivered, StartOAuth, ProofExpires, Revoke, vars
<1>6. ASSUME NEW w \in Request,
             \/ SendDone(w) \/ Abandon(w) \/ SaveGrant(w) \/ SaveUser(w) \/ DeleteCommit(w)
             \/ \E s \in Session : IssueSession(w, s) \/ RefreshCommit(w, s)
      PROVE  SpentInv'
  BY <1>2, <1>6
  DEF SendDone, Abandon, SaveGrant, SaveUser, DeleteCommit, IssueSession, RefreshCommit
<1>7. ASSUME NEW w \in Request,
             \/ FindIdentity(w) \/ LinkIdentity(w)
             \/ \E u \in User : RegisterInsert(w, u) \/ EnrolUser(w, u)
      PROVE  SpentInv'
  <2> DEFINE Proceeds == \E r : request' = [request EXCEPT ![w] = r] /\ r.op \notin {"reset", "verify"}
             req == request[w]
  <2>0. \A r : Proceed(w, r) /\ r.op \notin {"reset", "verify"} => Proceeds
    BY DEF Proceed
  <2> HIDE DEF Proceeds
  <2>1. ASSUME NEW u, Proceed(w, [op |-> "grant", attempt |-> req.attempt, user |-> u])
        PROVE  Proceeds
    <3> DEFINE r == [op |-> "grant", attempt |-> req.attempt, user |-> u]
    <3>1. r.op \notin {"reset", "verify"}
      OBVIOUS
    <3>2. QED
      BY <2>0, <2>1, <3>1
  <2>2. ASSUME NEW u, Proceed(w, [op |-> "link", attempt |-> req.attempt,
                                  identity |-> req.identity, user |-> u])
        PROVE  Proceeds
    <3> DEFINE r == [op |-> "link", attempt |-> req.attempt, identity |-> req.identity, user |-> u]
    <3>1. r.op \notin {"reset", "verify"}
      OBVIOUS
    <3>2. QED
      BY <2>0, <2>2, <3>1
  <2>3. ASSUME Proceed(w, [op |-> "enrol", attempt |-> req.attempt, identity |-> req.identity])
        PROVE  Proceeds
    <3> DEFINE r == [op |-> "enrol", attempt |-> req.attempt, identity |-> req.identity]
    <3>1. r.op \notin {"reset", "verify"}
      OBVIOUS
    <3>2. QED
      BY <2>0, <2>3, <3>1
  <2>4. ASSUME NEW u, Proceed(w, [op |-> "issue", user |-> u])
        PROVE  Proceeds
    <3> DEFINE r == [op |-> "issue", user |-> u]
    <3>1. r.op \notin {"reset", "verify"}
      OBVIOUS
    <3>2. QED
      BY <2>0, <2>4, <3>1
  <2>5. FindIdentity(w) => Proceeds
    BY <2>1, <2>2, <2>3 DEF FindIdentity
  <2>6. LinkIdentity(w) => Proceeds
    BY <2>1 DEF LinkIdentity
  <2>7. \A u \in User : RegisterInsert(w, u) \/ EnrolUser(w, u) => Proceeds
    BY <2>2, <2>4 DEF RegisterInsert, EnrolUser
  <2>8. Proceeds
    BY <1>7, <2>5, <2>6, <2>7
  <2>9. UNCHANGED <<challenges, verified, spent>>
    BY <1>7 DEF FindIdentity, LinkIdentity, RegisterInsert, EnrolUser
  <2>10. QED
    BY <1>3, <2>8, <2>9 DEF Proceeds
<1>8. ASSUME NEW w \in Request,
             \/ \E c \in Challenge : SendInsert(w, c)
             \/ SendFailed(w) \/ VerifyWrong(w) \/ VerifyRight(w)
      PROVE  SpentInv'
  BY <1>8, SpentVerify
<1>9. ASSUME NEW c \in Challenge, ChallengeAges(c) PROVE SpentInv'
  BY <1>9, SpentAges
<1>10. ASSUME NEW w \in Request, NEW e \in Email, NEW p \in Purpose, VerifyBegin(w, e, p)
       PROVE  SpentInv'
  <2>1. PICK c \in Challenge :
          /\ Open(c, e, p)
          /\ Enter(w, "verify", [op |-> "verify", challenge |-> c,
                                  copy |-> [challenges[c] EXCEPT !.attempts = @ + 1]])
          /\ UNCHANGED <<rows, proofs, mailed, verified, spent>>
    BY <1>10 DEF VerifyBegin
  <2> DEFINE copy == [challenges[c] EXCEPT !.attempts = @ + 1]
             r == [op |-> "verify", challenge |-> c, copy |-> copy]
  <2>2. challenges[c] \in ChallengeRow /\ challenges[c].consumed = FALSE
    BY <2>1, Rows DEF Open, Stored, ChallengeRow
  <2>3. copy.consumed = FALSE
    BY <2>2 DEF ChallengeRow
  <2> HIDE DEF copy
  <2>4. r.op = "verify" /\ r.copy.consumed = FALSE
    BY <2>3
  <2>5. request' = [request EXCEPT ![w] = r]
    BY <2>1 DEF Enter, copy
  <2> HIDE DEF r
  <2>6. \A v \in Request : request'[v] = IF v = w THEN r ELSE request[v]
    BY <2>5 DEF AccountsInv, RequestsOK
  <2>7. UNCHANGED <<challenges, verified, spent>>
    BY <2>1
  <2>8. \A v \in Request : Serving(v, "reset")' => Serving(v, "reset") /\ request'[v] = request[v]
    BY <2>4, <2>6 DEF Serving
  <2>9. \A v \in Request : Serving(v, "verify")' => request'[v].copy.consumed = FALSE
    BY <2>4, <2>6 DEF Serving, SpentInv
  <2>10. QED
    BY <2>7, <2>8, <2>9 DEF SpentInv
<1>11. ASSUME NEW w \in Request, NEW p \in proofs, NEW u \in User, NEW pw \in Password,
              ResetBegin(w, p, u, pw)
       PROVE  SpentInv'
  <2> DEFINE c == p.challenge
             r == [op |-> "reset", challenge |-> c, user |-> u,
                   copy |-> [users[u] EXCEPT !.password = pw], ending |-> {}, saved |-> FALSE]
  <2>1. c \in Challenge /\ challenges[c] # NULL
    BY DEF AccountsInv, ChallengesOK, Proof
  <2>2. request' = [request EXCEPT ![w] = r] /\ UNCHANGED <<challenges, verified, spent>>
    BY <1>11 DEF ResetBegin, Enter
  <2>3. spent[c] < verified[c]
    BY <1>11, <2>1 DEF ResetBegin, SpentInv
  <2>4. ~ChallengeLocked(c) /\ r.op = "reset" /\ r.challenge = c
    BY <1>11 DEF ResetBegin
  <2> HIDE DEF c, r
  <2>5. \A v \in Request : request'[v] = IF v = w THEN r ELSE request[v]
    BY <2>2 DEF AccountsInv, RequestsOK
  <2>6. \A v \in Request \ {w} : Serving(v, "reset") => request[v].challenge # r.challenge
    BY <2>4 DEF ChallengeLocked
  <2>7. QED
    BY <2>2, <2>3, <2>4, <2>5, <2>6, ResetSpent
<1>12. ASSUME NEW w \in Request, ResetSave(w) PROVE SpentInv'
  <2> DEFINE req == request[w]
             r == [op |-> "reset", challenge |-> req.challenge, user |-> req.user,
                   copy |-> req.copy, ending |-> LiveSessions(req.user), saved |-> TRUE]
  <2>1. Serving(w, "reset") /\ UNCHANGED <<challenges, verified, spent>>
    BY <1>12 DEF ResetSave
  <2>2. request' = [request EXCEPT ![w] = r]
    BY <1>12 DEF ResetSave, Proceed
  <2>3. r.op = "reset" /\ r.challenge = request[w].challenge
    OBVIOUS
  <2> HIDE DEF r
  <2>4. \A v \in Request : request'[v] = IF v = w THEN r ELSE request[v]
    BY <2>2 DEF AccountsInv, RequestsOK
  <2>5. spent[r.challenge] < verified[r.challenge]
    BY <2>1, <2>3 DEF SpentInv
  <2>6. \A v \in Request \ {w} : Serving(v, "reset") => request[v].challenge # r.challenge
    BY <2>1, <2>3 DEF SpentInv
  <2>7. QED
    BY <2>1, <2>3, <2>4, <2>5, <2>6, ResetSpent
<1>13. ASSUME NEW w \in Request, ResetCommit(w) PROVE SpentInv'
  BY <1>13, SpentReset
<1>14. QED
  BY <1>4, <1>5, <1>6, <1>7, <1>8, <1>9, <1>10, <1>11, <1>12, <1>13 DEF Next

\* However verifications and resets overtake each other, a proof sets no more
\* passwords than its challenge was verified.
THEOREM SpentOnceCorrect == Spec => []ProofSpentOncePerVerification
<1>1. SpentInv => ProofSpentOncePerVerification
  BY DEF SpentInv, ProofSpentOncePerVerification
<1>2. QED
  BY <1>1, SpentInit, SpentStep, AccountsInvariant, PTL DEF Spec

=============================================================================
