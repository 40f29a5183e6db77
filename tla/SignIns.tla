------------------------------- MODULE SignIns -------------------------------
(***************************************************************************)
(* What a browser may rely on about its refresh token: signing in makes    *)
(* one good token, using it puts the next one in its place, and a token    *)
(* that is no longer good never is again.                                  *)
(***************************************************************************)
EXTENDS Naturals

CONSTANT SignIn

VARIABLES
    known,  \* sign-ins made so far
    good    \* tokens the server accepts

signInVars == <<known, good>>

Token == [signIn : SignIn, round : Nat \ {0}]

FirstToken(s) == [signIn |-> s, round |-> 1]
NextToken(t) == [t EXCEPT !.round = @ + 1]

SignInsInit ==
    /\ known = {}
    /\ good = {}

Enter(s) ==
    /\ s \notin known
    /\ known' = known \cup {s}
    /\ good' = good \cup {FirstToken(s)}

Rotate(t) ==
    /\ t \in good
    /\ good' = (good \ {t}) \cup {NextToken(t)}
    /\ UNCHANGED known

EndTokens(T) ==
    /\ good' = good \ T
    /\ UNCHANGED known

SignInsNext ==
    \/ \E s \in SignIn : Enter(s)
    \/ \E t \in good : Rotate(t)
    \/ \E T \in SUBSET good : EndTokens(T)

SignInsSpec == SignInsInit /\ [][SignInsNext]_signInVars

\* At most one token of a sign-in is good, however often it was refreshed.
OneTokenPerSignIn ==
    \A t, u \in good : t.signIn = u.signIn => t = u
=============================================================================
