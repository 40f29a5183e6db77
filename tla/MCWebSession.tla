---------------------------- MODULE MCWebSession ----------------------------
(* Small instances of WebSession for TLC. *)
EXTENDS WebSession, TLC

CONSTANTS s1, s2, a1, a2

AccountEach == (s1 :> a1) @@ (s2 :> a2)
=============================================================================
