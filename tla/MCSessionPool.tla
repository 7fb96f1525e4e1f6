---------------------------- MODULE MCSessionPool ----------------------------
(* SessionPool on a small instance. *)
EXTENDS SessionPool, TLC

CONSTANTS s1, s2, i1, i2

MCSession == {s1, s2}
MCInstance == {i1, i2}
MCHome == (s1 :> i1) @@ (s2 :> i2)
=============================================================================
