-------------------------- MODULE MCMessengerSync --------------------------
(* A course of one user, and a team with one more, whose school has no     *)
(* messenger.                                                              *)
EXTENDS MessengerSync

CONSTANTS c, t, u, w
=============================================================================
