------------------------------ MODULE MCSession ------------------------------
(* Two senders and a receiver. *)
EXTENDS SessionInvariant
CONSTANTS s1, s2, good, bad
MCSenders   == {s1, s2}
MCPasswords == {good, bad}
=============================================================================
