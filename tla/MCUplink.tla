----------------------------- MODULE MCUplink -----------------------------
(* Small instances of Uplink for TLC. *)
EXTENDS Uplink

CONSTANTS c1, c2, m1

TwoConns == {c1, c2}
OneCmd == {m1}
=============================================================================
