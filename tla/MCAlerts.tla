------------------------------ MODULE MCAlerts ------------------------------
(* Alerts for TLC: a key of each kind to choose from, two operators.         *)
EXTENDS Alerts, TLC

CONSTANTS gw, dev, attr, ann, bob

OneGateway == {gw}
OneDevice  == {dev}
OneAttr    == {attr}
NoKeys     == {}
OneOperator  == {ann}
TwoOperators == {ann, bob}

AllFaults  == {"sql", "commit", "conn", "crash"}
NoFaults   == {}

\* Operators are interchangeable: no action tells them apart.
Symmetry == Permutations(Operators)
=============================================================================
