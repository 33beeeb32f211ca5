------------------------------ MODULE Courier ------------------------------
(***************************************************************************)
(* What the way of a command from the web page to the device owes its      *)
(* users, with no servers, connections or threads: an accepted command     *)
(* reaches the device it is meant for, once, or it is lost; nothing else   *)
(* ever reaches a device.  CommandPath.tla is shown to implement this.     *)
(***************************************************************************)
EXTENDS Sequences

CONSTANTS Cmds,     \* commands
          Devices,  \* devices (gateway clients) commands are meant for
          Target    \* Target[m]: the device m is meant for

VARIABLES pending,  \* accepted commands that are neither delivered nor lost
          settled,  \* commands that are delivered or lost
          got       \* got[d]: what d has received, in order

vars == <<pending, settled, got>>

Init == /\ pending = {}
        /\ settled = {}
        /\ got = [d \in Devices |-> <<>>]

Accept(m) == /\ m \notin pending \union settled
             /\ pending' = pending \union {m}
             /\ UNCHANGED <<settled, got>>

Settle(S) == /\ pending' = pending \ S
             /\ settled' = settled \union S

Deliver(m) == /\ m \in pending
              /\ Settle({m})
              /\ got' = [got EXCEPT ![Target[m]] = Append(@, m)]

Lose(S) == /\ Settle(S)
           /\ UNCHANGED got

Next == \/ \E m \in Cmds : Accept(m) \/ Deliver(m)
        \/ \E S \in SUBSET pending : Lose(S)

Spec == Init /\ [][Next]_vars
=============================================================================
