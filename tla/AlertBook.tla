----------------------------- MODULE AlertBook -----------------------------
(***************************************************************************)
(* What the alert log owes its readers, whatever the order in which the    *)
(* server and the operators write it and whatever fails: an alert, once    *)
(* logged, stays; it is closed once, by one hand, and stays as it was      *)
(* closed; a recovery closes all that is open for its key together, and an *)
(* operator closes alerts of one key at a time.                            *)
(***************************************************************************)
EXTENDS Naturals, Sequences

CONSTANTS Keys,       \* what alerts are about
          Operators,  \* people who close alerts
          Auto,       \* the system as the one who closes
          Nobody      \* the closer of an open alert

VARIABLE book         \* sequence of [key, closer]

Init == book = <<>>

OpenOf(k) == {i \in DOMAIN book : book[i] = [key |-> k, closer |-> Nobody]}

Enter(k) == book' = Append(book, [key |-> k, closer |-> Nobody])

Close(S, who) ==
  book' = [i \in DOMAIN book |->
             IF i \in S THEN [book[i] EXCEPT !.closer = who] ELSE book[i]]

Recover(k) == Close(OpenOf(k), Auto)

Handle(k, o) == \/ \E i \in OpenOf(k) : Close({i}, o)
                \/ Close(OpenOf(k), o)

\* Whoever finds nothing to close leaves the book as it is: that is no step.
Next == /\ book' # book
        /\ \E k \in Keys : \/ Enter(k)
                          \/ Recover(k)
                          \/ \E o \in Operators : Handle(k, o)

Spec == Init /\ [][Next]_book
=============================================================================
