------------------------------ MODULE Sessions ------------------------------
(***************************************************************************)
(* What the session table of the gateway promises its users, with no       *)
(* threads, sockets or locks: a client key has at most one session, the    *)
(* sessions that are alive are exactly those the table knows, and a new    *)
(* session of a key begins only when the previous one is over.             *)
(* Gateway.tla is shown to implement this specification.                   *)
(***************************************************************************)
CONSTANTS Keys,     \* client identities (the 20-character CPM id)
          Conns,    \* connections
          None      \* "no connection", not one of Conns

VARIABLES current,  \* current[k]: the session commands for k are routed to
          live      \* the sessions whose socket the gateway holds open

vars == <<current, live>>

Init == /\ current = [k \in Keys |-> None]
        /\ live = {}

\* A session becomes the session of its key.
Login(k, c) == /\ current[k] = None
               /\ c \notin live
               /\ current' = [current EXCEPT ![k] = c]
               /\ live' = live \union {c}

\* The session of a key ends: it is closed and forgotten in one step.
Logout(k) == /\ current[k] # None
             /\ current' = [current EXCEPT ![k] = None]
             /\ live' = live \ {current[k]}

Next == \E k \in Keys : \/ \E c \in Conns : Login(k, c)
                        \/ Logout(k)

Spec == Init /\ [][Next]_vars
=============================================================================
