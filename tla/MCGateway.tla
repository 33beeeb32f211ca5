----------------------------- MODULE MCGateway -----------------------------
(* Small instances of Gateway for TLC. *)
EXTENDS Gateway, TLC

CONSTANTS k1, k2, c1, c2, c3

OneKey == {k1}
TwoKeys == {k1, k2}
TwoConns == {c1, c2}
ThreeConns == {c1, c2, c3}

\* Connections and keys are interchangeable: no action tells them apart.
Symmetry == Permutations(Conns) \union Permutations(Keys)

\* What the properties of the sessions may depend on.  What is left in the fields
\* of a closed session is never read again; which messages are queued decides
\* what MsgCtrl writes to onoff alone, and no action reads onoff.
SessionFields ==
  <<acceptVars, objClientTable, sock, peer, recv, send, mon, Len(recvMsgList),
    [c \in Conns |-> IF sock[c] = "closed" THEN 0 ELSE sendMsgList[c]],
    [c \in Conns |-> IF sock[c] = "closed" /\ mon[c] # "tick" THEN 0 ELSE testSta[c]],
    [c \in Conns |-> IF Free(c) THEN None ELSE mClientKey[c]]>>

\* No action tells connections apart, so what holds of c1 holds of all of them.

\* A session whose client has hung up or vanished is closed (Evicted).
LostClientEvicted == Evicted(c1)

\* The three threads of a closed session end (Ended).
ThreadsEnd == Ended(c1)

\* The accept thread gets to every client that connects (Served).
BacklogServed == Served(c1)
=============================================================================
