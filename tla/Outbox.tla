------------------------------- MODULE Outbox -------------------------------
(***************************************************************************)
(* What the RMI server makes of the frames it is to send, with no sockets, *)
(* logins or faults of the network: they stand in one queue, in the order  *)
(* in which they were added; every running send thread takes the first,    *)
(* holds no other while it writes it, and writes it once; a thread that    *)
(* ends holds none.  Uplink.tla, which has the threads and their sockets,  *)
(* and CommandPath.tla, which has what becomes of the commands afterwards, *)
(* are both shown to implement this.                                       *)
(***************************************************************************)
EXTENDS Naturals, Sequences

CONSTANTS Cmds,    \* commands
          Answer,  \* any other frame
          Conns    \* connections, each with a send thread

VARIABLES fresh,   \* commands that were never queued
          queue,   \* frames to be sent
          senders, \* connections whose send thread runs
          held     \* held[c]: what the thread of c is writing, <<>> or one frame

vars == <<fresh, queue, senders, held>>

Init == /\ fresh = Cmds
        /\ queue = <<>>
        /\ senders = {}
        /\ held = [c \in Conns |-> <<>>]

Submit(m) == /\ m \in fresh
             /\ fresh' = fresh \ {m}
             /\ queue' = Append(queue, m)
             /\ UNCHANGED <<senders, held>>

Reply(n) == /\ queue' = queue \o [i \in 1..n |-> Answer]
            /\ UNCHANGED <<fresh, senders, held>>

Start(c) == /\ c \notin senders
            /\ senders' = senders \union {c}
            /\ UNCHANGED <<fresh, queue, held>>

Take(c) == /\ c \in senders
           /\ held[c] = <<>>
           /\ queue # <<>>
           /\ held' = [held EXCEPT ![c] = <<Head(queue)>>]
           /\ queue' = Tail(queue)
           /\ UNCHANGED <<fresh, senders>>

\* The thread may end with a write that fails.
Write(c) == /\ c \in senders
            /\ held[c] # <<>>
            /\ held' = [held EXCEPT ![c] = <<>>]
            /\ senders' \in {senders, senders \ {c}}
            /\ UNCHANGED <<fresh, queue>>

End(c) == /\ c \in senders
          /\ held[c] = <<>>
          /\ senders' = senders \ {c}
          /\ UNCHANGED <<fresh, queue, held>>

Restart == /\ queue' = <<>>
           /\ senders' = {}
           /\ held' = [c \in Conns |-> <<>>]
           /\ UNCHANGED fresh

Next == \/ \E m \in Cmds : Submit(m)
        \/ \E n \in 1..2 : Reply(n)
        \/ \E c \in Conns : Start(c) \/ Take(c) \/ Write(c) \/ End(c)
        \/ Restart

Spec == Init /\ [][Next]_vars
=============================================================================
