----------------------------- MODULE OutboxProofs -----------------------------
(***************************************************************************)
(* What Outbox promises, and so every specification that implements it:    *)
(* no command is written twice.                                            *)
(***************************************************************************)
EXTENDS Outbox, SequenceTheorems, TLAPS

TypeOK == /\ fresh \subseteq Cmds
          /\ queue \in Seq(Cmds \union {Answer})
          /\ held \in [Conns -> {<<>>} \union {<<f>> : f \in Cmds \union {Answer}}]

Holds(c, m) == held[c] = <<m>>

\* A command is in one place at most: not yet submitted, in the queue, or with a
\* thread.  One that has been written is in none, and comes back to none.
InOnePlace ==
  \A m \in Cmds :
    /\ m \in fresh => \A i \in 1..Len(queue) : queue[i] # m
    /\ m \in fresh => \A c \in Conns : ~Holds(c, m)
    /\ \A i, j \in 1..Len(queue) : queue[i] = m /\ queue[j] = m => i = j
    /\ \A i \in 1..Len(queue), c \in Conns : ~(queue[i] = m /\ Holds(c, m))
    /\ \A c, d \in Conns : Holds(c, m) /\ Holds(d, m) => c = d

Nowhere(m) == /\ m \notin fresh
              /\ \A i \in 1..Len(queue) : queue[i] # m
              /\ \A c \in Conns : ~Holds(c, m)

WrittenOnce ==
  [][\A m \in Cmds : /\ Nowhere(m) => Nowhere(m)'
                     /\ \A c \in Conns : Holds(c, m) /\ ~Holds(c, m)' => Nowhere(m)']_vars

LEMMA TypeStep ==
  ASSUME TypeOK, [Next]_vars
  PROVE  TypeOK'
<1>1. ASSUME NEW m \in Cmds, Submit(m) PROVE TypeOK'
  BY <1>1, AppendProperties DEF TypeOK, Submit
<1>2. ASSUME NEW n \in 1..2, Reply(n) PROVE TypeOK'
  <2>1. [i \in 1..n |-> Answer] \in Seq(Cmds \union {Answer})
    BY SeqDef
  <2> QED
    BY <1>2, <2>1, ConcatProperties DEF TypeOK, Reply
<1>3. ASSUME NEW c \in Conns, Take(c) PROVE TypeOK'
  BY <1>3, HeadTailProperties DEF TypeOK, Take
<1>4. CASE Restart
  BY <1>4, EmptySeq DEF TypeOK, Restart
<1>5. ASSUME NEW c \in Conns, Start(c) \/ Write(c) \/ End(c) PROVE TypeOK'
  BY <1>5 DEF TypeOK, Start, Write, End
<1>6. CASE UNCHANGED vars
  BY <1>6 DEF TypeOK, vars
<1> QED
  BY <1>1, <1>2, <1>3, <1>4, <1>5, <1>6 DEF Next

\* Where the frames of the queue were before a step that adds only f.
LEMMA Added ==
  ASSUME TypeOK, NEW f, NEW s, \A i \in 1..Len(s) : s[i] = f, s \in Seq(Cmds \union {Answer}),
         queue' = queue \o s
  PROVE  \A i \in 1..Len(queue)' :
           \/ i \in 1..Len(queue) /\ queue'[i] = queue[i]
           \/ queue'[i] = f /\ i > Len(queue)
<1>1. /\ Len(queue) \in Nat /\ Len(s) \in Nat
      /\ Len(queue') = Len(queue) + Len(s)
      /\ \A i \in 1..Len(queue) : queue'[i] = queue[i]
      /\ \A i \in Len(queue) + 1 .. Len(queue) + Len(s) : queue'[i] = s[i - Len(queue)]
  BY ConcatProperties, LenProperties DEF TypeOK
<1> QED
  BY <1>1

LEMMA OnePlaceStep ==
  ASSUME Answer \notin Cmds, TypeOK, InOnePlace, [Next]_vars
  PROVE  /\ InOnePlace'
         /\ \A m \in Cmds : /\ Nowhere(m) => Nowhere(m)'
                            /\ \A c \in Conns : Holds(c, m) /\ ~Holds(c, m)' => Nowhere(m)'
<1> DEFINE Goal ==
      /\ InOnePlace'
      /\ \A m \in Cmds : /\ Nowhere(m) => Nowhere(m)'
                         /\ \A c \in Conns : Holds(c, m) /\ ~Holds(c, m)' => Nowhere(m)'
<1> SUFFICES Goal
  OBVIOUS
<1>0. Len(queue) \in Nat
  BY LenProperties DEF TypeOK
<1>1. ASSUME NEW m \in Cmds, Submit(m) PROVE Goal
  <2>1. /\ Len(queue') = Len(queue) + 1
        /\ \A i \in 1..Len(queue) : queue'[i] = queue[i]
        /\ queue'[Len(queue) + 1] = m
    BY <1>1, AppendProperties DEF TypeOK, Submit
  <2>2. \A i \in 1..Len(queue') : \/ i \in 1..Len(queue) /\ queue'[i] = queue[i]
                                  \/ i = Len(queue) + 1 /\ queue'[i] = m
    BY <1>0, <2>1
  <2>3. InOnePlace'
    BY <1>0, <1>1, <2>2 DEF Submit, InOnePlace, Holds
  <2>4. \A k \in Cmds : Nowhere(k) => Nowhere(k)'
    BY <1>1, <2>2 DEF Submit, Nowhere, Holds
  <2> QED
    BY <1>1, <2>3, <2>4 DEF Submit, Holds
<1>2. ASSUME NEW n \in 1..2, Reply(n) PROVE Goal
  <2> DEFINE s == [i \in 1..n |-> Answer]
  <2>1. s \in Seq(Cmds \union {Answer}) /\ \A i \in 1..Len(s) : s[i] = Answer
    BY SeqDef
  <2>2. \A i \in 1..Len(queue)' : \/ i \in 1..Len(queue) /\ queue'[i] = queue[i]
                                  \/ queue'[i] = Answer /\ i > Len(queue)
    BY <1>2, <2>1, Added DEF Reply
  <2>3. \A m \in Cmds, i \in 1..Len(queue') : queue'[i] = m => i \in 1..Len(queue) /\ queue[i] = m
    BY <2>2
  <2>4. /\ fresh' = fresh
        /\ \A m \in Cmds, c \in Conns : Holds(c, m)' <=> Holds(c, m)
    BY <1>2 DEF Reply, Holds
  <2>5. InOnePlace'
    BY <2>3, <2>4 DEF InOnePlace
  <2> QED
    BY <2>3, <2>4, <2>5 DEF Nowhere
<1>3. ASSUME NEW c \in Conns, Take(c) PROVE Goal
  <2>1. /\ Len(queue') = Len(queue) - 1
        /\ \A i \in 1..Len(queue') : queue'[i] = queue[i + 1]
        /\ Head(queue) = queue[1] /\ 1 \in 1..Len(queue)
    BY <1>3, <1>0, HeadTailProperties, EmptySeq DEF TypeOK, Take
  <2>2. /\ \A i \in 1..Len(queue') : i + 1 \in 1..Len(queue)
        /\ \A i \in 1..Len(queue) : i = 1 \/ (i - 1 \in 1..Len(queue') /\ queue'[i - 1] = queue[i])
    BY <1>0, <2>1
  <2>3. \A m \in Cmds : \A d \in Conns :
          Holds(d, m)' <=> IF d = c THEN m = queue[1] ELSE Holds(d, m)
    BY <1>3, <2>1 DEF Take, TypeOK, Holds
  <2>4. held[c] = <<>> /\ fresh' = fresh
    BY <1>3 DEF Take
  <2>5. \A m \in Cmds : ~Holds(c, m)
    BY <2>4 DEF Holds
  <2>6. InOnePlace'
    <3> SUFFICES ASSUME NEW m \in Cmds
                 PROVE  /\ m \in fresh => \A i \in 1..Len(queue') : queue'[i] # m
                        /\ m \in fresh => \A d \in Conns : ~Holds(d, m)'
                        /\ \A i, j \in 1..Len(queue') : queue'[i] = m /\ queue'[j] = m => i = j
                        /\ \A i \in 1..Len(queue'), d \in Conns : ~(queue'[i] = m /\ Holds(d, m)')
                        /\ \A d, e \in Conns : Holds(d, m)' /\ Holds(e, m)' => d = e
      BY <2>4 DEF InOnePlace
    <3>1. /\ m \in fresh => \A i \in 1..Len(queue') : queue'[i] # m
          /\ m \in fresh => \A d \in Conns : ~Holds(d, m)'
      BY <2>1, <2>2, <2>3 DEF InOnePlace
    <3>2. \A i, j \in 1..Len(queue') : queue'[i] = m /\ queue'[j] = m => i = j
      <4> SUFFICES ASSUME NEW i \in 1..Len(queue'), NEW j \in 1..Len(queue'),
                          queue'[i] = m, queue'[j] = m
                   PROVE  i = j
        OBVIOUS
      <4>1. i + 1 = j + 1
        BY <2>1, <2>2 DEF InOnePlace
      <4> QED
        BY <4>1, <1>0, <2>1
    <3>3. ASSUME NEW i \in 1..Len(queue'), queue'[i] = m
          PROVE  m # queue[1] /\ \A d \in Conns : ~Holds(d, m)
      <4>1. i + 1 \in 1..Len(queue) /\ queue[i + 1] = m /\ i + 1 # 1
        BY <1>0, <2>1, <2>2, <3>3
      <4> QED
        BY <2>1, <4>1 DEF InOnePlace
    <3>4. \A d, e \in Conns : Holds(d, m)' /\ Holds(e, m)' => d = e
      BY <2>1, <2>3 DEF InOnePlace
    <3> QED
      BY <2>3, <3>1, <3>2, <3>3, <3>4
  <2>7. \A m \in Cmds : Nowhere(m) => Nowhere(m)'
    BY <2>1, <2>2, <2>3, <2>4 DEF Nowhere
  <2> QED
    BY <2>3, <2>5, <2>6, <2>7
<1>4. CASE Restart
  <2>1. Len(queue') = 0 /\ fresh' = fresh /\ \A m \in Cmds, c \in Conns : ~Holds(c, m)'
    BY <1>4, EmptySeq DEF Restart, Holds
  <2>2. \A i \in 1..Len(queue') : FALSE
    BY <2>1
  <2> QED
    BY <2>1, <2>2 DEF InOnePlace, Nowhere
<1>5. ASSUME NEW c \in Conns, Write(c) PROVE Goal
  <2>1. /\ queue' = queue /\ fresh' = fresh
        /\ \A m \in Cmds, d \in Conns : Holds(d, m)' => Holds(d, m)
        /\ \A m \in Cmds, d \in Conns : Holds(d, m) /\ ~Holds(d, m)' => d = c
        /\ \A m \in Cmds : ~Holds(c, m)'
    BY <1>5 DEF Write, TypeOK, Holds
  <2> QED
    BY <2>1 DEF InOnePlace, Nowhere
<1>6. CASE UNCHANGED vars \/ \E c \in Conns : Start(c) \/ End(c)
  BY <1>6 DEF vars, Start, End, InOnePlace, Nowhere, Holds
<1> QED
  BY <1>1, <1>2, <1>3, <1>4, <1>5, <1>6 DEF Next

LEMMA Inits == Init => TypeOK /\ InOnePlace
BY EmptySeq DEF Init, TypeOK, InOnePlace, Holds

\* A command is never in two places: two threads never hold the same one, and
\* none is queued again while a thread has it (InOnePlace).
THEOREM CommandsInOnePlace == ASSUME Answer \notin Cmds PROVE Spec => []InOnePlace
<1>1. TypeOK /\ InOnePlace /\ [Next]_vars => TypeOK' /\ InOnePlace'
  BY TypeStep, OnePlaceStep
<1> QED
  BY Inits, <1>1, PTL DEF Spec

\* A command that a thread has done with is in no place, and never in one again:
\* it is written at most once (WrittenOnce).
THEOREM CommandsWrittenOnce == ASSUME Answer \notin Cmds PROVE Spec => WrittenOnce
<1>1. TypeOK /\ InOnePlace /\ [Next]_vars => TypeOK' /\ InOnePlace'
  BY TypeStep, OnePlaceStep
<1>2. TypeOK /\ InOnePlace /\ [Next]_vars =>
        [\A m \in Cmds : /\ Nowhere(m) => Nowhere(m)'
                         /\ \A c \in Conns : Holds(c, m) /\ ~Holds(c, m)' => Nowhere(m)']_vars
  BY OnePlaceStep
<1> QED
  BY Inits, <1>1, <1>2, PTL DEF Spec, WrittenOnce
=============================================================================
