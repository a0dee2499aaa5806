-------------------------- MODULE RelayServerProofs --------------------------
(***************************************************************************)
(* For every number of connections and sources, every port range and every *)
(* setting of the caps and the gates: the invariants of RelayServer hold   *)
(* and it implements PortLease.                                            *)
(***************************************************************************)
EXTENDS RelayServer, FiniteSetTheorems, TLAPS

\* What the invariants leave unsaid and their induction needs: a session knows a
\* port exactly while it holds one, and listens only between Bind and CloseLn.
PortKnown ==
  \A c \in Conns : IF HasPort(c) THEN port[c] \in Ports ELSE port[c] = NoPort
ListensWhileBound ==
  \A c \in lnOpen : pc[c] \in {"ack", "up", "closeLn"}

IInv ==
  TypeOK /\ SlotsCounted /\ PoolConsistent /\ PortKnown /\ ListensWhileBound
-----------------------------------------------------------------------------
(* Facts about the parts of a step. *)

\* A goroutine that returns or panics goes on with one of its deferred calls.
LEMMA FirstDeferredType ==
  /\ FirstDeferred("wrap") = "freeSlot"
  /\ FirstDeferred("hello") = "closeTun"
  /\ FirstDeferred("alloc") = "closeTun"
  /\ FirstDeferred("bind") = "freePort"
  /\ FirstDeferred("ack") = "closeLn"
  /\ FirstDeferred("up") = "closeLn"
BY DEF FirstDeferred

\* The zero value of Session.port is no public port.
LEMMA NoPortOutside == NoPort \notin Ports
BY RangeAssumption DEF NoPort, Ports, RangeAssumption

\* NewPool lists every port of the range once.
LEMMA NewPoolType ==
  /\ NewPool \in Seq(Ports)
  /\ \A i, j \in 1..Len(NewPool) : NewPool[i] = NewPool[j] => i = j
  /\ \A p \in Ports : \E i \in 1..Len(NewPool) : NewPool[i] = p
<1> DEFINE n == Hi - Lo + 1
<1>0. n \in Nat /\ Lo \in Int /\ Hi \in Int
  BY RangeAssumption DEF RangeAssumption
<1>1. NewPool \in [1..n -> Ports]
  BY <1>0 DEF NewPool, Ports
<1>2. NewPool \in Seq(Ports) /\ Len(NewPool) = n
  BY <1>0, <1>1
<1>3. \A p \in Ports : p - Lo + 1 \in 1..n /\ NewPool[p - Lo + 1] = p
  BY <1>0 DEF NewPool, Ports
<1>4. \A i, j \in 1..n : NewPool[i] = NewPool[j] => i = j
  BY <1>0 DEF NewPool
<1> QED
  BY <1>2, <1>3, <1>4

\* Taking the head of a duplicate-free list leaves the others, still distinct.
LEMMA TakeHead ==
  ASSUME NEW S, NEW q \in Seq(S), q # <<>>,
         \A i, j \in 1..Len(q) : q[i] = q[j] => i = j
  PROVE  /\ Head(q) = q[1] /\ 1 \in 1..Len(q) /\ Head(q) \in S
         /\ Tail(q) \in Seq(S)
         /\ \A i \in 1..Len(Tail(q)) : i + 1 \in 1..Len(q) /\ Tail(q)[i] = q[i + 1]
         /\ \A i, j \in 1..Len(Tail(q)) : Tail(q)[i] = Tail(q)[j] => i = j
         /\ \A i \in 1..Len(Tail(q)) : Tail(q)[i] # Head(q)
         /\ \A i \in 1..Len(q) : i = 1 \/ \E j \in 1..Len(Tail(q)) : Tail(q)[j] = q[i]
<1>1. /\ Head(q) = q[1] /\ 1 \in 1..Len(q) /\ Head(q) \in S
      /\ Tail(q) \in Seq(S) /\ Len(Tail(q)) = Len(q) - 1 /\ Len(q) \in Nat
  OBVIOUS
<1>2. \A i \in 1..Len(Tail(q)) : i + 1 \in 1..Len(q) /\ Tail(q)[i] = q[i + 1]
  BY <1>1
<1>3. \A i, j \in 1..Len(Tail(q)) : Tail(q)[i] = Tail(q)[j] => i = j
  BY <1>1, <1>2
<1>4. \A i \in 1..Len(Tail(q)) : Tail(q)[i] # Head(q)
  BY <1>1, <1>2
<1>5. \A i \in 1..Len(q) : i = 1 \/ \E j \in 1..Len(Tail(q)) : Tail(q)[j] = q[i]
  <2>1. ASSUME NEW i \in 1..Len(q), i # 1
        PROVE  \E j \in 1..Len(Tail(q)) : Tail(q)[j] = q[i]
    <3>1. i - 1 \in 1..Len(Tail(q)) /\ (i - 1) + 1 = i
      BY <1>1, <2>1
    <3>2. Tail(q)[i - 1] = q[i]
      BY <1>2, <3>1
    <3> QED
      BY <3>1, <3>2
  <2> QED
    BY <2>1
<1> QED
  BY <1>1, <1>2, <1>3, <1>4, <1>5

\* Appending a new element to a duplicate-free list.
LEMMA AppendNew ==
  ASSUME NEW S, NEW q \in Seq(S), NEW x \in S,
         \A i, j \in 1..Len(q) : q[i] = q[j] => i = j,
         \A i \in 1..Len(q) : q[i] # x
  PROVE  /\ Append(q, x) \in Seq(S)
         /\ \A i, j \in 1..Len(Append(q, x)) :
              Append(q, x)[i] = Append(q, x)[j] => i = j
         /\ \A i \in 1..Len(Append(q, x)) :
              Append(q, x)[i] = x \/ \E j \in 1..Len(q) : q[j] = Append(q, x)[i]
         /\ \E i \in 1..Len(Append(q, x)) : Append(q, x)[i] = x
         /\ \A i \in 1..Len(q) : i \in 1..Len(Append(q, x)) /\ Append(q, x)[i] = q[i]
<1> DEFINE r == Append(q, x)
<1>1. /\ r \in Seq(S) /\ Len(r) = Len(q) + 1 /\ Len(q) \in Nat
      /\ r[Len(q) + 1] = x
      /\ \A i \in 1..Len(q) : r[i] = q[i]
  OBVIOUS
<1> HIDE DEF r
<1>2. \A i \in 1..Len(r) : i = Len(q) + 1 \/ i \in 1..Len(q)
  BY <1>1
<1>3. Len(q) + 1 \in 1..Len(r) /\ \A i \in 1..Len(q) : i \in 1..Len(r)
  BY <1>1
<1>4. \A i, j \in 1..Len(r) : r[i] = r[j] => i = j
  BY <1>1, <1>2
<1>5. \A i \in 1..Len(r) : r[i] = x \/ \E j \in 1..Len(q) : q[j] = r[i]
  BY <1>1, <1>2
<1>6. /\ r \in Seq(S)
      /\ \A i, j \in 1..Len(r) : r[i] = r[j] => i = j
      /\ \A i \in 1..Len(r) : r[i] = x \/ \E j \in 1..Len(q) : q[j] = r[i]
      /\ \E i \in 1..Len(r) : r[i] = x
      /\ \A i \in 1..Len(q) : i \in 1..Len(r) /\ r[i] = q[i]
  BY <1>1, <1>3, <1>4, <1>5
<1> QED
  BY <1>6 DEF r
-----------------------------------------------------------------------------
(* Which steps touch the slots and which touch the ports. *)

SameSlots ==
  perIP' = perIP /\ total' = total /\ \A d \in Conns : HasSlot(d)' <=> HasSlot(d)

SamePorts ==
  /\ port' = port /\ free' = free /\ used' = used
  /\ \A d \in Conns : HasPort(d)' <=> HasPort(d)

\* The steps of the daemon by what they do to slots: take one, give one back,
\* drop all, or none of these.
LEMMA SlotSteps ==
  ASSUME TypeOK, [Next]_vars
  PROVE  \/ SameSlots
         \/ \E c \in Conns : Admit(c) \/ FreeSlot(c)
         \/ DaemonRestarts
<1>1. CASE UNCHANGED vars
  BY <1>1 DEF vars, SameSlots, HasSlot
<1>2. CASE DaemonRestarts
  BY <1>2
<1>3. ASSUME NEW c \in Conns, Progress(c) \/ Environment(c)
      PROVE  SameSlots \/ Admit(c) \/ FreeSlot(c)
  <2>1. CASE Admit(c) \/ FreeSlot(c)
    BY <2>1
  <2>2. CASE Refuse(c) \/ Accept(c)
    BY <2>2 DEF Refuse, Accept, SameSlots, HasSlot, Goto, slots, TypeOK, Stages
  <2>3. CASE WrapTLS(c) \/ ReadHello(c) \/ HandshakeFails(c)
    BY <2>3, FirstDeferredType
       DEF WrapTLS, ReadHello, HandshakeFails, SameSlots, HasSlot, Goto, slots, TypeOK
  <2>4. CASE Alloc(c) \/ Bind(c) \/ SendAck(c)
    BY <2>4, FirstDeferredType
       DEF Alloc, Bind, SendAck, SameSlots, HasSlot, Goto, slots, TypeOK
  <2>5. CASE IdleOut(c) \/ SessionEnds(c) \/ TeardownClosesLn(c)
    BY <2>5, FirstDeferredType
       DEF IdleOut, SessionEnds, TeardownClosesLn, SameSlots, HasSlot, Goto, slots, TypeOK
  <2>6. CASE CloseLn(c) \/ FreePort(c) \/ CloseTun(c)
    BY <2>6 DEF CloseLn, FreePort, CloseTun, SameSlots, HasSlot, Goto, slots, TypeOK
  <2>7. CASE Panic(c)
    BY <2>7, FirstDeferredType
       DEF Panic, Handshaking, SameSlots, HasSlot, Goto, slots, TypeOK
  <2>8. CASE FallSilent(c)
    BY <2>8 DEF FallSilent, SameSlots, HasSlot, slots
  <2> QED
    BY <1>3, <2>1, <2>2, <2>3, <2>4, <2>5, <2>6, <2>7, <2>8 DEF Progress, Environment
<1> QED
  BY <1>1, <1>2, <1>3 DEF Next

\* The steps of the daemon by what they do to ports.
LEMMA PortSteps ==
  ASSUME TypeOK, [Next]_vars
  PROVE  \/ SamePorts
         \/ \E c \in Conns : Alloc(c) /\ free # <<>>
         \/ \E c \in Conns : FreePort(c)
         \/ DaemonRestarts
<1>1. CASE UNCHANGED vars
  BY <1>1 DEF vars, SamePorts, HasPort
<1>2. CASE DaemonRestarts
  BY <1>2
<1>3. ASSUME NEW c \in Conns, Progress(c) \/ Environment(c)
      PROVE  SamePorts \/ (Alloc(c) /\ free # <<>>) \/ FreePort(c)
  <2>1. CASE FreePort(c)
    BY <2>1
  <2>2. CASE Alloc(c)
    BY <2>2, FirstDeferredType
       DEF Alloc, PoolAlloc, SamePorts, HasPort, Goto, pool, TypeOK
  <2>3. CASE Refuse(c) \/ Accept(c) \/ Admit(c) \/ FreeSlot(c)
    BY <2>3
       DEF Refuse, Accept, Admit, FreeSlot, SamePorts, HasPort, Goto, pool, TypeOK
  <2>4. CASE WrapTLS(c) \/ ReadHello(c) \/ HandshakeFails(c)
    BY <2>4, FirstDeferredType
       DEF WrapTLS, ReadHello, HandshakeFails, SamePorts, HasPort, Goto, pool, TypeOK
  <2>5. CASE Bind(c) \/ SendAck(c)
    BY <2>5, FirstDeferredType
       DEF Bind, SendAck, SamePorts, HasPort, Goto, pool, TypeOK
  <2>6. CASE IdleOut(c) \/ SessionEnds(c) \/ TeardownClosesLn(c)
    BY <2>6, FirstDeferredType
       DEF IdleOut, SessionEnds, TeardownClosesLn, SamePorts, HasPort, Goto, pool, TypeOK
  <2>7. CASE CloseLn(c) \/ CloseTun(c)
    BY <2>7 DEF CloseLn, CloseTun, SamePorts, HasPort, Goto, pool, TypeOK
  <2>8. CASE Panic(c)
    BY <2>8, FirstDeferredType
       DEF Panic, Handshaking, SamePorts, HasPort, Goto, pool, TypeOK
  <2>9. CASE FallSilent(c)
    BY <2>9 DEF FallSilent, SamePorts, HasPort, pool
  <2> QED
    BY <1>3, <2>1, <2>2, <2>3, <2>4, <2>5, <2>6, <2>7, <2>8, <2>9
       DEF Progress, Environment
<1> QED
  BY <1>1, <1>2, <1>3 DEF Next
-----------------------------------------------------------------------------
(* Type correctness. *)

\* The daemon starts with its variables in their types.
LEMMA TypeInit == Init => TypeOK
<1> SUFFICES ASSUME Init PROVE TypeOK
  OBVIOUS
<1>1. free \in Seq(Ports)
  BY NewPoolType DEF Init
<1> QED
  BY <1>1, CapsAssumption DEF Init, TypeOK, Stages, CapsAssumption

\* Every step keeps the types, and the counters within the caps.
LEMMA TypeStep == TypeOK /\ [Next]_vars => TypeOK'
<1> SUFFICES ASSUME TypeOK, [Next]_vars PROVE TypeOK'
  OBVIOUS
<1> USE DEF TypeOK
<1>1. ASSUME NEW c \in Conns, Admit(c) PROVE TypeOK'
  <2> DEFINE s == SourceOf[c]
  <2>1. s \in Sources /\ perIP[s] \in 0..MaxPerIP
    BY ConnsAssumption DEF ConnsAssumption
  <2>2. total < MaxTotal /\ perIP[s] < MaxPerIP
    BY <1>1, <2>1, CapsAssumption DEF Admit, CapReached, CapsAssumption
  <2>3. perIP[s] + 1 \in 0..MaxPerIP /\ total + 1 \in 0..MaxTotal
    BY <2>1, <2>2, CapsAssumption DEF CapsAssumption
  <2>4. perIP' = [perIP EXCEPT ![s] = perIP[s] + 1] /\ total' = total + 1
    BY <1>1 DEF Admit
  <2>5. perIP' \in [Sources -> 0..MaxPerIP] /\ total' \in 0..MaxTotal
    BY <2>1, <2>3, <2>4
  <2> QED
    BY <1>1, <2>5 DEF Admit, Goto, Stages, Handshaking, pool
<1>2. ASSUME NEW c \in Conns, FreeSlot(c) PROVE TypeOK'
  <2> DEFINE s == SourceOf[c]
             n == IF perIP[s] > 0 THEN perIP[s] - 1 ELSE perIP[s]
  <2>1. s \in Sources /\ perIP[s] \in 0..MaxPerIP
    BY ConnsAssumption DEF ConnsAssumption
  <2>2. n \in 0..MaxPerIP
    BY <2>1, CapsAssumption DEF CapsAssumption
  <2>3. perIP' = [perIP EXCEPT ![s] = n]
    BY <1>2 DEF FreeSlot, Release
  <2>4. perIP' \in [Sources -> 0..MaxPerIP]
    BY <2>1, <2>2, <2>3
  <2>5. total' \in 0..MaxTotal
    BY <1>2, CapsAssumption DEF FreeSlot, Release, CapsAssumption
  <2> QED
    BY <1>2, <2>4, <2>5 DEF FreeSlot, Release, Goto, Stages, pool
<1>3. ASSUME NEW c \in Conns, Alloc(c) PROVE TypeOK'
  <2>1. free # <<>> => Head(free) \in Ports /\ Tail(free) \in Seq(Ports)
    OBVIOUS
  <2> QED
    BY <1>3, <2>1, FirstDeferredType
       DEF Alloc, PoolAlloc, Goto, Stages, Handshaking, Deferred, pool, slots
<1>4. ASSUME NEW c \in Conns, FreePort(c) PROVE TypeOK'
  <2>1. port[c] \in used => Append(free, port[c]) \in Seq(Ports)
    OBVIOUS
  <2> QED
    BY <1>4, <2>1 DEF FreePort, PoolRelease, Goto, Stages, Deferred, pool, slots
<1>5. ASSUME NEW c \in Conns, Accept(c) \/ Refuse(c) PROVE TypeOK'
  BY <1>5 DEF Accept, Refuse, Goto, Stages, pool, slots
<1>6. ASSUME NEW c \in Conns, WrapTLS(c) \/ ReadHello(c) \/ HandshakeFails(c)
      PROVE TypeOK'
  BY <1>6, FirstDeferredType
     DEF WrapTLS, ReadHello, HandshakeFails, Goto, Stages, Handshaking, Deferred,
         pool, slots
<1>7. ASSUME NEW c \in Conns, Bind(c) \/ SendAck(c) PROVE TypeOK'
  BY <1>7, FirstDeferredType
     DEF Bind, SendAck, Goto, Stages, Handshaking, Deferred, pool, slots
<1>8. ASSUME NEW c \in Conns, IdleOut(c) \/ SessionEnds(c) \/ TeardownClosesLn(c)
      PROVE TypeOK'
  BY <1>8, FirstDeferredType
     DEF IdleOut, SessionEnds, TeardownClosesLn, Goto, Stages, Deferred, pool, slots
<1>9. ASSUME NEW c \in Conns, CloseLn(c) \/ CloseTun(c) PROVE TypeOK'
  BY <1>9 DEF CloseLn, CloseTun, Goto, Stages, Deferred, pool, slots
<1>10. ASSUME NEW c \in Conns, Panic(c) PROVE TypeOK'
  BY <1>10, FirstDeferredType
     DEF Panic, Handshaking, Goto, Stages, Deferred, pool, slots
<1>11. ASSUME NEW c \in Conns, FallSilent(c) PROVE TypeOK'
  BY <1>11 DEF FallSilent, pool, slots
<1>12. CASE DaemonRestarts
  <2>1. free' \in Seq(Ports)
    BY <1>12, NewPoolType DEF DaemonRestarts
  <2> QED
    BY <1>12, <2>1, CapsAssumption DEF DaemonRestarts, Stages, CapsAssumption
<1>13. CASE UNCHANGED vars
  BY <1>13 DEF vars
<1> QED
  BY <1>1, <1>2, <1>3, <1>4, <1>5, <1>6, <1>7, <1>8, <1>9, <1>10, <1>11, <1>12, <1>13
     DEF Next, Progress, Environment

\* The variables of the daemon keep their types and its counters stay within the
\* caps, however many launchers come and however their sessions end.
THEOREM TypeCorrect == Spec => []TypeOK
BY TypeInit, TypeStep, PTL DEF Spec
-----------------------------------------------------------------------------
(* Slots. *)

\* The connections that hold a slot, in all and of one source.
Running == {c \in Conns : HasSlot(c)}

\* The sessions that hold a slot are finitely many, so they can be counted.
LEMMA RunningFinite ==
  /\ IsFiniteSet(Running) /\ Cardinality(Running) \in Nat
  /\ \A s \in Sources :
       IsFiniteSet(SessionsOf(s)) /\ Cardinality(SessionsOf(s)) \in Nat
<1>1. Running \subseteq Conns /\ \A s \in Sources : SessionsOf(s) \subseteq Conns
  BY DEF Running, SessionsOf
<1> QED
  BY <1>1, ConnsAssumption, FS_Subset, FS_CardinalityType DEF ConnsAssumption

\* Nobody holds a slot at the start and the counters are zero.
LEMMA SlotInit == Init => SlotsCounted
<1> SUFFICES ASSUME Init PROVE SlotsCounted
  OBVIOUS
<1>1. Running = {} /\ \A s \in Sources : SessionsOf(s) = {}
  BY DEF Init, Running, SessionsOf, HasSlot
<1> QED
  BY <1>1, FS_EmptySet DEF Init, SlotsCounted, Running

\* The counters follow the sessions through every step: admit and release each
\* run once per session.
LEMMA SlotStep == TypeOK /\ SlotsCounted /\ [Next]_vars => SlotsCounted'
<1> SUFFICES ASSUME TypeOK, SlotsCounted, [Next]_vars PROVE SlotsCounted'
  OBVIOUS
<1>1. CASE SameSlots
  <2>1. Running' = Running
    BY <1>1 DEF SameSlots, Running
  <2>2. \A s \in Sources : SessionsOf(s)' = SessionsOf(s)
    BY <1>1 DEF SameSlots, SessionsOf
  <2> QED
    BY <1>1, <2>1, <2>2 DEF SameSlots, SlotsCounted, Running
<1>2. ASSUME NEW c \in Conns, Admit(c) PROVE SlotsCounted'
  <2> DEFINE s == SourceOf[c]
  <2>0. s \in Sources /\ ~HasSlot(c)
    BY <1>2, ConnsAssumption DEF Admit, HasSlot, ConnsAssumption
  <2>1. \A d \in Conns : HasSlot(d)' <=> HasSlot(d) \/ d = c
    BY <1>2 DEF Admit, HasSlot, Goto, TypeOK
  <2>2. Running' = Running \cup {c} /\ c \notin Running
    BY <2>0, <2>1 DEF Running
  <2>3. SessionsOf(s)' = SessionsOf(s) \cup {c} /\ c \notin SessionsOf(s)
    BY <2>0, <2>1 DEF SessionsOf
  <2>4. \A t \in Sources \ {s} : SessionsOf(t)' = SessionsOf(t)
    BY <2>1 DEF SessionsOf
  <2>5. Cardinality(Running') = Cardinality(Running) + 1
    BY <2>2, RunningFinite, FS_AddElement
  <2>6. Cardinality(SessionsOf(s)') = Cardinality(SessionsOf(s)) + 1
    BY <2>0, <2>3, RunningFinite, FS_AddElement
  <2>7. total' = total + 1 /\ perIP' = [perIP EXCEPT ![s] = @ + 1]
    BY <1>2 DEF Admit
  <2>8. total' = Cardinality(Running')
    BY <2>5, <2>7 DEF SlotsCounted, Running
  <2>9. \A t \in Sources : perIP'[t] = Cardinality(SessionsOf(t)')
    BY <2>0, <2>4, <2>6, <2>7 DEF SlotsCounted, TypeOK
  <2> QED
    BY <2>8, <2>9 DEF SlotsCounted, Running
<1>3. ASSUME NEW c \in Conns, FreeSlot(c) PROVE SlotsCounted'
  <2> DEFINE s == SourceOf[c]
  <2>0. s \in Sources /\ HasSlot(c)
    BY <1>3, ConnsAssumption DEF FreeSlot, Release, HasSlot, ConnsAssumption
  <2>1. \A d \in Conns : HasSlot(d)' <=> HasSlot(d) /\ d # c
    BY <1>3 DEF FreeSlot, Release, HasSlot, Goto, TypeOK
  <2>2. Running' = Running \ {c} /\ c \in Running
    BY <2>0, <2>1 DEF Running
  <2>3. SessionsOf(s)' = SessionsOf(s) \ {c} /\ c \in SessionsOf(s)
    BY <2>0, <2>1 DEF SessionsOf
  <2>4. \A t \in Sources \ {s} : SessionsOf(t)' = SessionsOf(t)
    BY <2>1 DEF SessionsOf
  <2>5. Cardinality(Running') = Cardinality(Running) - 1 /\ Cardinality(Running) > 0
    BY <2>2, RunningFinite, FS_RemoveElement, FS_EmptySet
  <2>6. /\ Cardinality(SessionsOf(s)') = Cardinality(SessionsOf(s)) - 1
        /\ Cardinality(SessionsOf(s)) > 0
    <3> DEFINE K == SessionsOf(s)
    <3>1. IsFiniteSet(K) /\ Cardinality(K) \in Nat /\ c \in K
      BY <2>0, <2>3, RunningFinite
    <3> HIDE DEF K
    <3>2. Cardinality(K \ {c}) = Cardinality(K) - 1
      BY <3>1, FS_RemoveElement
    <3>3. Cardinality(K) > 0
      BY <3>1, FS_EmptySet
    <3> QED
      BY <2>3, <3>2, <3>3 DEF K
  <2>7. /\ total' = IF total > 0 THEN total - 1 ELSE total
        /\ perIP' = [perIP EXCEPT ![s] = IF @ > 0 THEN @ - 1 ELSE @]
    BY <1>3 DEF FreeSlot, Release
  <2>8. total' = Cardinality(Running')
    BY <2>5, <2>7 DEF SlotsCounted, Running
  <2>9. \A t \in Sources : perIP'[t] = Cardinality(SessionsOf(t)')
    BY <2>0, <2>4, <2>6, <2>7 DEF SlotsCounted, TypeOK
  <2> QED
    BY <2>8, <2>9 DEF SlotsCounted, Running
<1>4. CASE DaemonRestarts
  <2>1. Running' = {} /\ \A s \in Sources : SessionsOf(s)' = {}
    BY <1>4 DEF DaemonRestarts, Running, SessionsOf, HasSlot
  <2> QED
    BY <1>4, <2>1, FS_EmptySet DEF DaemonRestarts, SlotsCounted, Running
<1> QED
  BY <1>1, <1>2, <1>3, <1>4, SlotSteps

\* No slot is ever leaked or given back twice: the counters admit looks at are
\* always the numbers of sessions that still run.
THEOREM SlotsAccounted == Spec => []SlotAccounting
<1>1. Init => TypeOK /\ SlotsCounted
  BY TypeInit, SlotInit
<1>2. TypeOK /\ SlotsCounted /\ [Next]_vars => (TypeOK /\ SlotsCounted)'
  BY TypeStep, SlotStep
<1>3. TypeOK /\ SlotsCounted => SlotAccounting
  BY CapsAssumption DEF TypeOK, SlotAccounting
<1> QED
  BY <1>1, <1>2, <1>3, PTL DEF Spec
-----------------------------------------------------------------------------
(* Ports. *)

PoolInv == PoolConsistent /\ PortKnown

\* All ports are free at the start, each listed once.
LEMMA PoolInit == Init => PoolInv
<1> SUFFICES ASSUME Init PROVE PoolInv
  OBVIOUS
<1>1. \A c \in Conns : ~HasPort(c) /\ port[c] = NoPort
  BY DEF Init, HasPort
<1>2. UsedByHolders
  BY <1>1 DEF Init, UsedByHolders
<1>3. FreeDistinct /\ FreeIsUnused /\ PortsKept
  BY NewPoolType DEF Init, FreeDistinct, FreeIsUnused, PortsKept
<1> QED
  BY <1>1, <1>2, <1>3 DEF PoolInv, PoolConsistent, PortKnown, OnePortEach

\* Alloc moves one port from the free list to one session, Release moves it back.
LEMMA PoolStep == TypeOK /\ PoolInv /\ [Next]_vars => PoolInv'
<1> SUFFICES ASSUME TypeOK, PoolInv, [Next]_vars PROVE PoolInv'
  OBVIOUS
<1> USE DEF PoolInv, PoolConsistent
<1>0. free \in Seq(Ports) /\ used \subseteq Ports
  BY DEF TypeOK
<1>1. CASE SamePorts
  <2>1. {port[c] : c \in {d \in Conns : HasPort(d)}}'
          = {port[c] : c \in {d \in Conns : HasPort(d)}}
    BY <1>1 DEF SamePorts
  <2>2. UsedByHolders'
    BY <1>1, <2>1 DEF SamePorts, UsedByHolders
  <2>3. FreeDistinct' /\ FreeIsUnused' /\ PortsKept'
    BY <1>1 DEF SamePorts, FreeDistinct, FreeIsUnused, PortsKept
  <2>4. OnePortEach' /\ PortKnown'
    BY <1>1 DEF SamePorts, OnePortEach, PortKnown
  <2> QED
    BY <2>2, <2>3, <2>4
<1>2. ASSUME NEW c \in Conns, Alloc(c), free # <<>> PROVE PoolInv'
  <2> DEFINE p == Head(free)
  <2>0. /\ port' = [port EXCEPT ![c] = p] /\ free' = Tail(free)
        /\ used' = used \cup {p} /\ pc' = [pc EXCEPT ![c] = "bind"] /\ pc[c] = "alloc"
    BY <1>2 DEF Alloc, PoolAlloc, Goto
  <2>1. /\ p = free[1] /\ 1 \in 1..Len(free) /\ p \in Ports
        /\ \A i \in 1..Len(Tail(free)) :
             i + 1 \in 1..Len(free) /\ Tail(free)[i] = free[i + 1]
        /\ \A i, j \in 1..Len(Tail(free)) : Tail(free)[i] = Tail(free)[j] => i = j
        /\ \A i \in 1..Len(Tail(free)) : Tail(free)[i] # p
        /\ \A i \in 1..Len(free) :
             i = 1 \/ \E j \in 1..Len(Tail(free)) : Tail(free)[j] = free[i]
    BY <1>0, <1>2, TakeHead DEF FreeDistinct
  <2>2. p \notin used
    BY <2>1 DEF FreeIsUnused
  <2>3. /\ \A d \in Conns : HasPort(d)' <=> HasPort(d) \/ d = c
        /\ ~HasPort(c)
        /\ \A d \in Conns : port'[d] = IF d = c THEN p ELSE port[d]
    BY <2>0 DEF HasPort, TypeOK
  <2>4. \A d \in Conns : HasPort(d) => port[d] \in used
    BY DEF UsedByHolders
  <2>5. FreeDistinct'
    BY <2>0, <2>1 DEF FreeDistinct
  <2>6. FreeIsUnused'
    BY <2>0, <2>1 DEF FreeIsUnused
  <2>7. PortsKept'
    <3>1. ASSUME NEW q \in Ports, q \notin used, q # p
          PROVE  \E j \in 1..Len(Tail(free)) : Tail(free)[j] = q
      <4>1. PICK i \in 1..Len(free) : free[i] = q
        BY <3>1 DEF PortsKept
      <4>2. i # 1
        BY <2>1, <3>1, <4>1
      <4> QED
        BY <2>1, <4>1, <4>2
    <3> QED
      BY <2>0, <3>1 DEF PortsKept
  <2>8. UsedByHolders'
    BY <2>0, <2>3 DEF UsedByHolders
  <2>9. OnePortEach'
    BY <2>2, <2>3, <2>4 DEF OnePortEach
  <2>10. PortKnown'
    BY <2>1, <2>3 DEF PortKnown
  <2> QED
    BY <2>5, <2>6, <2>7, <2>8, <2>9, <2>10
<1>3. ASSUME NEW c \in Conns, FreePort(c) PROVE PoolInv'
  <2> DEFINE p == port[c]
  <2>0. pc[c] = "freePort" /\ HasPort(c) /\ p \in Ports /\ p \in used
    BY <1>3 DEF FreePort, HasPort, PortKnown, UsedByHolders
  <2>1. /\ port' = [port EXCEPT ![c] = NoPort] /\ free' = Append(free, p)
        /\ used' = used \ {p} /\ pc' = [pc EXCEPT ![c] = "closeTun"]
    BY <1>3, <2>0 DEF FreePort, PoolRelease, Goto
  <2>2. \A i \in 1..Len(free) : free[i] # p
    BY <2>0 DEF FreeIsUnused
  <2>3. /\ \A i, j \in 1..Len(Append(free, p)) :
             Append(free, p)[i] = Append(free, p)[j] => i = j
        /\ \A i \in 1..Len(Append(free, p)) :
             \/ Append(free, p)[i] = p
             \/ \E j \in 1..Len(free) : free[j] = Append(free, p)[i]
        /\ \E i \in 1..Len(Append(free, p)) : Append(free, p)[i] = p
        /\ \A i \in 1..Len(free) :
             i \in 1..Len(Append(free, p)) /\ Append(free, p)[i] = free[i]
    BY <1>0, <2>0, <2>2, AppendNew DEF FreeDistinct
  <2>4. /\ \A d \in Conns : HasPort(d)' <=> HasPort(d) /\ d # c
        /\ \A d \in Conns : port'[d] = IF d = c THEN NoPort ELSE port[d]
    BY <2>0, <2>1 DEF HasPort, TypeOK
  <2>5. FreeDistinct'
    BY <2>1, <2>3 DEF FreeDistinct
  <2>6. FreeIsUnused'
    BY <2>1, <2>3 DEF FreeIsUnused
  <2>7. PortsKept'
    BY <2>1, <2>3 DEF PortsKept
  <2>8. UsedByHolders'
    BY <2>0, <2>1, <2>4 DEF UsedByHolders, OnePortEach
  <2>9. OnePortEach'
    BY <2>4 DEF OnePortEach
  <2>10. PortKnown'
    BY <2>4 DEF PortKnown
  <2> QED
    BY <2>5, <2>6, <2>7, <2>8, <2>9, <2>10
<1>4. CASE DaemonRestarts
  <2>1. \A c \in Conns : ~HasPort(c)' /\ port'[c] = NoPort
    BY <1>4 DEF DaemonRestarts, HasPort
  <2>2. UsedByHolders'
    BY <1>4, <2>1 DEF DaemonRestarts, UsedByHolders
  <2>3. FreeDistinct' /\ FreeIsUnused' /\ PortsKept'
    BY <1>4, NewPoolType DEF DaemonRestarts, FreeDistinct, FreeIsUnused, PortsKept
  <2> QED
    BY <2>1, <2>2, <2>3 DEF PortKnown, OnePortEach
<1> QED
  BY <1>1, <1>2, <1>3, <1>4, PortSteps

\* No listener is bound at the start.
LEMMA ListenInit == Init => ListensWhileBound
BY DEF Init, ListensWhileBound

\* A session listens only between Bind and the deferred ln.Close.
LEMMA ListenStep ==
  TypeOK /\ ListensWhileBound /\ [Next]_vars => ListensWhileBound'
<1> SUFFICES ASSUME TypeOK, ListensWhileBound, [Next]_vars
             PROVE  ListensWhileBound'
  OBVIOUS
<1> USE DEF ListensWhileBound, TypeOK, Goto
<1>1. ASSUME NEW c \in Conns, Bind(c) PROVE ListensWhileBound'
  BY <1>1, FirstDeferredType DEF Bind
<1>2. ASSUME NEW c \in Conns, SendAck(c) PROVE ListensWhileBound'
  BY <1>2, FirstDeferredType DEF SendAck
<1>3. ASSUME NEW c \in Conns, IdleOut(c) \/ SessionEnds(c) \/ TeardownClosesLn(c)
      PROVE ListensWhileBound'
  BY <1>3, FirstDeferredType DEF IdleOut, SessionEnds, TeardownClosesLn
<1>4. ASSUME NEW c \in Conns, CloseLn(c) PROVE ListensWhileBound'
  BY <1>4 DEF CloseLn
<1>5. ASSUME NEW c \in Conns, Panic(c) PROVE ListensWhileBound'
  BY <1>5, FirstDeferredType DEF Panic, Handshaking
<1>6. ASSUME NEW c \in Conns,
             Accept(c) \/ Admit(c) \/ Refuse(c) \/ FreeSlot(c) \/ FallSilent(c)
      PROVE  ListensWhileBound'
  BY <1>6 DEF Accept, Admit, Refuse, FreeSlot, FallSilent
<1>7. ASSUME NEW c \in Conns,
             \/ WrapTLS(c) \/ ReadHello(c) \/ HandshakeFails(c)
             \/ Alloc(c) \/ FreePort(c) \/ CloseTun(c)
      PROVE  ListensWhileBound'
  BY <1>7 DEF WrapTLS, ReadHello, HandshakeFails, Alloc, FreePort, CloseTun
<1>8. CASE DaemonRestarts
  BY <1>8 DEF DaemonRestarts
<1>9. CASE UNCHANGED vars
  BY <1>9 DEF vars
<1> QED
  BY <1>1, <1>2, <1>3, <1>4, <1>5, <1>6, <1>7, <1>8, <1>9
     DEF Next, Progress, Environment
-----------------------------------------------------------------------------
(* The inductive invariant and what follows from it. *)

\* The inductive invariant: types, slots and ports as the invariants have them, and
\* the two facts they leave unsaid.
THEOREM Inductive == Spec => []IInv
<1>1. Init => IInv
  BY TypeInit, SlotInit, PoolInit, ListenInit DEF IInv, PoolInv
<1>2. IInv /\ [Next]_vars => IInv'
  BY TypeStep, SlotStep, PoolStep, ListenStep DEF IInv, PoolInv
<1> QED
  BY <1>1, <1>2, PTL DEF Spec

\* The pool and the sessions never disagree on who has which port.
THEOREM PortsConsistent == Spec => []PoolConsistent
<1>1. IInv => PoolConsistent
  BY DEF IInv
<1> QED
  BY <1>1, Inductive, PTL

\* Who listens holds its port, and a port has one holder and is not free.
LEMMA SharedListenerExcluded == IInv => NoSharedListener
<1> SUFFICES ASSUME IInv, NEW c \in lnOpen PROVE
             /\ \A d \in lnOpen : port[c] = port[d] => c = d
             /\ \A i \in 1..Len(free) : free[i] # port[c]
  BY DEF NoSharedListener
<1> USE DEF IInv, PoolConsistent
<1>1. \A d \in lnOpen : d \in Conns /\ HasPort(d)
  BY DEF TypeOK, ListensWhileBound, HasPort
<1>2. port[c] \in used
  BY <1>1 DEF UsedByHolders
<1> QED
  BY <1>1, <1>2 DEF OnePortEach, FreeIsUnused

\* No two games ever listen on one public port, nor one on a port the pool could
\* hand out, although the kernel would allow it.
THEOREM ListenersExclusive == Spec => []NoSharedListener
BY Inductive, SharedListenerExcluded, PTL

\* Were the free list empty at Alloc, every port would be with another session
\* that holds a slot too: fewer ports than sessions.
LEMMA PoolNeverShort == IInv => PoolSuffices
<1> SUFFICES ASSUME IInv, Hi - Lo + 1 >= total,
                    NEW c \in Conns, pc[c] = "alloc", free = <<>>
             PROVE  FALSE
  BY DEF PoolSuffices
<1> DEFINE H == {d \in Conns : HasPort(d)}
           f == [d \in H |-> port[d]]
<1>1. H \subseteq Running /\ c \in Running /\ c \notin H
  BY DEF H, Running, HasPort, HasSlot
<1>2. IsFiniteSet(H) /\ Cardinality(H) \in Nat
  BY <1>1, RunningFinite, FS_Subset, FS_CardinalityType
<1>3. Cardinality(H) + 1 <= Cardinality(Running)
  <2>1. H \cup {c} \subseteq Running
    BY <1>1
  <2>2. Cardinality(H \cup {c}) = Cardinality(H) + 1
    BY <1>1, <1>2, FS_AddElement
  <2> QED
    BY <2>1, <2>2, RunningFinite, FS_Subset
<1>4. Cardinality(Running) = total
  BY DEF IInv, SlotsCounted, Running
<1>5. used = Ports
  <2>1. \A p \in Ports : p \in used
    BY DEF IInv, PoolConsistent, PortsKept
  <2> QED
    BY <2>1 DEF IInv, TypeOK
<1>6. f \in Surjection(H, Ports)
  <2>1. Ports = {port[d] : d \in H}
    BY <1>5 DEF IInv, PoolConsistent, UsedByHolders
  <2>2. f \in [H -> Ports]
    BY <2>1
  <2>3. \A p \in Ports : \E d \in H : f[d] = p
    BY <2>1
  <2> QED
    BY <2>2, <2>3 DEF Surjection
<1>7. Cardinality(Ports) <= Cardinality(H)
  BY <1>2, <1>6, FS_Surjection
<1>8. Cardinality(Ports) = Hi - Lo + 1
  <2>1. Lo \in Int /\ Hi \in Int /\ ~(Lo > Hi)
    BY RangeAssumption DEF RangeAssumption
  <2> QED
    BY <2>1, FS_Interval DEF Ports
<1>9. Cardinality(Running) \in Nat /\ Hi - Lo + 1 \in Int
  BY RunningFinite, RangeAssumption DEF RangeAssumption
<1> QED
  BY <1>2, <1>3, <1>4, <1>7, <1>8, <1>9

\* A range with a port for every session that runs is never exhausted.
THEOREM PoolNeverExhausted == Spec => []PoolSuffices
BY Inductive, PoolNeverShort, PTL
-----------------------------------------------------------------------------
(* RelayServer implements PortLease. *)

\* Bind grants a port, whatever ends a listener withdraws it, nothing else shows.
LEMMA LeaseStep == IInv /\ [Next]_vars => [Lease!Next]_serving
<1> SUFFICES ASSUME IInv, [Next]_vars PROVE [Lease!Next]_serving
  OBVIOUS
<1> USE DEF IInv, TypeOK
<1>0. \A d \in lnOpen : HasPort(d) /\ port[d] \in Ports
  BY DEF ListensWhileBound, HasPort, PortKnown
<1>1. ASSUME NEW c \in Conns, Bind(c), lnOpen' = lnOpen \cup {c}
      PROVE  Lease!Next
  <2>1. port' = port /\ HasPort(c) /\ port[c] \in Ports /\ c \notin lnOpen
    BY <1>1 DEF Bind, HasPort, PortKnown, ListensWhileBound
  <2>2. serving[c] = NoPort /\ serving' = [serving EXCEPT ![c] = port[c]]
    BY <1>1, <2>1 DEF serving
  <2>3. \A h \in Conns : serving[h] # port[c]
    BY <1>0, <2>1, NoPortOutside DEF serving, PoolConsistent, OnePortEach
  <2>4. Lease!Grant(c, port[c])
    BY <2>2, <2>3 DEF Lease!Grant
  <2> QED
    BY <2>1, <2>4 DEF Lease!Next
<1>2. ASSUME NEW ending \in SUBSET Conns, lnOpen' = lnOpen \ ending, port' = port
      PROVE  Lease!Next
  <2>1. serving' = [g \in Conns |-> IF g \in ending THEN NoPort ELSE serving[g]]
    BY <1>2 DEF serving
  <2> QED
    BY <2>1 DEF Lease!Next, Lease!Withdraw
<1>3. CASE DaemonRestarts
  <2>1. serving' = [g \in Conns |-> IF g \in Conns THEN NoPort ELSE serving[g]]
    BY <1>3 DEF DaemonRestarts, serving
  <2>2. Conns \in SUBSET Conns
    OBVIOUS
  <2> QED
    BY <2>1, <2>2 DEF Lease!Next, Lease!Withdraw
<1>4. ASSUME NEW c \in Conns, c \notin lnOpen, lnOpen' = lnOpen,
             \A d \in Conns : d # c => port'[d] = port[d]
      PROVE  serving' = serving
  BY <1>4 DEF serving
<1>5. ASSUME NEW c \in Conns, Alloc(c) \/ FreePort(c) PROVE serving' = serving
  <2>1. c \notin lnOpen
    BY <1>5 DEF Alloc, PoolAlloc, FreePort, ListensWhileBound
  <2>2. lnOpen' = lnOpen /\ \A d \in Conns : d # c => port'[d] = port[d]
    BY <1>5 DEF Alloc, PoolAlloc, FreePort
  <2> QED
    BY <1>4, <2>1, <2>2
<1>6. ASSUME NEW c \in Conns,
             IdleOut(c) \/ SessionEnds(c) \/ TeardownClosesLn(c) \/ CloseLn(c)
      PROVE  [Lease!Next]_serving
  <2>1. port' = port /\ (lnOpen' = lnOpen \/ lnOpen' = lnOpen \ {c})
    BY <1>6 DEF IdleOut, SessionEnds, TeardownClosesLn, CloseLn
  <2>2. CASE lnOpen' = lnOpen
    BY <2>1, <2>2 DEF serving
  <2>3. CASE lnOpen' = lnOpen \ {c}
    BY <1>2, <2>1, <2>3
  <2> QED
    BY <2>1, <2>2, <2>3
<1>7. ASSUME NEW c \in Conns,
             \/ Accept(c) \/ Admit(c) \/ Refuse(c) \/ FreeSlot(c) \/ FallSilent(c)
             \/ WrapTLS(c) \/ ReadHello(c) \/ HandshakeFails(c) \/ SendAck(c)
             \/ CloseTun(c) \/ Panic(c) \/ (Bind(c) /\ lnOpen' = lnOpen)
      PROVE  serving' = serving
  <2>1. port' = port /\ lnOpen' = lnOpen
    BY <1>7
       DEF Accept, Admit, Refuse, FreeSlot, FallSilent, WrapTLS, ReadHello,
           HandshakeFails, SendAck, CloseTun, Panic, Bind
  <2> QED
    BY <2>1 DEF serving
<1>8. CASE UNCHANGED vars
  BY <1>8 DEF vars, serving
<1>9. \A c \in Conns : Bind(c) => lnOpen' = lnOpen \/ lnOpen' = lnOpen \cup {c}
  BY DEF Bind
<1> QED
  BY <1>1, <1>3, <1>5, <1>6, <1>7, <1>8, <1>9 DEF Next, Progress, Environment

\* At any time each public port serves at most one game and a game keeps its port
\* until it ends: the daemon implements the abstract lease of ports.
THEOREM LeaseImplemented == Spec => ImplementsPortLease
<1>1. Init => Lease!Init
  BY DEF Init, Lease!Init, serving
<1>2. IInv /\ [Next]_vars => [Lease!Next]_serving
  BY LeaseStep
<1> QED
  BY <1>1, <1>2, Inductive, PTL DEF Spec, ImplementsPortLease, Lease!Spec
=============================================================================
