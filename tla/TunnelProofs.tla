---------------------------- MODULE TunnelProofs -----------------------------
(***************************************************************************)
(* Of the tunnel as a whole, at both its ends; KeepAlive, StreamIds and    *)
(* TunnelWire share no variable.                                           *)
(*                                                                         *)
(* The clocks, for all timings: neither end gives up a peer that is alive, *)
(* as long as a ping interval and a dial for every stream that may be      *)
(* opening fit into the launcher's read deadline; and each notices in time *)
(* that the other is gone, with no such condition.                         *)
(*                                                                         *)
(* The ids, for any number of them, of streams and of live ones: an OPEN   *)
(* never meets a stream in use under its id.                               *)
(*                                                                         *)
(* The bytes, for any senders, buffers and width of the length field: what *)
(* the reader cuts out of them are the frames that were sent.              *)
(***************************************************************************)
EXTENDS KeepAlive, StreamIds, TunnelWire, FiniteSetTheorems, SequenceTheorems,
        WellFoundedInduction, TLAPS

Margins ==
  /\ PingEvery + DialTimeout * Burst < ReadIdle
  /\ PingEvery < IdleTimeout

\* The first PING that waits at the relay has only OPENs before it.
FirstPing(k) ==
  /\ k \in DOMAIN toRelay /\ toRelay[k] = "PING"
  /\ \A j \in DOMAIN toRelay : j < k => toRelay[j] = "OPEN"

\* The next PONG is near enough: if a PING waits, after the dial that goes on and one
\* more for every OPEN before it; otherwise the last PONG is younger than the last PING.
PongComes ==
  host = "up" /\ relay = "up" =>
    /\ \A k \in DOMAIN toRelay :
         FirstPing(k) => quiet + left + DialTimeout * (k - 1) <= PingEvery + DialTimeout * Burst
    /\ (\A k \in DOMAIN toRelay : toRelay[k] # "PING") => quiet <= sincePing

\* A relay that waits for a frame has waited since the last PING at most.
PingCame == host = "up" /\ ~dialing /\ toRelay = <<>> => idle <= sincePing

IInv == TypeOK /\ (dialing \/ left = 0) /\ PongComes /\ PingCame /\ NoFalseDeath
-----------------------------------------------------------------------------
(* Products and counts. *)

\* What the bounds need of products.
LEMMA Products ==
  \A a, b, c \in Nat : /\ c * a \in Nat
                       /\ c * (a + 1) = c * a + c
                       /\ a <= b => c * a <= c * b
<1>1. ASSUME NEW a \in Nat, NEW b \in Nat, NEW c \in Nat, a <= b
      PROVE  c * a <= c * b
  <2>1. PICK d \in Nat : b = a + d
    <3>1. b - a \in Nat /\ b = a + (b - a)
      BY <1>1
    <3> QED
      BY <3>1
  <2>2. c * b = c * a + c * d /\ c * d \in Nat /\ c * a \in Nat
    BY <2>1
  <2> QED
    BY <2>2
<1> QED
  BY <1>1

Frames == Seq({"PING", "OPEN"})

\* The OPENs of a queue of frames can be counted.
LEMMA OpensFinite ==
  ASSUME NEW q \in Frames
  PROVE  /\ Opens(q) \subseteq 1..Len(q) /\ Len(q) \in Nat
         /\ IsFiniteSet(Opens(q)) /\ Cardinality(Opens(q)) \in Nat
<1>1. Opens(q) \subseteq 1..Len(q) /\ Len(q) \in Nat
  BY DEF Opens, Frames
<1>2. IsFiniteSet(1..Len(q))
  BY <1>1, FS_Interval
<1> QED
  BY <1>1, <1>2, FS_Subset, FS_CardinalityType

\* A frame that is sent adds one OPEN, or none.
LEMMA OpensOfAppend ==
  ASSUME NEW q \in Frames
  PROVE  /\ Cardinality(Opens(Append(q, "OPEN"))) = Cardinality(Opens(q)) + 1
         /\ Opens(Append(q, "PING")) = Opens(q)
<1>1. Opens(Append(q, "PING")) = Opens(q)
  BY DEF Opens, Frames
<1>2. Opens(Append(q, "OPEN")) = Opens(q) \cup {Len(q) + 1}
  BY DEF Opens, Frames
<1>3. Len(q) + 1 \notin Opens(q)
  BY OpensFinite
<1> QED
  BY <1>1, <1>2, <1>3, OpensFinite, FS_AddElement

\* A frame that is read takes one OPEN away, or none.
LEMMA OpensOfTail ==
  ASSUME NEW q \in Frames, q # <<>>
  PROVE  Cardinality(Opens(q))
           = Cardinality(Opens(Tail(q))) + (IF Head(q) = "OPEN" THEN 1 ELSE 0)
<1> DEFINE f == [i \in Opens(Tail(q)) |-> i + 1]
<1>1. /\ Tail(q) \in Frames /\ Len(q) \in Nat \ {0} /\ Len(Tail(q)) = Len(q) - 1
      /\ Head(q) = q[1] /\ \A i \in 1..Len(Tail(q)) : Tail(q)[i] = q[i + 1]
      /\ DOMAIN q = 1..Len(q) /\ DOMAIN Tail(q) = 1..(Len(q) - 1)
  BY DEF Frames
<1>2. f \in Bijection(Opens(Tail(q)), Opens(q) \ {1})
  <2>1. \A i \in Opens(Tail(q)) : i + 1 \in Opens(q) \ {1}
    BY <1>1 DEF Opens
  <2>2. \A j \in Opens(q) \ {1} : j - 1 \in Opens(Tail(q)) /\ (j - 1) + 1 = j
    BY <1>1 DEF Opens
  <2>3. \A i, j \in Opens(Tail(q)) : i + 1 = j + 1 => i = j
    BY <1>1 DEF Opens
  <2>4. f \in [Opens(Tail(q)) -> Opens(q) \ {1}]
    BY <2>1
  <2>5. \A j \in Opens(q) \ {1} : \E i \in Opens(Tail(q)) : f[i] = j
    BY <2>2
  <2> QED
    BY <2>3, <2>4, <2>5 DEF Bijection, Injection, IsInjective, Surjection
<1>3. Cardinality(Opens(q) \ {1}) = Cardinality(Opens(Tail(q)))
  BY <1>1, <1>2, OpensFinite, FS_Bijection DEF ExistsBijection
<1>4. 1 \in Opens(q) <=> Head(q) = "OPEN"
  BY <1>1 DEF Opens
<1>5. IsFiniteSet(Opens(q)) /\ Cardinality(Opens(q)) \in Nat
  BY OpensFinite
<1>6. Cardinality(Opens(q) \ {1})
        = IF 1 \in Opens(q) THEN Cardinality(Opens(q)) - 1 ELSE Cardinality(Opens(q))
  BY <1>5, FS_RemoveElement
<1> QED
  BY <1>3, <1>4, <1>5, <1>6

-----------------------------------------------------------------------------
(* Types. *)

\* The clocks keep their types.
LEMMA TypesStep == TypeOK /\ [Next]_vars => TypeOK'
<1> SUFFICES ASSUME TypeOK, [Next]_vars PROVE TypeOK'
  OBVIOUS
<1> USE ClocksAssumption DEF ClocksAssumption, hostRuns, relayRuns
<1>0. /\ sincePing \in 0..PingEvery /\ quiet \in 0..ReadIdle /\ idle \in 0..IdleTimeout
      /\ toRelay \in Frames /\ Opening <= Burst
      /\ dialing \in BOOLEAN /\ left \in 0..DialTimeout
      /\ host \in {"up", "gone", "gaveUp"} /\ relay \in {"up", "gone", "gaveUp"}
      /\ Cardinality(Opens(toRelay)) \in Nat /\ goneFor \in Nat
  BY OpensFinite DEF TypeOK, Frames
<1>9. goneFor' \in Nat
  BY <1>0 DEF Next, vars, OpenClientStream, Ping, HostGivesUp, ReadPing, ReadOpen, DialOK,
              DialFails, RelayGivesUp, HostVanishes, RelayVanishes, Tick
<1>1. ASSUME UNCHANGED <<toRelay, dialing>>,
             sincePing' \in 0..PingEvery, quiet' \in 0..ReadIdle, idle' \in 0..IdleTimeout,
             left' \in 0..DialTimeout,
             host' \in {"up", "gone", "gaveUp"}, relay' \in {"up", "gone", "gaveUp"}
      PROVE  TypeOK'
  BY <1>0, <1>1, <1>9 DEF TypeOK, Opening, Frames
<1>2. CASE OpenClientStream
  <2>1. toRelay' \in Frames /\ Cardinality(Opens(toRelay')) = Cardinality(Opens(toRelay)) + 1
    BY <1>0, <1>2, OpensOfAppend DEF OpenClientStream, Frames
  <2>2. Opening' <= Burst
    BY <1>0, <1>2, <2>1 DEF OpenClientStream, Opening
  <2> QED
    BY <1>0, <1>2, <1>9, <2>1, <2>2 DEF OpenClientStream, TypeOK, Frames
<1>3. CASE Ping
  <2>1. toRelay' \in Frames /\ Opens(toRelay') = Opens(toRelay)
    BY <1>0, <1>3, OpensOfAppend DEF Ping, Frames
  <2> QED
    BY <1>0, <1>3, <1>9, <2>1 DEF Ping, TypeOK, Opening, Frames
<1>4. CASE ReadPing \/ ReadOpen
  <2>1. /\ toRelay # <<>> /\ toRelay' = Tail(toRelay) /\ ~dialing
        /\ toRelay' \in Frames /\ Cardinality(Opens(toRelay')) \in Nat
    <3>1. toRelay # <<>> /\ toRelay' = Tail(toRelay) /\ ~dialing
      BY <1>4 DEF ReadPing, ReadOpen, readable
    <3>2. toRelay' \in Frames
      BY <1>0, <3>1 DEF Frames
    <3> QED
      BY <3>1, <3>2, OpensFinite
  <2>2. Cardinality(Opens(toRelay))
          = Cardinality(Opens(toRelay')) + (IF Head(toRelay) = "OPEN" THEN 1 ELSE 0)
    BY <1>0, <2>1, OpensOfTail
  <2>3. Opening' <= Burst
    BY <1>0, <1>4, <2>1, <2>2 DEF ReadPing, ReadOpen, Opening
  <2>4. 0 \in 0..ReadIdle /\ 0 \in 0..IdleTimeout /\ DialTimeout \in 0..DialTimeout
    OBVIOUS
  <2>5. quiet' \in 0..ReadIdle /\ idle' \in 0..IdleTimeout /\ left' \in 0..DialTimeout
    BY <1>0, <1>4, <2>4 DEF ReadPing, ReadOpen
  <2>6. dialing' \in BOOLEAN
    BY <1>0, <1>4, ZenonT(30) DEF ReadPing, ReadOpen
  <2>7. UNCHANGED <<sincePing, host, relay>>
    BY <1>4 DEF ReadPing, ReadOpen
  <2> QED
    BY <1>0, <1>9, <2>1, <2>3, <2>5, <2>6, <2>7, ZenonT(30) DEF TypeOK, Frames
<1>5. CASE DialOK \/ DialFails
  <2>1. Opening' <= Burst
    BY <1>0, <1>5 DEF DialOK, DialFails, Opening
  <2>2. 0 \in 0..ReadIdle /\ 0 \in 0..IdleTimeout /\ 0 \in 0..DialTimeout
    OBVIOUS
  <2>3. quiet' \in 0..ReadIdle /\ idle' \in 0..IdleTimeout /\ left' \in 0..DialTimeout
    BY <1>0, <1>5, <2>2 DEF DialOK, DialFails
  <2>4. dialing' \in BOOLEAN
    BY <1>5, ZenonT(30) DEF DialOK, DialFails
  <2>5. UNCHANGED <<sincePing, toRelay, host, relay>>
    BY <1>5 DEF DialOK, DialFails
  <2> QED
    BY <1>0, <1>9, <2>1, <2>3, <2>4, <2>5, ZenonT(30) DEF TypeOK, Frames
<1>6. CASE Tick
  <2>1. hostRuns => sincePing < PingEvery /\ quiet < ReadIdle
    BY <1>6 DEF Tick, hostWaits
  <2>2. sincePing' \in 0..PingEvery /\ quiet' \in 0..ReadIdle
    BY <1>0, <1>6, <2>1 DEF Tick
  <2>3. left' \in 0..DialTimeout /\ idle' \in 0..IdleTimeout
    BY <1>0, <1>6 DEF Tick, relayWaits
  <2> QED
    BY <1>0, <1>1, <1>6, <2>2, <2>3 DEF Tick
<1>7. CASE HostGivesUp \/ RelayGivesUp \/ HostVanishes \/ RelayVanishes
  BY <1>0, <1>1, <1>7 DEF HostGivesUp, RelayGivesUp, HostVanishes, RelayVanishes
<1>8. CASE UNCHANGED vars
  BY <1>0, <1>1, <1>8 DEF vars
<1> QED
  BY <1>2, <1>3, <1>4, <1>5, <1>6, <1>7, <1>8 DEF Next
-----------------------------------------------------------------------------
(* The next PONG is near. *)

\* A set of numbers has a least one.
LEMMA Least ==
  ASSUME NEW S \in SUBSET Nat, S # {}
  PROVE  \E m \in S : \A n \in S : m <= n
<1> DEFINE R == {ss \in Nat \X Nat : ss[1] < ss[2]}
<1>1. IsWellFoundedOn(R, Nat)
  BY NatLessThanWellFounded DEF OpToRel
<1>2. \E m \in S : \A n \in S : ~ (<<n, m>> \in R)
  <2> HIDE DEF R
  <2> QED
    BY <1>1, WFMin
<1>3. \A n, m \in Nat : n < m => <<n, m>> \in R
  OBVIOUS
<1>4. \A n, m \in Nat : ~(n < m) => m <= n
  OBVIOUS
<1> HIDE DEF R
<1> QED
  BY <1>2, <1>3, <1>4

\* If a PING waits at the relay, one of them is the first.
LEMMA SomeFirst ==
  ASSUME toRelay \in Frames, NEW i \in DOMAIN toRelay, toRelay[i] = "PING"
  PROVE  \E k \in DOMAIN toRelay : FirstPing(k)
<1> DEFINE S == {j \in DOMAIN toRelay : toRelay[j] = "PING"}
<1>1. DOMAIN toRelay = 1..Len(toRelay) /\ Len(toRelay) \in Nat
  BY DEF Frames
<1>2. S \in SUBSET Nat /\ S # {}
  BY <1>1
<1>3. PICK k \in S : \A n \in S : k <= n
  <2> HIDE DEF S
  <2> QED
    BY <1>2, Least
<1>4. \A j \in DOMAIN toRelay : toRelay[j] = "PING" \/ toRelay[j] = "OPEN"
  BY DEF Frames
<1>5. \A j \in DOMAIN toRelay : j < k => toRelay[j] = "OPEN"
  BY <1>1, <1>3, <1>4
<1> QED
  BY <1>3, <1>5 DEF FirstPing

\* The dial that goes on and n more take no longer than Burst dials.
LEMMA Budget ==
  ASSUME NEW n \in Nat, NEW l \in 0..DialTimeout, NEW d \in {0, 1},
         d = 1 \/ l = 0, n + d <= Burst
  PROVE  l + DialTimeout * n <= DialTimeout * Burst /\ DialTimeout * n \in Nat
<1> USE ClocksAssumption DEF ClocksAssumption
<1>1. DialTimeout * n \in Nat /\ DialTimeout * (n + 1) = DialTimeout * n + DialTimeout
  BY Products
<1>2. CASE d = 1
  <2>1. n + 1 \in Nat /\ n + 1 <= Burst
    BY <1>2
  <2>2. DialTimeout * (n + 1) <= DialTimeout * Burst
    BY <2>1, Products
  <2>3. DialTimeout * Burst \in Nat
    BY Products
  <2> QED
    BY <1>1, <2>2, <2>3
<1>3. CASE d = 0
  <2>1. n <= Burst /\ l = 0
    BY <1>3
  <2>2. DialTimeout * n <= DialTimeout * Burst
    BY <2>1, Products
  <2> QED
    BY <1>1, <2>1, <2>2
<1> QED
  BY <1>2, <1>3

\* A PING waits behind the dials of the streams that are being opened only.
LEMMA BehindDials ==
  ASSUME NEW q \in Frames, NEW l \in 0..DialTimeout, NEW d \in {0, 1},
         d = 1 \/ l = 0, Cardinality(Opens(q)) + d <= Burst,
         NEW k \in 1..(Len(q) + 1), \A j \in DOMAIN q : j < k => q[j] = "OPEN"
  PROVE  l + DialTimeout * (k - 1) <= DialTimeout * Burst /\ DialTimeout * (k - 1) \in Nat
<1>1. /\ DOMAIN q = 1..Len(q) /\ Len(q) \in Nat
      /\ IsFiniteSet(Opens(q)) /\ Cardinality(Opens(q)) \in Nat
  BY OpensFinite DEF Frames
<1>2. k - 1 \in Nat /\ 1..(k - 1) \subseteq Opens(q)
  BY <1>1 DEF Opens
<1>3. Cardinality(1..(k - 1)) = k - 1
  BY <1>2, FS_Interval
<1>4. k - 1 <= Cardinality(Opens(q))
  BY <1>1, <1>2, <1>3, FS_Subset
<1>5. (k - 1) + d <= Burst
  BY <1>1, <1>2, <1>4, ClocksAssumption DEF ClocksAssumption
<1> QED
  BY <1>2, <1>5, Budget

\* The step of PongComes, by what waits at the relay and what the step does to it.
LEMMA PongStep ==
  ASSUME TypeOK, TypeOK', dialing \/ left = 0, PongComes, [Next]_vars
  PROVE  PongComes'
<1> USE ClocksAssumption DEF ClocksAssumption
<1> DEFINE C == DialTimeout * Burst
           d == IF dialing THEN 1 ELSE 0
<1> SUFFICES ASSUME host' = "up", relay' = "up"
             PROVE  /\ \A k \in DOMAIN toRelay' :
                         FirstPing(k)' => quiet' + left' + DialTimeout * (k - 1) <= PingEvery + C
                    /\ (\A k \in DOMAIN toRelay' : toRelay'[k] # "PING") => quiet' <= sincePing'
  BY DEF PongComes, FirstPing
<1>1. /\ sincePing \in 0..PingEvery /\ quiet \in 0..ReadIdle
      /\ toRelay \in Frames /\ toRelay' \in Frames
      /\ left \in 0..DialTimeout /\ dialing \in BOOLEAN /\ C \in Nat
      /\ DOMAIN toRelay = 1..Len(toRelay) /\ Len(toRelay) \in Nat
      /\ d \in {0, 1} /\ Cardinality(Opens(toRelay)) + d <= Burst /\ (d = 1 \/ left = 0)
  BY Products DEF TypeOK, Frames, Opening
<1>2. host = "up" /\ relay = "up" /\ hostRuns /\ relayRuns
  BY DEF Next, OpenClientStream, Ping, HostGivesUp, ReadPing, ReadOpen, DialOK, DialFails,
         RelayGivesUp, HostVanishes, RelayVanishes, Tick, vars, hostRuns, relayRuns
<1>3. /\ \A k \in DOMAIN toRelay :
           FirstPing(k) => quiet + left + DialTimeout * (k - 1) <= PingEvery + C
      /\ (\A k \in DOMAIN toRelay : toRelay[k] # "PING") => quiet <= sincePing
  BY <1>2 DEF PongComes
<1>4. \A k \in DOMAIN toRelay : DialTimeout * (k - 1) \in Nat
  <2> TAKE k \in DOMAIN toRelay
  <2>1. k - 1 \in Nat
    BY <1>1
  <2> QED
    BY <2>1, Products
<1> HIDE DEF d, C
<1>5. CASE OpenClientStream
  <2>1. /\ toRelay' = Append(toRelay, "OPEN") /\ UNCHANGED <<sincePing, quiet, left>>
    BY <1>5 DEF OpenClientStream
  <2>2. /\ DOMAIN toRelay' = 1..(Len(toRelay) + 1) /\ toRelay'[Len(toRelay) + 1] = "OPEN"
        /\ \A j \in DOMAIN toRelay : toRelay'[j] = toRelay[j]
    BY <1>1, <2>1 DEF Frames
  <2>3. \A k \in DOMAIN toRelay' : FirstPing(k)' => k \in DOMAIN toRelay /\ FirstPing(k)
    BY <1>1, <2>2 DEF FirstPing
  <2>4. (\A k \in DOMAIN toRelay' : toRelay'[k] # "PING")
          => \A k \in DOMAIN toRelay : toRelay[k] # "PING"
    BY <1>1, <2>2
  <2> QED
    BY <1>3, <2>1, <2>3, <2>4
<1>6. CASE Ping
  <2>1. /\ toRelay' = Append(toRelay, "PING") /\ UNCHANGED <<quiet, left>>
        /\ sincePing = PingEvery
    BY <1>6 DEF Ping
  <2>2. /\ DOMAIN toRelay' = 1..(Len(toRelay) + 1) /\ toRelay'[Len(toRelay) + 1] = "PING"
        /\ \A j \in DOMAIN toRelay : toRelay'[j] = toRelay[j]
    BY <1>1, <2>1 DEF Frames
  <2>3. ASSUME NEW k \in DOMAIN toRelay', FirstPing(k)'
        PROVE  quiet' + left' + DialTimeout * (k - 1) <= PingEvery + C
    <3>1. CASE k \in DOMAIN toRelay
      <4>1. FirstPing(k)
        BY <1>1, <2>2, <2>3, <3>1 DEF FirstPing
      <4> QED
        BY <1>3, <2>1, <3>1, <4>1
    <3>2. CASE k = Len(toRelay) + 1
      <4>1. \A j \in DOMAIN toRelay : j < k => toRelay[j] = "OPEN"
        BY <1>1, <2>2, <2>3 DEF FirstPing
      <4>2. quiet <= PingEvery
        <5>1. \A j \in DOMAIN toRelay : toRelay[j] # "PING"
          BY <1>1, <3>2, <4>1
        <5> QED
          BY <1>1, <1>3, <2>1, <5>1
      <4>3. k \in 1..(Len(toRelay) + 1)
        BY <1>1, <3>2
      <4>4. left + DialTimeout * (k - 1) <= C /\ DialTimeout * (k - 1) \in Nat
        BY <1>1, <4>1, <4>3, BehindDials DEF C
      <4> QED
        BY <1>1, <2>1, <4>2, <4>4
    <3> QED
      BY <1>1, <2>2, <3>1, <3>2
  <2>4. \E k \in DOMAIN toRelay' : toRelay'[k] = "PING"
    BY <1>1, <2>2
  <2> QED
    BY <2>3, <2>4
<1>7. CASE ReadPing
  <2>1. /\ ~dialing /\ toRelay' = Tail(toRelay) /\ toRelay # <<>>
        /\ quiet' = 0 /\ left' = 0 /\ UNCHANGED <<sincePing, dialing>>
    BY <1>7, <1>1 DEF ReadPing, readable, d
  <2>2. Cardinality(Opens(toRelay')) + 0 <= Burst
    BY <1>1, <2>1, OpensFinite DEF TypeOK, Opening
  <2>3. ASSUME NEW k \in DOMAIN toRelay', FirstPing(k)'
        PROVE  quiet' + left' + DialTimeout * (k - 1) <= PingEvery + C
    <3>1. k \in 1..(Len(toRelay') + 1) /\ \A j \in DOMAIN toRelay' : j < k => toRelay'[j] = "OPEN"
      BY <1>1, <2>3 DEF FirstPing, Frames
    <3>2. 0 \in 0..DialTimeout /\ 0 \in {0, 1}
      OBVIOUS
    <3>3. 0 + DialTimeout * (k - 1) <= C /\ DialTimeout * (k - 1) \in Nat
      BY <1>1, <2>2, <3>1, <3>2, BehindDials DEF C
    <3> QED
      BY <1>1, <2>1, <3>3
  <2> QED
    BY <1>1, <2>1, <2>3
<1>8. CASE ReadOpen
  <2>1. /\ toRelay' = Tail(toRelay) /\ toRelay # <<>> /\ Head(toRelay) = "OPEN"
        /\ left = 0 /\ left' = DialTimeout /\ UNCHANGED <<sincePing, quiet>>
    BY <1>8, <1>1 DEF ReadOpen, readable, d
  <2>2. /\ toRelay[1] = "OPEN" /\ DOMAIN toRelay' = 1..(Len(toRelay) - 1)
        /\ \A j \in DOMAIN toRelay' : j + 1 \in DOMAIN toRelay /\ toRelay'[j] = toRelay[j + 1]
        /\ \A j \in DOMAIN toRelay : j = 1 \/ j - 1 \in DOMAIN toRelay'
    BY <1>1, <2>1 DEF Frames
  <2>3. ASSUME NEW k \in DOMAIN toRelay', FirstPing(k)'
        PROVE  quiet' + left' + DialTimeout * (k - 1) <= PingEvery + C
    <3>1. k \in Nat /\ k - 1 \in Nat /\ k + 1 \in DOMAIN toRelay /\ toRelay[k + 1] = "PING"
      BY <1>1, <2>2, <2>3 DEF FirstPing
    <3>2. ASSUME NEW j \in DOMAIN toRelay, j < k + 1
          PROVE  toRelay[j] = "OPEN"
      <4>1. CASE j = 1
        BY <2>2, <4>1
      <4>2. CASE j - 1 \in DOMAIN toRelay'
        BY <1>1, <2>2, <2>3, <3>1, <3>2, <4>2 DEF FirstPing
      <4> QED
        BY <2>2, <4>1, <4>2
    <3>3. FirstPing(k + 1)
      BY <3>1, <3>2 DEF FirstPing
    <3>4. quiet + left + DialTimeout * k <= PingEvery + C
      <4>1. (k + 1) - 1 = k
        BY <3>1
      <4> QED
        BY <1>3, <3>1, <3>3, <4>1
    <3>5. DialTimeout * k = DialTimeout * (k - 1) + DialTimeout /\ DialTimeout * (k - 1) \in Nat
      <4>1. (k - 1) + 1 = k
        BY <3>1
      <4> QED
        BY <3>1, <4>1, Products
    <3> QED
      BY <1>1, <2>1, <3>4, <3>5
  <2>4. (\A k \in DOMAIN toRelay' : toRelay'[k] # "PING")
          => \A k \in DOMAIN toRelay : toRelay[k] # "PING"
    <3> SUFFICES ASSUME \A k \in DOMAIN toRelay' : toRelay'[k] # "PING", NEW k \in DOMAIN toRelay
                 PROVE  toRelay[k] # "PING"
      OBVIOUS
    <3>1. CASE k = 1
      BY <2>2, <3>1
    <3>2. CASE k - 1 \in DOMAIN toRelay'
      <4>1. (k - 1) + 1 = k
        BY <1>1
      <4> QED
        BY <2>2, <3>2, <4>1
    <3> QED
      BY <2>2, <3>1, <3>2
  <2> QED
    BY <1>3, <2>1, <2>3, <2>4
<1>9. CASE DialOK \/ DialFails
  <2>1. /\ UNCHANGED <<toRelay, sincePing>> /\ left' = 0 /\ quiet' \in {0, quiet}
    BY <1>9 DEF DialOK, DialFails
  <2>2. \A k \in DOMAIN toRelay' : FirstPing(k)' => FirstPing(k)
    BY <2>1 DEF FirstPing
  <2> QED
    BY <1>1, <1>3, <1>4, <2>1, <2>2
<1>10. CASE Tick
  <2>1. /\ UNCHANGED <<toRelay, dialing>>
        /\ sincePing' = sincePing + 1 /\ quiet' = quiet + 1
        /\ left' = IF dialing THEN left - 1 ELSE left
    BY <1>2, <1>10 DEF Tick
  <2>2. toRelay # <<>> => dialing
    BY <1>2, <1>10 DEF Tick, relayWaits, readable
  <2>3. \A k \in DOMAIN toRelay' : FirstPing(k)' => FirstPing(k)
    BY <2>1 DEF FirstPing
  <2>4. \A k \in DOMAIN toRelay : left' = left - 1
    BY <1>1, <2>1, <2>2 DEF Frames
  <2> QED
    BY <1>1, <1>3, <1>4, <2>1, <2>3, <2>4
<1>11. CASE HostGivesUp \/ RelayGivesUp \/ HostVanishes \/ RelayVanishes
  BY <1>11 DEF HostGivesUp, RelayGivesUp, HostVanishes, RelayVanishes
<1>12. CASE UNCHANGED vars
  <2>1. \A k \in DOMAIN toRelay' : FirstPing(k)' => FirstPing(k)
    BY <1>12 DEF FirstPing, vars
  <2> QED
    BY <1>3, <1>12, <2>1 DEF vars
<1> QED
  BY <1>5, <1>6, <1>7, <1>8, <1>9, <1>10, <1>11, <1>12 DEF Next

\* A dial has time left only while it goes on, and a PING resets the relay's deadline.
LEMMA RelayClockStep ==
  ASSUME TypeOK, dialing \/ left = 0, PingCame, [Next]_vars
  PROVE  (dialing' \/ left' = 0) /\ PingCame'
<1>1. /\ sincePing \in 0..PingEvery /\ idle \in 0..IdleTimeout /\ toRelay \in Frames
      /\ dialing \in BOOLEAN
  BY DEF TypeOK, Frames
<1>2. CASE OpenClientStream \/ Ping
  <2>1. UNCHANGED <<dialing, left>> /\ toRelay' # <<>>
    BY <1>1, <1>2 DEF OpenClientStream, Ping, Frames
  <2> QED
    BY <2>1 DEF PingCame
<1>3. CASE ReadPing \/ DialOK \/ DialFails
  <2>1. left' = 0 \/ UNCHANGED <<dialing, left>>
    BY <1>3 DEF ReadPing, DialOK, DialFails
  <2>2. idle' = 0 /\ sincePing' = sincePing
    BY <1>3 DEF ReadPing, DialOK, DialFails
  <2>3. idle' <= sincePing'
    BY <1>1, <2>2, ClocksAssumption DEF ClocksAssumption
  <2> QED
    BY <2>1, <2>3 DEF PingCame
<1>4. CASE ReadOpen
  BY <1>4 DEF ReadOpen, PingCame
<1>5. CASE Tick
  <2>1. UNCHANGED <<toRelay, dialing, host, relay>>
    BY <1>5 DEF Tick
  <2>2. left' = 0 \/ dialing'
    BY <1>5, <2>1 DEF Tick
  <2>3. ASSUME host' = "up", ~dialing', toRelay' = <<>>
        PROVE  idle' <= sincePing'
    <3>1. host = "up" /\ ~dialing /\ idle <= sincePing
      BY <2>1, <2>3 DEF PingCame
    <3>2. hostRuns
      BY <1>5, <3>1 DEF Tick, hostRuns, relayRuns
    <3>3. sincePing' = sincePing + 1 /\ idle' \in {idle, idle + 1}
      BY <1>5, <3>2 DEF Tick
    <3> QED
      BY <1>1, <3>1, <3>3, ClocksAssumption DEF ClocksAssumption
  <2> QED
    BY <2>2, <2>3 DEF PingCame
<1>6. CASE HostGivesUp \/ HostVanishes
  BY <1>6 DEF HostGivesUp, HostVanishes, PingCame
<1>7. CASE RelayGivesUp \/ RelayVanishes
  BY <1>7 DEF RelayGivesUp, RelayVanishes, PingCame
<1>8. CASE UNCHANGED vars
  BY <1>8 DEF vars, PingCame
<1> QED
  BY <1>2, <1>3, <1>4, <1>5, <1>6, <1>7, <1>8 DEF Next

\* With the margins, who gives up has a peer that is gone.
LEMMA DeathStep ==
  ASSUME Margins, TypeOK, PongComes, PingCame, NoFalseDeath, [Next]_vars
  PROVE  NoFalseDeath'
<1> USE ClocksAssumption DEF ClocksAssumption
<1>1. /\ sincePing \in 0..PingEvery /\ quiet \in 0..ReadIdle /\ idle \in 0..IdleTimeout
      /\ toRelay \in Frames /\ left \in 0..DialTimeout
      /\ host \in {"up", "gone", "gaveUp"} /\ relay \in {"up", "gone", "gaveUp"}
      /\ DialTimeout * Burst \in Nat
  BY Products DEF TypeOK, Frames
<1>2. CASE HostGivesUp
  <2>1. /\ host = "up" /\ relay # "gaveUp" /\ quiet = ReadIdle
        /\ host' = "gaveUp" /\ relay' = relay
    BY <1>2 DEF HostGivesUp, hostRuns
  <2>2. ASSUME relay = "up" PROVE FALSE
    <3>1. CASE \A k \in DOMAIN toRelay : toRelay[k] # "PING"
      <4>1. quiet <= sincePing
        BY <2>1, <2>2, <3>1 DEF PongComes
      <4> QED
        BY <1>1, <2>1, <4>1 DEF Margins
    <3>2. CASE \E k \in DOMAIN toRelay : toRelay[k] = "PING"
      <4>1. PICK k \in DOMAIN toRelay : FirstPing(k)
        BY <1>1, <3>2, SomeFirst
      <4>2. k - 1 \in Nat
        BY <1>1 DEF Frames
      <4>3. DialTimeout * (k - 1) \in Nat
        BY <4>2, Products
      <4>4. quiet + left + DialTimeout * (k - 1) <= PingEvery + DialTimeout * Burst
        BY <2>1, <2>2, <4>1 DEF PongComes
      <4> HIDE DEF FirstPing
      <4> QED
        BY <1>1, <2>1, <4>3, <4>4 DEF Margins
    <3> QED
      BY <3>1, <3>2
  <2> QED
    BY <1>1, <2>1, <2>2 DEF NoFalseDeath, SilentIsDead
<1>3. CASE RelayGivesUp
  <2>1. /\ relay = "up" /\ host # "gaveUp" /\ idle = IdleTimeout
        /\ ~dialing /\ toRelay = <<>> /\ relay' = "gaveUp" /\ host' = host
    BY <1>3 DEF RelayGivesUp, relayRuns
  <2>2. ASSUME host = "up" PROVE FALSE
    <3>1. idle <= sincePing
      BY <2>1, <2>2 DEF PingCame
    <3> QED
      BY <1>1, <2>1, <3>1 DEF Margins
  <2> QED
    BY <1>1, <2>1, <2>2 DEF NoFalseDeath, SilentIsDead
<1>4. CASE HostVanishes
  BY <1>4 DEF HostVanishes, hostRuns, NoFalseDeath, SilentIsDead
<1>5. CASE RelayVanishes
  BY <1>5 DEF RelayVanishes, relayRuns, NoFalseDeath, SilentIsDead
<1>6. CASE UNCHANGED <<host, relay>>
  BY <1>6 DEF NoFalseDeath, SilentIsDead
<1> QED
  BY <1>2, <1>3, <1>4, <1>5, <1>6
     DEF Next, OpenClientStream, Ping, ReadPing, ReadOpen, DialOK, DialFails, Tick, vars
-----------------------------------------------------------------------------
(* The theorems. *)

\* Nothing waits, all clocks are at zero and both ends are up.
LEMMA InitInvariant == Init => IInv
<1> SUFFICES ASSUME Init PROVE IInv
  OBVIOUS
<1> USE ClocksAssumption DEF ClocksAssumption
<1>1. /\ sincePing = 0 /\ quiet = 0 /\ idle = 0 /\ left = 0
      /\ toRelay = <<>> /\ dialing = FALSE /\ host = "up" /\ relay = "up" /\ goneFor = 0
  BY DEF Init
<1>2. toRelay \in Frames /\ DOMAIN toRelay = {} /\ Opens(toRelay) = {}
  BY <1>1 DEF Frames, Opens
<1>3. Opening = 0
  BY <1>1, <1>2, FS_EmptySet DEF Opening
<1>4. TypeOK
  <2>1. /\ sincePing \in 0..PingEvery /\ quiet \in 0..ReadIdle /\ idle \in 0..IdleTimeout
        /\ left \in 0..DialTimeout /\ Opening <= Burst
    BY <1>1, <1>3
  <2>2. dialing \in BOOLEAN
    BY <1>1, Zenon
  <2>3. host \in {"up", "gone", "gaveUp"} /\ relay \in {"up", "gone", "gaveUp"}
    BY <1>1
  <2>4. goneFor \in Nat
    BY <1>1
  <2> QED
    BY <1>2, <2>1, <2>2, <2>3, <2>4, Zenon DEF TypeOK, Frames
<1>5. PongComes
  BY <1>1, <1>2 DEF PongComes
<1>6. PingCame /\ NoFalseDeath /\ (dialing \/ left = 0)
  BY <1>1 DEF PingCame, NoFalseDeath, SilentIsDead
<1> QED
  BY <1>4, <1>5, <1>6 DEF IInv

\* The clocks stay within their deadlines, whatever the timings are (link.go, session.go:
\* the timings).
THEOREM TypeCorrect == Spec => []TypeOK
<1>1. Init => TypeOK
  BY InitInvariant DEF IInv
<1> QED
  BY <1>1, TypesStep, PTL DEF Spec

\* For all timings that leave room for a ping interval and a dial per opening stream, no
\* end gives up a peer that is alive (link.go: pingEvery, readIdle; session.go:
\* idleTimeout, the dial in the read loop).
THEOREM GivesUpTheDeadOnly ==
  ASSUME Margins
  PROVE  Spec => []NoFalseDeath
<1>1. IInv /\ [Next]_vars => IInv'
  <2> SUFFICES ASSUME IInv, [Next]_vars PROVE IInv'
    OBVIOUS
  <2>1. TypeOK'
    BY TypesStep DEF IInv
  <2>2. PongComes'
    BY <2>1, PongStep DEF IInv
  <2>3. (dialing' \/ left' = 0) /\ PingCame'
    BY RelayClockStep DEF IInv
  <2>4. NoFalseDeath'
    BY DeathStep DEF IInv
  <2> QED
    BY <2>1, <2>2, <2>3, <2>4 DEF IInv
<1>2. IInv => NoFalseDeath
  BY DEF IInv
<1> QED
  BY <1>1, <1>2, InitInvariant, PTL DEF Spec
-----------------------------------------------------------------------------
(* Vanished ends are noticed in time. *)

\* What is still before the relay when the host is gone: the dials of the streams that were
\* being opened, and after them an idle deadline, of which less is left if it waits.
Rest == IF dialing \/ toRelay # <<>> THEN IdleTimeout ELSE IdleTimeout - idle
StillDue == left + DialTimeout * Cardinality(Opens(toRelay)) + Rest

Noticing ==
  /\ dialing \/ left = 0
  /\ relay = "gone" /\ hostRuns => goneFor <= quiet
  /\ host = "gone" /\ relayRuns => goneFor + StillDue <= IdleTimeout + DialTimeout * Burst

\* The dials before the relay take no longer than one for every stream that may be opening.
LEMMA DialsWithinBurst ==
  ASSUME NEW q \in Frames, NEW d \in BOOLEAN, NEW l \in 0..DialTimeout, d \/ l = 0,
         Cardinality(Opens(q)) + (IF d THEN 1 ELSE 0) <= Burst
  PROVE  /\ DialTimeout * Cardinality(Opens(q)) \in Nat /\ DialTimeout * Burst \in Nat
         /\ l + DialTimeout * Cardinality(Opens(q)) <= DialTimeout * Burst
<1> USE ClocksAssumption DEF ClocksAssumption
<1> DEFINE n == Cardinality(Opens(q))
<1>1. n \in Nat /\ n + 1 \in Nat
  BY OpensFinite
<1>2. DialTimeout * n \in Nat /\ DialTimeout * (n + 1) = DialTimeout * n + DialTimeout
      /\ DialTimeout * Burst \in Nat
  BY <1>1, Products
<1>3. CASE d
  <2>1. DialTimeout * (n + 1) <= DialTimeout * Burst
    BY <1>1, <1>3, Products
  <2> QED
    BY <1>1, <1>2, <2>1
<1>4. CASE ~d
  <2>1. DialTimeout * n <= DialTimeout * Burst
    BY <1>1, <1>4, Products
  <2> QED
    BY <1>1, <1>2, <1>4, <2>1
<1> QED
  BY <1>3, <1>4

\* An end that has vanished stays away, time brings the other nearer to its deadline, and
\* nothing else puts that off.
LEMMA NoticingStep ==
  ASSUME TypeOK, Noticing, [Next]_vars
  PROVE  Noticing'
<1> USE ClocksAssumption DEF ClocksAssumption
<1> DEFINE n == Cardinality(Opens(toRelay))
           Bound == IdleTimeout + DialTimeout * Burst
<1>1. /\ quiet \in 0..ReadIdle /\ idle \in 0..IdleTimeout /\ goneFor \in Nat
      /\ toRelay \in Frames /\ left \in 0..DialTimeout /\ dialing \in BOOLEAN
  BY DEF TypeOK, Frames
<1>2. n \in Nat /\ DialTimeout * n \in Nat /\ DialTimeout * Burst \in Nat
      /\ left + DialTimeout * n <= DialTimeout * Burst
  <2>1. n + (IF dialing THEN 1 ELSE 0) <= Burst
    BY DEF TypeOK, Opening
  <2>2. dialing \/ left = 0
    BY DEF Noticing
  <2> QED
    BY <1>1, <2>1, <2>2, OpensFinite, DialsWithinBurst
<1>3. Rest \in 0..IdleTimeout
  BY <1>1 DEF Rest
<1>4. CASE OpenClientStream \/ Ping \/ HostGivesUp
  BY <1>4 DEF Noticing, OpenClientStream, Ping, HostGivesUp, hostRuns, relayRuns
<1>5. CASE ReadPing
  <2>0. toRelay # <<>> /\ ~dialing /\ toRelay' = Tail(toRelay) /\ toRelay' \in Frames
        /\ Head(toRelay) # "OPEN"
    BY <1>1, <1>5 DEF ReadPing, readable, Frames
  <2>1. toRelay # <<>> /\ ~dialing /\ Cardinality(Opens(toRelay')) = n
    <3>1. Cardinality(Opens(toRelay')) \in Nat
      BY <2>0, OpensFinite
    <3> QED
      BY <1>1, <2>0, <3>1, OpensOfTail
  <2>2. Rest = IdleTimeout /\ Rest' \in 0..IdleTimeout
    BY <2>1, <1>5 DEF Rest, ReadPing
  <2>3. goneFor + left + DialTimeout * n + IdleTimeout <= Bound
        => goneFor + left + DialTimeout * n + Rest' <= Bound
    BY <1>1, <1>2, <2>2
  <2> QED
    BY <1>1, <1>2, <1>5, <2>1, <2>2, <2>3 DEF Noticing, ReadPing, StillDue, hostRuns, relayRuns
<1>6. CASE ReadOpen
  <2>0. toRelay # <<>> /\ ~dialing /\ toRelay' = Tail(toRelay) /\ toRelay' \in Frames
        /\ Head(toRelay) = "OPEN"
    BY <1>1, <1>6 DEF ReadOpen, readable, Frames
  <2>1. /\ toRelay # <<>> /\ ~dialing
        /\ Cardinality(Opens(toRelay')) + 1 = n /\ Cardinality(Opens(toRelay')) \in Nat
    <3>1. Cardinality(Opens(toRelay')) \in Nat
      BY <2>0, OpensFinite
    <3> QED
      BY <1>1, <2>0, <3>1, OpensOfTail
  <2>2. DialTimeout * n = DialTimeout * Cardinality(Opens(toRelay')) + DialTimeout
        /\ DialTimeout * Cardinality(Opens(toRelay')) \in Nat
    BY <2>1, Products
  <2>3. Rest = IdleTimeout /\ Rest' = IdleTimeout /\ left = 0 /\ left' = DialTimeout
    BY <1>6, <2>1 DEF Rest, ReadOpen, Noticing
  <2>4. StillDue' = StillDue
    BY <1>1, <2>2, <2>3 DEF StillDue
  <2> QED
    BY <1>6, <2>4 DEF Noticing, ReadOpen, hostRuns, relayRuns
<1>7. CASE DialOK \/ DialFails
  <2>1. Rest = IdleTimeout /\ Rest' \in 0..IdleTimeout /\ left' = 0 /\ toRelay' = toRelay
    BY <1>7 DEF Rest, DialOK, DialFails
  <2>2. UNCHANGED <<goneFor, host, relay>> /\ relay = "up"
    BY <1>7 DEF DialOK, DialFails, relayRuns
  <2>3. goneFor + StillDue <= Bound => goneFor + StillDue' <= Bound
    BY <1>1, <1>2, <2>1 DEF StillDue
  <2> QED
    BY <2>1, <2>2, <2>3 DEF Noticing, hostRuns, relayRuns
<1>8. CASE RelayGivesUp
  BY <1>8 DEF Noticing, RelayGivesUp, hostRuns, relayRuns
<1>9. CASE HostVanishes
  <2>1. StillDue' = StillDue /\ UNCHANGED <<dialing, left, relay>> /\ host' = "gone" /\ goneFor' = 0
    BY <1>9 DEF HostVanishes, StillDue, Rest
  <2>2. 0 + StillDue <= Bound
    BY <1>1, <1>2, <1>3 DEF StillDue
  <2> QED
    BY <2>1, <2>2 DEF Noticing, hostRuns, relayRuns
<1>10. CASE RelayVanishes
  BY <1>1, <1>10 DEF Noticing, RelayVanishes, hostRuns, relayRuns
<1>11. CASE Tick
  <2>1. UNCHANGED <<toRelay, dialing, host, relay>>
    BY <1>11 DEF Tick
  <2>2. dialing' \/ left' = 0
    BY <1>11, <2>1 DEF Noticing, Tick
  <2>3. relay = "gone" /\ hostRuns => goneFor' = goneFor + 1 /\ quiet' = quiet + 1
    BY <1>11 DEF Tick
  <2>4. ASSUME host = "gone", relayRuns
        PROVE  goneFor' = goneFor + 1 /\ StillDue' = StillDue - 1
    <3>1. goneFor' = goneFor + 1
      BY <1>11, <2>4 DEF Tick
    <3>2. CASE dialing
      BY <1>1, <1>2, <1>11, <2>1, <2>4, <3>2 DEF Tick, relayWaits, StillDue, Rest
    <3>3. CASE ~dialing
      BY <1>1, <1>2, <1>11, <2>1, <2>4, <3>3 DEF Tick, relayWaits, readable, StillDue, Rest
    <3> QED
      BY <3>1, <3>2, <3>3
  <2>5. StillDue \in Nat
    BY <1>1, <1>2, <1>3 DEF StillDue
  <2> QED
    BY <1>1, <1>2, <2>1, <2>2, <2>3, <2>4, <2>5 DEF Noticing, hostRuns, relayRuns
<1>12. CASE UNCHANGED vars
  BY <1>12 DEF Noticing, StillDue, Rest, vars, hostRuns, relayRuns
<1> QED
  BY <1>4, <1>5, <1>6, <1>7, <1>8, <1>9, <1>10, <1>11, <1>12 DEF Next

\* For all timings whatsoever: the launcher outlives its relay by a read deadline at most,
\* the relay its launcher by the idle deadline and a dial for each stream that was being
\* opened; then the port and the slot are free (session.go: idleTimeout, readTunnel).
THEOREM VanishedNoticedInTime == Spec => []NoticedInTime
<1>1. Init => TypeOK /\ Noticing
  BY InitInvariant DEF IInv, Noticing, Init
<1>2. TypeOK /\ Noticing /\ [Next]_vars => TypeOK' /\ Noticing'
  BY TypesStep, NoticingStep
<1>3. TypeOK /\ Noticing => NoticedInTime
  <2> SUFFICES ASSUME TypeOK, Noticing PROVE NoticedInTime
    OBVIOUS
  <2>1. Cardinality(Opens(toRelay)) \in Nat /\ left \in Nat /\ Rest \in Nat
    BY OpensFinite, ClocksAssumption DEF TypeOK, Frames, Rest, ClocksAssumption
  <2>2. DialTimeout * Cardinality(Opens(toRelay)) \in Nat /\ DialTimeout * Burst \in Nat
    BY <2>1, Products, ClocksAssumption DEF ClocksAssumption
  <2> QED
    BY <2>1, <2>2, ClocksAssumption DEF NoticedInTime, Noticing, StillDue, TypeOK, ClocksAssumption
<1> QED
  BY <1>1, <1>2, <1>3, PTL DEF Spec
-----------------------------------------------------------------------------
(* The ids: frames that wait, and the invariants. *)

FrameSet == [type : {"OPEN", "CLOSE"}, stream : Streams]
\* A frame waits on a way, and waits there only once.
In(f, s) == \E p \in 1..Len(s) : s[p] = f
Once(f, s) == \A p, q \in 1..Len(s) : s[p] = f /\ s[q] = f => p = q

Typed ==
  /\ kind \in {"client", "joiner"}
  /\ opened \in 0..NStreams /\ next \in Ids /\ idOf \in [Streams -> Ids]
  /\ here \in [Ids -> Streams \cup {None}] /\ there \in [Ids -> Streams \cup {None}]
  /\ owner \in [Streams -> {"none", "open", "live", "remove", "done"}]
  /\ shut \subseteq Streams
  /\ pump \in [Streams -> {"none", "announce", "read", "bye", "remove", "done"}]
  /\ sock \in [Streams -> {"none", "open", "closed"}]
  /\ up \in Seq(FrameSet) /\ down \in Seq(FrameSet)

\* The launcher opens: of each stream one answer is due, and until it has come the id
\* is the stream's in the launcher's map.
Awaited(n) ==
  \/ owner[n] = "open" \/ pump[n] \in {"read", "bye"}
  \/ In(Frame("OPEN", n), up) \/ In(Frame("CLOSE", n), down)
OneAnswer(n) ==
  /\ pump[n] # "announce" /\ owner[n] # "remove" /\ ~In(Frame("OPEN", n), down)
  /\ n > opened => owner[n] = "none"
  /\ owner[n] \in {"none", "open"}
       => pump[n] = "none" /\ ~In(Frame("OPEN", n), up) /\ ~In(Frame("CLOSE", n), down)
  /\ In(Frame("OPEN", n), up) => pump[n] = "none" /\ ~In(Frame("CLOSE", n), down)
  /\ In(Frame("CLOSE", n), down) => pump[n] \notin {"read", "bye"}
  /\ Once(Frame("OPEN", n), up) /\ Once(Frame("CLOSE", n), down)
KeptHere(n) == Awaited(n) => here[idOf[n]] = n
Served(i) ==
  there[i] # None => idOf[there[i]] = i /\ pump[there[i]] \in {"read", "bye", "remove"}
Client ==
  /\ \A n \in Streams : OneAnswer(n) /\ KeptHere(n)
  /\ \A i \in Ids : Served(i)

\* The relay opens: a joiner that its map has lost has a closed socket, as has every one whose
\* id has been given again; the launcher hears of joiners in the order of their coming.
Joined(n) ==
  /\ owner[n] # "open" /\ ~In(Frame("OPEN", n), up)
  /\ In(Frame("OPEN", n), down) => n <= opened
  /\ pump[n] = "announce"
       => n = opened /\ ~In(Frame("OPEN", n), down) /\ \A i \in Ids : here[i] # n
  /\ n <= opened /\ there[idOf[n]] # n => sock[n] = "closed"
  /\ \A m \in Streams : m < n /\ n <= opened /\ idOf[m] = idOf[n] => there[idOf[m]] # m
InTurn ==
  \A p, q \in 1..Len(down) : p < q /\ down[p].type = "OPEN" /\ down[q].type = "OPEN"
                               => down[p].stream < down[q].stream
Met(i) ==
  here[i] # None
    => /\ idOf[here[i]] = i /\ here[i] <= opened
       /\ \A p \in 1..Len(down) : down[p].type = "OPEN" => here[i] < down[p].stream
Joiner == (\A n \in Streams : Joined(n)) /\ InTurn /\ \A i \in Ids : Met(i)

IdsInv ==
  /\ Typed
  /\ kind = "client" => Client
  /\ kind = "joiner" => Joiner
-----------------------------------------------------------------------------
(* Frames on the way. *)

\* A sequence with one more at its end.
LEMMA Appended ==
  ASSUME NEW S, NEW s \in Seq(S), NEW f \in S
  PROVE  /\ Append(s, f) \in Seq(S) /\ Len(Append(s, f)) = Len(s) + 1
         /\ \A p \in 1..Len(s) : Append(s, f)[p] = s[p]
         /\ Append(s, f)[Len(s) + 1] = f
         /\ \A g : In(g, Append(s, f)) <=> In(g, s) \/ g = f
         /\ \A g : Once(g, s) /\ (g = f => ~In(f, s)) => Once(g, Append(s, f))
<1>1. /\ Append(s, f) \in Seq(S) /\ Len(Append(s, f)) = Len(s) + 1 /\ Len(s) \in Nat
      /\ \A p \in 1..Len(s) : Append(s, f)[p] = s[p]
      /\ Append(s, f)[Len(s) + 1] = f
  BY AppendProperties, LenProperties
<1>2. \A p \in 1..Len(Append(s, f)) : p \in 1..Len(s) \/ p = Len(s) + 1
  BY <1>1
<1>3. 1..Len(s) \subseteq 1..Len(Append(s, f)) /\ Len(s) + 1 \in 1..Len(Append(s, f))
  BY <1>1
<1> DEFINE t == Append(s, f)
<1>4. ASSUME NEW g PROVE In(g, t) <=> In(g, s) \/ g = f
  <2>1. In(g, t) => In(g, s) \/ g = f
    BY <1>1, <1>2 DEF In
  <2>2. In(g, s) => In(g, t)
    BY <1>1, <1>3 DEF In
  <2>3. g = f => In(g, t)
    BY <1>1, <1>3 DEF In
  <2> QED
    BY <2>1, <2>2, <2>3
<1>5. ASSUME NEW g, Once(g, s), g = f => ~In(f, s) PROVE Once(g, t)
  <2> SUFFICES ASSUME NEW p \in 1..Len(t), NEW q \in 1..Len(t), t[p] = g, t[q] = g PROVE p = q
    BY DEF Once
  <2>1. CASE p \in 1..Len(s) /\ q \in 1..Len(s)
    BY <1>1, <1>5, <2>1 DEF Once
  <2>2. CASE p = Len(s) + 1 /\ q = Len(s) + 1
    BY <2>2
  <2>3. CASE p \in 1..Len(s) /\ q = Len(s) + 1
    BY <1>1, <1>5, <2>3 DEF In
  <2>4. CASE q \in 1..Len(s) /\ p = Len(s) + 1
    BY <1>1, <1>5, <2>4 DEF In
  <2> QED
    BY <1>2, <2>1, <2>2, <2>3, <2>4
<1> QED
  BY <1>1, <1>4, <1>5

\* A sequence without its head.
LEMMA Taken ==
  ASSUME NEW S, NEW s \in Seq(S), s # <<>>
  PROVE  /\ Head(s) \in S /\ Tail(s) \in Seq(S) /\ Len(Tail(s)) = Len(s) - 1
         /\ 1 \in 1..Len(s) /\ s[1] = Head(s) /\ In(Head(s), s)
         /\ \A p \in 1..Len(Tail(s)) : p + 1 \in 1..Len(s) /\ Tail(s)[p] = s[p + 1]
         /\ \A g : In(g, Tail(s)) => In(g, s)
         /\ \A g : Once(g, s) => Once(g, Tail(s))
         /\ Once(Head(s), s) => ~In(Head(s), Tail(s))
<1>1. /\ Head(s) \in S /\ Tail(s) \in Seq(S) /\ Len(Tail(s)) = Len(s) - 1
      /\ s[1] = Head(s) /\ Len(s) \in Nat /\ Len(s) # 0
      /\ \A p \in 1..Len(Tail(s)) : Tail(s)[p] = s[p + 1]
  BY HeadTailProperties, LenProperties, EmptySeq
<1>2. 1 \in 1..Len(s) /\ \A p \in 1..Len(Tail(s)) : p \in Nat /\ p # 0 /\ p + 1 \in 1..Len(s)
  BY <1>1
<1>3. In(Head(s), s)
  BY <1>1, <1>2 DEF In
<1>4. \A g : In(g, Tail(s)) => In(g, s)
  BY <1>1, <1>2 DEF In
<1>5. ASSUME NEW g, Once(g, s) PROVE Once(g, Tail(s))
  <2> SUFFICES ASSUME NEW p \in 1..Len(Tail(s)), NEW q \in 1..Len(Tail(s)), Tail(s)[p] = g,
                      Tail(s)[q] = g
               PROVE  p = q
    BY DEF Once
  <2>1. p + 1 = q + 1
    BY <1>1, <1>2, <1>5 DEF Once
  <2> QED
    BY <1>2, <2>1
<1>6. ASSUME Once(Head(s), s) PROVE ~In(Head(s), Tail(s))
  <2> SUFFICES ASSUME NEW p \in 1..Len(Tail(s)), Tail(s)[p] = Head(s) PROVE FALSE
    BY DEF In
  <2>1. p + 1 = 1
    BY <1>1, <1>2, <1>6 DEF Once
  <2> QED
    BY <1>2, <2>1
<1> QED
  BY <1>1, <1>2, <1>3, <1>4, <1>5, <1>6

\* A frame is its type and its stream.
LEMMA FrameReads ==
  /\ \A n \in Streams : Frame("OPEN", n) \in FrameSet /\ Frame("CLOSE", n) \in FrameSet
  /\ \A m, n \in Streams : /\ Frame("OPEN", m) = Frame("OPEN", n) <=> m = n
                           /\ Frame("CLOSE", m) = Frame("CLOSE", n) <=> m = n
                           /\ Frame("OPEN", m) # Frame("CLOSE", n)
  /\ \A t, n : Frame(t, n).type = t /\ Frame(t, n).stream = n
  /\ \A f \in FrameSet : f.stream \in Streams /\ f = Frame(f.type, f.stream)
BY DEF Frame, FrameSet
-----------------------------------------------------------------------------
(* The next free id. *)

\* There are NIds ids.
LEMMA IdsAreFinite == IsFiniteSet(Ids) /\ Cardinality(Ids) = NIds /\ Ids \subseteq Nat /\ 0 \in Ids
<1>1. NIds \in Nat /\ NIds # 0 /\ Ids = 0..(NIds - 1)
  BY IdsAssumption DEF IdsAssumption, Ids
<1>2. IsFiniteSet(Ids) /\ Cardinality(Ids) = NIds
  BY <1>1, FS_Interval
<1> QED
  BY <1>1, <1>2

\* The id is at most one round away.
LEMMA OneRound ==
  ASSUME NEW i \in Ids, next \in Ids
  PROVE  \E k \in Ids : (next + k) % NIds = i
<1>1. NIds \in Nat /\ NIds # 0 /\ Ids = 0..(NIds - 1)
  BY IdsAssumption DEF IdsAssumption, Ids
<1>2. CASE i >= next
  <2>1. i - next \in Ids /\ next + (i - next) = i
    BY <1>1, <1>2
  <2>2. i % NIds = i
    BY <1>1
  <2> QED
    BY <2>1, <2>2
<1>3. CASE i < next
  <2>1. i - next + NIds \in Ids /\ next + (i - next + NIds) = i + NIds
    BY <1>1, <1>3
  <2>2. (i + NIds) % NIds = i
    BY <1>1
  <2> QED
    BY <2>1, <2>2
<1> QED
  BY <1>1, <1>2, <1>3

\* The search of the next id finds a free one, as there are more ids than live streams.
LEMMA FreeIdIsFree ==
  ASSUME NEW map \in [Ids -> Streams \cup {None}], next \in Ids, Cardinality(Live(map)) < MaxLive
  PROVE  FreeId(map) \in Ids /\ map[FreeId(map)] = None
<1> DEFINE after(k) == (next + k) % NIds
           Free == {k \in Ids : map[after(k)] = None}
           LessThan == {ss \in Nat \X Nat : ss[1] < ss[2]}
           First(k) == map[after(k)] = None /\ \A j \in Ids : j < k => map[after(j)] # None
<1>1. PICK i \in Ids : map[i] = None
  <2>1. CASE Live(map) = Ids
    <3>1. NIds < MaxLive /\ MaxLive <= NIds /\ MaxLive \in Nat /\ NIds \in Nat
      BY <2>1, IdsAreFinite, IdsAssumption DEF IdsAssumption
    <3> QED
      BY <3>1
  <2>2. CASE Live(map) # Ids
    BY <2>2 DEF Live
  <2> QED
    BY <2>1, <2>2
<1>2. Free # {} /\ Free \subseteq Nat
  BY <1>1, OneRound, IdsAreFinite
<1>3. PICK k \in Free : \A j \in Free : <<j, k>> \notin LessThan
  <2>1. IsWellFoundedOn(LessThan, Nat)
    BY NatLessThanWellFounded, Zenon DEF OpToRel
  <2> HIDE DEF LessThan, Free
  <2> QED
    BY <1>2, <2>1, WFMin
<1>4. \A j \in Free : ~(j < k)
  BY <1>2, <1>3
<1>5. k \in Ids /\ First(k)
  BY <1>4
<1> DEFINE steps == CHOOSE c \in Ids : First(c)
<1>6. steps \in Ids /\ First(steps)
  BY <1>5
<1>7. FreeId(map) = after(steps)
  BY DEF FreeId
<1>8. after(steps) \in Ids
  <2>1. steps \in Nat /\ next \in Nat /\ NIds \in Nat \ {0}
    BY <1>6, IdsAreFinite, IdsAssumption DEF IdsAssumption
  <2> HIDE DEF steps
  <2>2. next + steps \in Nat
    BY <2>1
  <2>3. after(steps) \in 0..(NIds - 1)
    BY <2>1, <2>2
  <2> QED
    BY <2>3 DEF Ids
<1> QED
  BY <1>6, <1>7, <1>8
-----------------------------------------------------------------------------
(* Types. *)

\* Streams are numbered from one.
LEMMA NoneIsNoStream ==
  None \notin Streams /\ \A n \in Streams : n \in Nat /\ n # 0 /\ n <= NStreams
BY IdsAssumption DEF IdsAssumption, None, Streams

\* A stream that is opened is a new one, and its id was free in the map of its end.
LEMMA IdTaken ==
  ASSUME Typed, NEW map \in [Ids -> Streams \cup {None}], TakesId(map)
  PROVE  /\ opened' = opened + 1 /\ opened' \in Streams /\ opened' \in 0..NStreams
         /\ FreeId(map) \in Ids /\ map[FreeId(map)] = None /\ next' \in Ids
         /\ idOf' \in [Streams -> Ids] /\ idOf' = [idOf EXCEPT ![opened'] = FreeId(map)]
         /\ idOf'[opened'] = FreeId(map) /\ kind' = kind
<1>1. /\ opened' = opened + 1 /\ opened < NStreams /\ Cardinality(Live(map)) < MaxLive
      /\ idOf' = [idOf EXCEPT ![opened'] = FreeId(map)] /\ next' = (FreeId(map) + 1) % NIds
      /\ kind' = kind
  BY DEF TakesId
<1>2. NStreams \in Nat /\ opened \in Nat /\ NIds \in Nat \ {0} /\ next \in Ids
      /\ idOf \in [Streams -> Ids]
  BY IdsAssumption DEF IdsAssumption, Typed
<1>3. opened' \in Streams /\ opened' \in 0..NStreams
  BY <1>1, <1>2 DEF Streams
<1>4. FreeId(map) \in Ids /\ map[FreeId(map)] = None
  BY <1>1, <1>2, FreeIdIsFree
<1>5. next' \in Ids
  <2>1. FreeId(map) \in Nat
    BY <1>4, IdsAreFinite
  <2>2. FreeId(map) + 1 \in Nat
    BY <2>1
  <2> QED
    BY <1>1, <1>2, <2>2 DEF Ids
<1> QED
  BY <1>1, <1>2, <1>3, <1>4, <1>5

\* What demux takes is the first frame on its way down.
LEMMA Arrives ==
  ASSUME Typed, NEW type, DemuxTakes(type)
  PROVE  /\ Arrived \in Streams /\ Head(down) = Frame(type, Arrived) /\ down # <<>>
         /\ down' = Tail(down) /\ down' \in Seq(FrameSet)
         /\ UNCHANGED <<kind, opened, next, idOf, there, pump, sock>>
<1>1. down \in Seq(FrameSet) /\ down # <<>> /\ Head(down).type = type /\ down' = Tail(down)
  BY DEF Typed, DemuxTakes
<1>2. Head(down) \in FrameSet /\ Tail(down) \in Seq(FrameSet)
  BY <1>1, Taken
<1> QED
  BY <1>1, <1>2, FrameReads DEF DemuxTakes, Arrived, counters

\* What the relay reads is the first frame on its way up.
LEMMA Reads ==
  ASSUME Typed, NEW type, ReaderTakes(type)
  PROVE  /\ Sent \in Streams /\ Head(up) = Frame(type, Sent) /\ up # <<>>
         /\ up' = Tail(up) /\ up' \in Seq(FrameSet)
         /\ UNCHANGED <<kind, opened, next, idOf, here, owner, shut>>
<1>1. up \in Seq(FrameSet) /\ up # <<>> /\ Head(up).type = type /\ up' = Tail(up)
  BY DEF Typed, ReaderTakes
<1>2. Head(up) \in FrameSet /\ Tail(up) \in Seq(FrameSet)
  BY <1>1, Taken
<1> QED
  BY <1>1, <1>2, FrameReads DEF ReaderTakes, Sent

\* The ids' variables keep their types.
LEMMA TypedStep ==
  ASSUME Typed, [IdsNext]_idVars
  PROVE  Typed'
<1> USE DEF counters, ends
<1>a. /\ here \in [Ids -> Streams \cup {None}] /\ there \in [Ids -> Streams \cup {None}]
      /\ idOf \in [Streams -> Ids] /\ up \in Seq(FrameSet) /\ down \in Seq(FrameSet)
      /\ owner \in [Streams -> {"none", "open", "live", "remove", "done"}]
      /\ pump \in [Streams -> {"none", "announce", "read", "bye", "remove", "done"}]
      /\ sock \in [Streams -> {"none", "open", "closed"}] /\ shut \subseteq Streams
  BY DEF Typed
<1>b. \A n \in Streams : /\ Append(up, Frame("OPEN", n)) \in Seq(FrameSet)
                         /\ Append(up, Frame("CLOSE", n)) \in Seq(FrameSet)
                         /\ Append(down, Frame("OPEN", n)) \in Seq(FrameSet)
                         /\ Append(down, Frame("CLOSE", n)) \in Seq(FrameSet)
  BY <1>a, FrameReads, Appended
<1>c. ASSUME NEW n \in Streams, CloseStream(n)
      PROVE  here' \in [Ids -> Streams \cup {None}] /\ shut' \subseteq Streams
  BY <1>a, <1>c DEF CloseStream
<1>d. ASSUME NEW n \in Streams, CloseConn(n)
      PROVE  there' \in [Ids -> Streams \cup {None}]
             /\ sock' \in [Streams -> {"none", "open", "closed"}]
  BY <1>a, <1>d DEF CloseConn
<1>1. CASE OpenClient
  <2>1. TakesId(here) /\ here' = [here EXCEPT ![idOf'[opened']] = opened']
        /\ owner' = [owner EXCEPT ![opened'] = "open"]
        /\ UNCHANGED <<there, shut, pump, sock, up, down>>
    BY <1>1 DEF OpenClient
  <2>2. opened' \in Streams /\ idOf'[opened'] \in Ids /\ kind' = kind /\ opened' \in 0..NStreams
        /\ next' \in Ids /\ idOf' \in [Streams -> Ids]
    BY <1>a, <2>1, IdTaken
  <2> QED
    BY <1>a, <2>1, <2>2 DEF Typed
<1>2. CASE AdmitJoiner
  <2>1. TakesId(there) /\ there' = [there EXCEPT ![idOf'[opened']] = opened']
        /\ sock' = [sock EXCEPT ![opened'] = "open"]
        /\ pump' = [pump EXCEPT ![opened'] = "announce"]
        /\ UNCHANGED <<here, owner, shut, up, down>>
    BY <1>2 DEF AdmitJoiner
  <2>2. opened' \in Streams /\ idOf'[opened'] \in Ids /\ kind' = kind /\ opened' \in 0..NStreams
        /\ next' \in Ids /\ idOf' \in [Streams -> Ids]
    BY <1>a, <2>1, IdTaken
  <2> QED
    BY <1>a, <2>1, <2>2 DEF Typed
<1>3. CASE DemuxOpen
  <2>1. DemuxTakes("OPEN") /\ UNCHANGED shut
    BY <1>3 DEF DemuxOpen
  <2>2. Arrived \in Streams /\ down' \in Seq(FrameSet)
        /\ UNCHANGED <<kind, opened, next, idOf, there, pump, sock>>
    BY <2>1, Arrives
  <2>3. idOf[Arrived] \in Ids
    BY <1>a, <2>2
  <2>4. \/ UNCHANGED <<here, owner, up>>
        \/ UNCHANGED <<here, owner>> /\ up' = Append(up, Frame("CLOSE", Arrived))
        \/ /\ here' = [here EXCEPT ![idOf[Arrived]] = Arrived]
           /\ owner' = [owner EXCEPT ![Arrived] = "live"] /\ UNCHANGED up
    BY <1>3 DEF DemuxOpen
  <2>5. here' \in [Ids -> Streams \cup {None}] /\ up' \in Seq(FrameSet)
        /\ owner' \in [Streams -> {"none", "open", "live", "remove", "done"}]
    <3>1. CASE UNCHANGED <<here, owner>>
      BY <1>a, <1>b, <2>2, <2>4, <3>1
    <3>2. CASE /\ here' = [here EXCEPT ![idOf[Arrived]] = Arrived]
               /\ owner' = [owner EXCEPT ![Arrived] = "live"] /\ UNCHANGED up
      BY <1>a, <2>2, <2>3, <3>2
    <3> QED
      BY <2>4, <3>1, <3>2
  <2> QED
    BY <1>a, <2>1, <2>2, <2>5 DEF Typed
<1>4. CASE DemuxClose
  <2>1. DemuxTakes("CLOSE") /\ CloseStream(Arrived) /\ UNCHANGED <<owner, up>>
    BY <1>4 DEF DemuxClose
  <2>2. Arrived \in Streams /\ down' \in Seq(FrameSet)
        /\ UNCHANGED <<kind, opened, next, idOf, there, pump, sock>>
    BY <2>1, Arrives
  <2>3. here' \in [Ids -> Streams \cup {None}] /\ shut' \subseteq Streams
    BY <1>c, <2>1, <2>2
  <2> QED
    BY <1>a, <2>1, <2>2, <2>3 DEF Typed
<1>5. CASE ReadForeignOpen
  <2>1. ReaderTakes("OPEN") /\ UNCHANGED <<there, pump, sock, down>>
    BY <1>5 DEF ReadForeignOpen
  <2>2. up' \in Seq(FrameSet) /\ UNCHANGED <<kind, opened, next, idOf, here, owner, shut>>
    BY <2>1, Reads
  <2> QED
    BY <1>a, <2>1, <2>2 DEF Typed
<1>6. CASE ReadFreshOpen
  <2>1. ReaderTakes("OPEN")
    BY <1>6 DEF ReadFreshOpen
  <2>2. Sent \in Streams /\ up' \in Seq(FrameSet)
        /\ UNCHANGED <<kind, opened, next, idOf, here, owner, shut>>
    BY <2>1, Reads
  <2>3. \/ /\ there' = [there EXCEPT ![idOf[Sent]] = Sent] /\ UNCHANGED down
           /\ sock' = [sock EXCEPT ![Sent] = "open"] /\ pump' = [pump EXCEPT ![Sent] = "read"]
        \/ down' = Append(down, Frame("CLOSE", Sent)) /\ UNCHANGED <<there, sock, pump>>
    BY <1>6 DEF ReadFreshOpen
  <2>4. there' \in [Ids -> Streams \cup {None}] /\ down' \in Seq(FrameSet)
        /\ pump' \in [Streams -> {"none", "announce", "read", "bye", "remove", "done"}]
        /\ sock' \in [Streams -> {"none", "open", "closed"}]
    <3>0. idOf[Sent] \in Ids
      BY <1>a, <2>2
    <3>1. CASE UNCHANGED <<there, sock, pump>>
      BY <1>a, <1>b, <2>2, <2>3, <3>1
    <3>2. CASE /\ there' = [there EXCEPT ![idOf[Sent]] = Sent] /\ UNCHANGED down
               /\ sock' = [sock EXCEPT ![Sent] = "open"] /\ pump' = [pump EXCEPT ![Sent] = "read"]
      BY <1>a, <2>2, <3>0, <3>2
    <3> QED
      BY <2>3, <3>1, <3>2
  <2> QED
    BY <1>a, <2>2, <2>4 DEF Typed
<1>7. CASE ReadClose
  <2>1. ReaderTakes("CLOSE") /\ CloseConn(Sent) /\ UNCHANGED <<pump, down>>
    BY <1>7 DEF ReadClose
  <2>2. Sent \in Streams /\ up' \in Seq(FrameSet)
        /\ UNCHANGED <<kind, opened, next, idOf, here, owner, shut>>
    BY <2>1, Reads
  <2>3. there' \in [Ids -> Streams \cup {None}] /\ sock' \in [Streams -> {"none", "open", "closed"}]
    BY <1>d, <2>1, <2>2
  <2> QED
    BY <1>a, <2>1, <2>2, <2>3 DEF Typed
<1>8. ASSUME NEW n \in Streams, SendOpen(n) \/ OwnerCloses(n) \/ BridgeEnds(n)
      PROVE  Typed'
  <2>1. UNCHANGED <<kind, opened, next, idOf, there, pump, sock, down>>
        /\ \E place \in {"live", "remove", "done"} : owner' = [owner EXCEPT ![n] = place]
    BY <1>8 DEF SendOpen, OwnerCloses, BridgeEnds
  <2>2. up' = up \/ up' = Append(up, Frame("OPEN", n)) \/ up' = Append(up, Frame("CLOSE", n))
    BY <1>8 DEF SendOpen, OwnerCloses, BridgeEnds
  <2>3. here' \in [Ids -> Streams \cup {None}] /\ shut' \subseteq Streams
    BY <1>a, <1>c, <1>8 DEF SendOpen, OwnerCloses, BridgeEnds
  <2>4. up' \in Seq(FrameSet) /\ owner' \in [Streams -> {"none", "open", "live", "remove", "done"}]
    BY <1>a, <1>b, <2>1, <2>2
  <2> QED
    BY <1>a, <2>1, <2>3, <2>4 DEF Typed
<1>9. ASSUME NEW n \in Streams, Announce(n) \/ PumpEnds(n) \/ PumpSaysBye(n) \/ PumpRemoves(n)
      PROVE  Typed'
  <2>1. UNCHANGED <<kind, opened, next, idOf, here, owner, shut, up>>
        /\ \E place \in {"read", "bye", "remove", "done"} : pump' = [pump EXCEPT ![n] = place]
    BY <1>9 DEF Announce, PumpEnds, PumpSaysBye, PumpRemoves, PumpGoes
  <2>2. down' = down \/ down' = Append(down, Frame("OPEN", n))
          \/ down' = Append(down, Frame("CLOSE", n))
    BY <1>9 DEF Announce, PumpEnds, PumpSaysBye, PumpRemoves
  <2>3. there' \in [Ids -> Streams \cup {None}] /\ sock' \in [Streams -> {"none", "open", "closed"}]
    BY <1>a, <1>d, <1>9 DEF Announce, PumpEnds, PumpSaysBye, PumpRemoves
  <2>4. /\ down' \in Seq(FrameSet)
        /\ pump' \in [Streams -> {"none", "announce", "read", "bye", "remove", "done"}]
    BY <1>a, <1>b, <2>1, <2>2
  <2> QED
    BY <1>a, <2>1, <2>3, <2>4 DEF Typed
<1>10. ASSUME NEW n \in Streams, ReadOverflow(n)
       PROVE  Typed'
  <2>1. CloseConn(n) /\ UNCHANGED <<kind, opened, next, idOf, here, owner, shut, pump, up, down>>
    BY <1>10 DEF ReadOverflow
  <2>2. there' \in [Ids -> Streams \cup {None}] /\ sock' \in [Streams -> {"none", "open", "closed"}]
    BY <1>d, <2>1
  <2> QED
    BY <1>a, <2>1, <2>2 DEF Typed
<1>11. CASE UNCHANGED idVars
  BY <1>11 DEF Typed, idVars
<1> QED
  BY <1>1, <1>2, <1>3, <1>4, <1>5, <1>6, <1>7, <1>8, <1>9, <1>10, <1>11
     DEF IdsNext, Demux, Reader, Owner, Pump
-----------------------------------------------------------------------------
(* The launcher opens. *)

\* What the frames on the way say of the streams.
LEMMA UpAppended ==
  ASSUME Typed, NEW m \in Streams, NEW type \in {"OPEN", "CLOSE"}, up' = Append(up, Frame(type, m))
  PROVE  \A n \in Streams :
           /\ In(Frame("OPEN", n), up') <=> In(Frame("OPEN", n), up) \/ (type = "OPEN" /\ n = m)
           /\ Once(Frame("OPEN", n), up) /\ (type = "OPEN" => ~In(Frame("OPEN", m), up))
                => Once(Frame("OPEN", n), up')
<1>1. up \in Seq(FrameSet) /\ Frame(type, m) \in FrameSet
  BY FrameReads DEF Typed
<1>2. /\ \A g : In(g, up') <=> In(g, up) \/ g = Frame(type, m)
      /\ \A g : Once(g, up) /\ (g = Frame(type, m) => ~In(Frame(type, m), up)) => Once(g, up')
  BY <1>1, Appended
<1>3. \A n \in Streams : Frame("OPEN", n) = Frame(type, m) <=> type = "OPEN" /\ n = m
  BY FrameReads
<1> QED
  BY <1>2, <1>3

\* The same for the way down.
LEMMA DownAppended ==
  ASSUME Typed, NEW m \in Streams, NEW type \in {"OPEN", "CLOSE"},
         down' = Append(down, Frame(type, m))
  PROVE  \A n \in Streams :
           /\ In(Frame("OPEN", n), down') <=> In(Frame("OPEN", n), down) \/ (type = "OPEN" /\ n = m)
           /\ In(Frame("CLOSE", n), down')
                <=> In(Frame("CLOSE", n), down) \/ (type = "CLOSE" /\ n = m)
           /\ Once(Frame("CLOSE", n), down) /\ (type = "CLOSE" => ~In(Frame("CLOSE", m), down))
                => Once(Frame("CLOSE", n), down')
<1>1. down \in Seq(FrameSet) /\ Frame(type, m) \in FrameSet
  BY FrameReads DEF Typed
<1>2. /\ \A g : In(g, down') <=> In(g, down) \/ g = Frame(type, m)
      /\ \A g : Once(g, down) /\ (g = Frame(type, m) => ~In(Frame(type, m), down)) => Once(g, down')
  BY <1>1, Appended
<1>3. \A n \in Streams : /\ Frame("OPEN", n) = Frame(type, m) <=> type = "OPEN" /\ n = m
                         /\ Frame("CLOSE", n) = Frame(type, m) <=> type = "CLOSE" /\ n = m
  BY FrameReads
<1> QED
  BY <1>2, <1>3

\* A frame that is the only one of its kind is gone once it is read.
LEMMA UpTaken ==
  ASSUME Typed, NEW type, ReaderTakes(type)
  PROVE  /\ In(Frame(type, Sent), up)
         /\ \A f : In(f, up') => In(f, up)
         /\ \A f : Once(f, up) => Once(f, up')
         /\ Once(Frame(type, Sent), up) => ~In(Frame(type, Sent), up')
<1>1. up \in Seq(FrameSet) /\ up # <<>> /\ up' = Tail(up) /\ Head(up) = Frame(type, Sent)
  BY Reads DEF Typed
<1> QED
  BY <1>1, Taken

\* The same for the way down.
LEMMA DownTaken ==
  ASSUME Typed, NEW type, DemuxTakes(type)
  PROVE  /\ In(Frame(type, Arrived), down)
         /\ \A f : In(f, down') => In(f, down)
         /\ \A f : Once(f, down) => Once(f, down')
         /\ Once(Frame(type, Arrived), down) => ~In(Frame(type, Arrived), down')
<1>1. down \in Seq(FrameSet) /\ down # <<>> /\ down' = Tail(down)
      /\ Head(down) = Frame(type, Arrived)
  BY Arrives DEF Typed
<1> QED
  BY <1>1, Taken


\* Every step keeps to one answer per stream: an id the launcher gives again is one whose
\* last stream has been answered.
LEMMA ClientStep ==
  ASSUME Typed, kind = "client", Client, IdsNext
  PROVE  Client'
<1> USE DEF counters, ends
<1>a. /\ here \in [Ids -> Streams \cup {None}] /\ there \in [Ids -> Streams \cup {None}]
      /\ idOf \in [Streams -> Ids] /\ opened \in Nat
      /\ owner \in [Streams -> {"none", "open", "live", "remove", "done"}]
      /\ pump \in [Streams -> {"none", "announce", "read", "bye", "remove", "done"}]
  BY IdsAssumption DEF IdsAssumption, Typed
<1>b. \A n \in Streams : n \in Nat /\ n # None /\ idOf[n] \in Ids
  BY <1>a, NoneIsNoStream
<1>c. \A n \in Streams : OneAnswer(n) /\ KeptHere(n)
  BY DEF Client
<1>d. \A i \in Ids : Served(i)
  BY DEF Client
<1>1. CASE OpenClient
  <2>1. TakesId(here) /\ here' = [here EXCEPT ![idOf'[opened']] = opened']
        /\ owner' = [owner EXCEPT ![opened'] = "open"]
        /\ UNCHANGED <<there, shut, pump, sock, up, down>>
    BY <1>1 DEF OpenClient
  <2>2. /\ opened' = opened + 1 /\ opened' \in Streams /\ idOf'[opened'] \in Ids
        /\ here[idOf'[opened']] = None
        /\ \A n \in Streams : n # opened' => idOf'[n] = idOf[n]
    BY <1>a, <2>1, IdTaken
  <2>3. /\ owner[opened'] = "none" /\ pump[opened'] = "none"
        /\ ~In(Frame("OPEN", opened'), up) /\ ~In(Frame("CLOSE", opened'), down)
    BY <1>a, <1>c, <2>2 DEF OneAnswer
  <2>4. /\ owner'[opened'] = "open" /\ here'[idOf'[opened']] = opened'
        /\ \A n \in Streams : n # opened' => owner'[n] = owner[n]
        /\ \A i \in Ids : i # idOf'[opened'] => here'[i] = here[i]
    BY <1>a, <2>1, <2>2
  <2>5. ASSUME NEW n \in Streams PROVE OneAnswer(n)'
    <3>1. CASE n = opened'
      <4>1. ~(n > opened') /\ owner'[n] = "open" /\ pump[n] = "none"
            /\ ~In(Frame("OPEN", n), up) /\ ~In(Frame("CLOSE", n), down)
        BY <1>b, <2>3, <2>4, <3>1
      <4> QED
        BY <1>c, <2>1, <4>1 DEF OneAnswer
    <3>2. CASE n # opened'
      <4>1. n > opened' => n > opened
        BY <1>a, <1>b, <2>2
      <4> QED
        BY <1>c, <2>1, <2>4, <3>2, <4>1 DEF OneAnswer
    <3> QED
      BY <3>1, <3>2
  <2>6. ASSUME NEW n \in Streams PROVE KeptHere(n)'
    <3>1. CASE n = opened'
      BY <2>4, <3>1 DEF KeptHere
    <3>2. CASE n # opened'
      <4>1. Awaited(n)' => Awaited(n)
        BY <2>1, <2>4, <3>2 DEF Awaited
      <4>2. Awaited(n) => here[idOf[n]] = n /\ idOf[n] # idOf'[opened']
        BY <1>b, <1>c, <2>2 DEF KeptHere
      <4> QED
        BY <1>b, <2>2, <2>4, <3>2, <4>1, <4>2 DEF KeptHere
    <3> QED
      BY <3>1, <3>2
  <2>7. ASSUME NEW i \in Ids PROVE Served(i)'
    <3>1. there[i] # None => there[i] \in Streams /\ there[i] # opened'
      BY <1>a, <1>d, <2>3 DEF Served
    <3> QED
      BY <1>d, <2>1, <2>2, <3>1 DEF Served
  <2> QED
    BY <2>5, <2>6, <2>7 DEF Client
<1>2. ASSUME NEW m \in Streams, SendOpen(m) PROVE Client'
  <2>1. owner[m] = "open" /\ owner' = [owner EXCEPT ![m] = "live"]
        /\ up' = Append(up, Frame("OPEN", m))
        /\ UNCHANGED <<opened, idOf, here, there, pump, down>>
    BY <1>2 DEF SendOpen
  <2>2. pump[m] = "none" /\ ~In(Frame("OPEN", m), up) /\ ~In(Frame("CLOSE", m), down)
        /\ ~(m > opened)
    BY <1>c, <2>1 DEF OneAnswer
  <2>3. \A n \in Streams : /\ In(Frame("OPEN", n), up') <=> In(Frame("OPEN", n), up) \/ n = m
                           /\ Once(Frame("OPEN", n), up) => Once(Frame("OPEN", n), up')
    BY <2>1, <2>2, UpAppended
  <2>4. owner'[m] = "live" /\ \A n \in Streams : n # m => owner'[n] = owner[n]
    BY <1>a, <2>1
  <2>5. ASSUME NEW n \in Streams PROVE OneAnswer(n)'
    BY <1>c, <2>1, <2>2, <2>3, <2>4 DEF OneAnswer
  <2>6. ASSUME NEW n \in Streams PROVE KeptHere(n)'
    <3>1. Awaited(n)' => Awaited(n)
      BY <2>1, <2>3, <2>4 DEF Awaited
    <3> QED
      BY <1>c, <2>1, <3>1 DEF KeptHere
  <2>7. ASSUME NEW i \in Ids PROVE Served(i)'
    BY <1>d, <2>1 DEF Served
  <2> QED
    BY <2>5, <2>6, <2>7 DEF Client
<1>3. ASSUME NEW m \in Streams, OwnerCloses(m) PROVE Client'
  <2>1. owner[m] = "live" /\ owner' = [owner EXCEPT ![m] = "done"]
        /\ up' = Append(up, Frame("CLOSE", m))
        /\ UNCHANGED <<opened, idOf, here, there, pump, down>>
    BY <1>3 DEF OwnerCloses
  <2>2. ~(m > opened)
    BY <1>c, <2>1 DEF OneAnswer
  <2>3. \A n \in Streams : /\ In(Frame("OPEN", n), up') <=> In(Frame("OPEN", n), up)
                           /\ Once(Frame("OPEN", n), up) => Once(Frame("OPEN", n), up')
    BY <2>1, UpAppended
  <2>4. owner'[m] = "done" /\ \A n \in Streams : n # m => owner'[n] = owner[n]
    BY <1>a, <2>1
  <2>5. ASSUME NEW n \in Streams PROVE OneAnswer(n)'
    BY <1>c, <2>1, <2>2, <2>3, <2>4 DEF OneAnswer
  <2>6. ASSUME NEW n \in Streams PROVE KeptHere(n)'
    <3>1. Awaited(n)' => Awaited(n)
      BY <2>1, <2>3, <2>4 DEF Awaited
    <3> QED
      BY <1>c, <2>1, <3>1 DEF KeptHere
  <2>7. ASSUME NEW i \in Ids PROVE Served(i)'
    BY <1>d, <2>1 DEF Served
  <2> QED
    BY <2>5, <2>6, <2>7 DEF Client
<1>4. CASE DemuxClose
  <2>1. DemuxTakes("CLOSE") /\ CloseStream(Arrived) /\ UNCHANGED <<owner, up>>
    BY <1>4 DEF DemuxClose
  <2>2. Arrived \in Streams /\ UNCHANGED <<opened, idOf, there, pump>>
        /\ here' = [here EXCEPT ![idOf[Arrived]] = None]
    BY <2>1, Arrives DEF CloseStream
  <2>3. /\ In(Frame("CLOSE", Arrived), down) /\ ~In(Frame("CLOSE", Arrived), down')
        /\ \A f : In(f, down') => In(f, down)
        /\ \A f : Once(f, down) => Once(f, down')
    BY <1>c, <2>1, <2>2, DownTaken DEF OneAnswer
  <2>4. here[idOf[Arrived]] = Arrived
    BY <1>c, <2>2, <2>3 DEF KeptHere, Awaited
  <2>5. ASSUME NEW n \in Streams PROVE OneAnswer(n)'
    BY <1>c, <2>1, <2>2, <2>3 DEF OneAnswer
  <2>6. ASSUME NEW n \in Streams PROVE KeptHere(n)'
    <3>1. CASE n = Arrived
      <4>1. /\ owner[n] \notin {"none", "open"} /\ pump[n] \notin {"read", "bye"}
            /\ ~In(Frame("OPEN", n), up)
        BY <1>c, <2>2, <2>3, <3>1 DEF OneAnswer
      <4>2. ~Awaited(n)'
        BY <2>1, <2>2, <2>3, <3>1, <4>1 DEF Awaited
      <4> QED
        BY <4>2 DEF KeptHere
    <3>2. CASE n # Arrived
      <4>1. Awaited(n)' => Awaited(n)
        BY <2>1, <2>2, <2>3 DEF Awaited
      <4>2. Awaited(n) => here[idOf[n]] = n /\ idOf[n] # idOf[Arrived]
        BY <1>c, <2>4, <3>2 DEF KeptHere
      <4> QED
        BY <1>a, <1>b, <2>2, <4>1, <4>2 DEF KeptHere
    <3> QED
      BY <3>1, <3>2
  <2>7. ASSUME NEW i \in Ids PROVE Served(i)'
    BY <1>d, <2>2 DEF Served
  <2> QED
    BY <2>5, <2>6, <2>7 DEF Client
<1>5. CASE ReadForeignOpen
  <2>1. ReaderTakes("OPEN") /\ UNCHANGED <<there, pump, sock, down>>
    BY <1>5 DEF ReadForeignOpen
  <2>2. Sent \in Streams /\ UNCHANGED <<opened, idOf, here, owner>>
    BY <2>1, Reads
  <2>3. (\A f : In(f, up') => In(f, up)) /\ \A f : Once(f, up) => Once(f, up')
    BY <2>1, UpTaken
  <2>5. ASSUME NEW n \in Streams PROVE OneAnswer(n)'
    BY <1>c, <2>1, <2>2, <2>3 DEF OneAnswer
  <2>6. ASSUME NEW n \in Streams PROVE KeptHere(n)'
    <3>1. Awaited(n)' => Awaited(n)
      BY <2>1, <2>2, <2>3 DEF Awaited
    <3> QED
      BY <1>c, <2>2, <3>1 DEF KeptHere
  <2>7. ASSUME NEW i \in Ids PROVE Served(i)'
    BY <1>d, <2>1, <2>2 DEF Served
  <2> QED
    BY <2>5, <2>6, <2>7 DEF Client
<1>6. CASE ReadFreshOpen
  <2>1. ReaderTakes("OPEN")
    BY <1>6 DEF ReadFreshOpen
  <2>2. Sent \in Streams /\ idOf[Sent] \in Ids /\ UNCHANGED <<opened, idOf, here, owner>>
    BY <1>b, <2>1, Reads
  <2>3. /\ In(Frame("OPEN", Sent), up) /\ ~In(Frame("OPEN", Sent), up')
        /\ (\A f : In(f, up') => In(f, up)) /\ \A f : Once(f, up) => Once(f, up')
    BY <1>c, <2>1, <2>2, UpTaken DEF OneAnswer
  <2>4. /\ pump[Sent] = "none" /\ ~In(Frame("CLOSE", Sent), down)
        /\ owner[Sent] \notin {"none", "open"} /\ here[idOf[Sent]] = Sent
    BY <1>c, <2>2, <2>3 DEF OneAnswer, KeptHere, Awaited
  <2>5. CASE /\ there' = [there EXCEPT ![idOf[Sent]] = Sent]
             /\ pump' = [pump EXCEPT ![Sent] = "read"] /\ UNCHANGED down
    <3>1. /\ pump'[Sent] = "read" /\ \A n \in Streams : n # Sent => pump'[n] = pump[n]
          /\ \A i \in Ids : there'[i] = IF i = idOf[Sent] THEN Sent ELSE there[i]
      BY <1>a, <2>2, <2>5
    <3>2. ASSUME NEW n \in Streams PROVE OneAnswer(n)'
      BY <1>c, <2>2, <2>3, <2>4, <2>5, <3>1 DEF OneAnswer
    <3>3. ASSUME NEW n \in Streams PROVE KeptHere(n)'
      <4>1. Awaited(n)' => Awaited(n) \/ n = Sent
        BY <2>2, <2>3, <2>5, <3>1 DEF Awaited
      <4> QED
        BY <1>c, <2>2, <2>4, <4>1 DEF KeptHere
    <3>4. ASSUME NEW i \in Ids PROVE Served(i)'
      <4>1. there[i] # None => there[i] \in Streams /\ there[i] # Sent
        BY <1>a, <1>d, <2>4 DEF Served
      <4> QED
        BY <1>b, <1>d, <2>2, <3>1, <4>1 DEF Served
    <3> QED
      BY <3>2, <3>3, <3>4 DEF Client
  <2>6. CASE down' = Append(down, Frame("CLOSE", Sent)) /\ UNCHANGED <<there, sock, pump>>
    <3>1. \A n \in Streams :
            /\ In(Frame("OPEN", n), down') <=> In(Frame("OPEN", n), down)
            /\ In(Frame("CLOSE", n), down') <=> In(Frame("CLOSE", n), down) \/ n = Sent
            /\ Once(Frame("CLOSE", n), down) => Once(Frame("CLOSE", n), down')
      BY <2>2, <2>4, <2>6, DownAppended
    <3>2. ASSUME NEW n \in Streams PROVE OneAnswer(n)'
      BY <1>c, <2>2, <2>3, <2>4, <2>6, <3>1 DEF OneAnswer
    <3>3. ASSUME NEW n \in Streams PROVE KeptHere(n)'
      <4>1. Awaited(n)' => Awaited(n) \/ n = Sent
        BY <2>2, <2>3, <2>6, <3>1 DEF Awaited
      <4> QED
        BY <1>c, <2>2, <2>4, <4>1 DEF KeptHere
    <3>4. ASSUME NEW i \in Ids PROVE Served(i)'
      BY <1>d, <2>2, <2>6 DEF Served
    <3> QED
      BY <3>2, <3>3, <3>4 DEF Client
  <2> QED
    BY <1>6, <2>5, <2>6 DEF ReadFreshOpen
<1>7. CASE ReadClose
  <2>1. ReaderTakes("CLOSE") /\ CloseConn(Sent) /\ UNCHANGED <<pump, down>>
    BY <1>7 DEF ReadClose
  <2>2. Sent \in Streams /\ idOf[Sent] \in Ids /\ UNCHANGED <<opened, idOf, here, owner>>
    BY <1>b, <2>1, Reads
  <2>3. (\A f : In(f, up') => In(f, up)) /\ \A f : Once(f, up) => Once(f, up')
    BY <2>1, UpTaken
  <2>4. \A i \in Ids : there'[i] # None => there'[i] = there[i]
    BY <1>a, <2>1, <2>2 DEF CloseConn
  <2>5. ASSUME NEW n \in Streams PROVE OneAnswer(n)'
    BY <1>c, <2>1, <2>2, <2>3 DEF OneAnswer
  <2>6. ASSUME NEW n \in Streams PROVE KeptHere(n)'
    <3>1. Awaited(n)' => Awaited(n)
      BY <2>1, <2>2, <2>3 DEF Awaited
    <3> QED
      BY <1>c, <2>2, <3>1 DEF KeptHere
  <2>7. ASSUME NEW i \in Ids PROVE Served(i)'
    BY <1>d, <2>1, <2>2, <2>4 DEF Served
  <2> QED
    BY <2>5, <2>6, <2>7 DEF Client
<1>8. ASSUME NEW m \in Streams, PumpEnds(m) PROVE Client'
  <2>1. pump[m] = "read" /\ pump' = [pump EXCEPT ![m] = "bye"]
        /\ UNCHANGED <<opened, idOf, here, owner, up, down, there>>
    BY <1>8 DEF PumpEnds, PumpGoes
  <2>2. pump'[m] = "bye" /\ \A n \in Streams : n # m => pump'[n] = pump[n]
    BY <1>a, <2>1
  <2>5. ASSUME NEW n \in Streams PROVE OneAnswer(n)'
    BY <1>c, <2>1, <2>2 DEF OneAnswer
  <2>6. ASSUME NEW n \in Streams PROVE KeptHere(n)'
    <3>1. Awaited(n)' => Awaited(n)
      BY <2>1, <2>2 DEF Awaited
    <3> QED
      BY <1>c, <2>1, <3>1 DEF KeptHere
  <2>7. ASSUME NEW i \in Ids PROVE Served(i)'
    <3>1. there[i] # None => there[i] \in Streams
      BY <1>a
    <3> QED
      BY <1>d, <2>1, <2>2, <3>1 DEF Served
  <2> QED
    BY <2>5, <2>6, <2>7 DEF Client
<1>9. ASSUME NEW m \in Streams, PumpSaysBye(m) PROVE Client'
  <2>1. pump[m] = "bye" /\ pump' = [pump EXCEPT ![m] = "remove"]
        /\ down' = Append(down, Frame("CLOSE", m))
        /\ UNCHANGED <<opened, idOf, here, owner, up, there>>
    BY <1>9 DEF PumpSaysBye, PumpGoes
  <2>2. pump'[m] = "remove" /\ \A n \in Streams : n # m => pump'[n] = pump[n]
    BY <1>a, <2>1
  <2>3. /\ ~In(Frame("CLOSE", m), down) /\ ~In(Frame("OPEN", m), up)
        /\ owner[m] \notin {"none", "open"}
    BY <1>c, <2>1 DEF OneAnswer
  <2>4. \A n \in Streams :
          /\ In(Frame("OPEN", n), down') <=> In(Frame("OPEN", n), down)
          /\ In(Frame("CLOSE", n), down') <=> In(Frame("CLOSE", n), down) \/ n = m
          /\ Once(Frame("CLOSE", n), down) => Once(Frame("CLOSE", n), down')
    BY <2>1, <2>3, DownAppended
  <2>5. ASSUME NEW n \in Streams PROVE OneAnswer(n)'
    BY <1>c, <2>1, <2>2, <2>3, <2>4 DEF OneAnswer
  <2>6. ASSUME NEW n \in Streams PROVE KeptHere(n)'
    <3>1. Awaited(n)' => Awaited(n)
      BY <2>1, <2>2, <2>4 DEF Awaited
    <3> QED
      BY <1>c, <2>1, <3>1 DEF KeptHere
  <2>7. ASSUME NEW i \in Ids PROVE Served(i)'
    <3>1. there[i] # None => there[i] \in Streams
      BY <1>a
    <3> QED
      BY <1>d, <2>1, <2>2, <3>1 DEF Served
  <2> QED
    BY <2>5, <2>6, <2>7 DEF Client
<1>10. ASSUME NEW m \in Streams, PumpRemoves(m) PROVE Client'
  <2>1. pump[m] = "remove" /\ pump' = [pump EXCEPT ![m] = "done"] /\ CloseConn(m)
        /\ UNCHANGED <<opened, idOf, here, owner, up, down>>
    BY <1>10 DEF PumpRemoves, PumpGoes
  <2>2. /\ pump'[m] = "done" /\ \A n \in Streams : n # m => pump'[n] = pump[n]
        /\ \A i \in Ids : there'[i] = IF i = idOf[m] THEN None ELSE there[i]
    BY <1>a, <2>1 DEF CloseConn
  <2>3. owner[m] \notin {"none", "open"} /\ ~In(Frame("OPEN", m), up)
    BY <1>c, <2>1 DEF OneAnswer
  <2>5. ASSUME NEW n \in Streams PROVE OneAnswer(n)'
    BY <1>c, <2>1, <2>2, <2>3 DEF OneAnswer
  <2>6. ASSUME NEW n \in Streams PROVE KeptHere(n)'
    <3>1. Awaited(n)' => Awaited(n)
      BY <2>1, <2>2 DEF Awaited
    <3> QED
      BY <1>c, <2>1, <3>1 DEF KeptHere
  <2>7. ASSUME NEW i \in Ids PROVE Served(i)'
    <3>1. there[i] # None => there[i] \in Streams
      BY <1>a
    <3>2. there[i] = m => i = idOf[m]
      BY <1>b, <1>d DEF Served
    <3> QED
      BY <1>d, <2>1, <2>2, <3>1, <3>2 DEF Served
  <2> QED
    BY <2>5, <2>6, <2>7 DEF Client
<1>11. ~AdmitJoiner
  BY DEF AdmitJoiner
<1>12. ~DemuxOpen
  <2>1. ASSUME DemuxOpen PROVE FALSE
    <3>1. DemuxTakes("OPEN")
      BY <2>1 DEF DemuxOpen
    <3> QED
      BY <1>c, <3>1, Arrives, DownTaken DEF OneAnswer
  <2> QED
    BY <2>1
<1>13. \A n \in Streams : ~Announce(n) /\ ~BridgeEnds(n)
  BY <1>c DEF OneAnswer, Announce, PumpGoes, BridgeEnds
<1>14. ASSUME NEW m \in Streams, ReadOverflow(m) PROVE Client'
  <2>1. CloseConn(m) /\ UNCHANGED <<opened, idOf, here, owner, pump, up, down>>
    BY <1>14 DEF ReadOverflow
  <2>2. \A i \in Ids : there'[i] # None => there'[i] = there[i]
    BY <1>a, <1>b, <2>1 DEF CloseConn
  <2>5. ASSUME NEW n \in Streams PROVE OneAnswer(n)'
    BY <1>c, <2>1 DEF OneAnswer
  <2>6. ASSUME NEW n \in Streams PROVE KeptHere(n)'
    BY <1>c, <2>1 DEF KeptHere, Awaited
  <2>7. ASSUME NEW i \in Ids PROVE Served(i)'
    BY <1>d, <2>1, <2>2 DEF Served
  <2> QED
    BY <2>5, <2>6, <2>7 DEF Client
<1> QED
  BY <1>1, <1>2, <1>3, <1>4, <1>5, <1>6, <1>7, <1>8, <1>9, <1>10, <1>11, <1>12, <1>13, <1>14
     DEF IdsNext, Demux, Reader, Owner, Pump
-----------------------------------------------------------------------------
(* The relay opens. *)

\* By places: a frame appended is the last one.
LEMMA DownGrows ==
  ASSUME Typed, NEW m \in Streams, NEW type \in {"OPEN", "CLOSE"},
         down' = Append(down, Frame(type, m))
  PROVE  \A p \in 1..Len(down') :
           \/ p \in 1..Len(down) /\ down'[p] = down[p]
           \/ /\ p = Len(down) + 1 /\ down'[p].type = type /\ down'[p].stream = m
              /\ \A q \in 1..Len(down') : p < q => FALSE
<1>1. down \in Seq(FrameSet) /\ Frame(type, m) \in FrameSet
  BY FrameReads DEF Typed
<1>2. /\ Len(down') = Len(down) + 1 /\ Len(down) \in Nat
      /\ \A p \in 1..Len(down) : down'[p] = down[p]
      /\ down'[Len(down) + 1] = Frame(type, m)
  BY <1>1, Appended, LenProperties
<1> QED
  BY <1>2, FrameReads

\* By places: without the first frame, each of the others moves up by one.
LEMMA DownShrinks ==
  ASSUME Typed, NEW type, DemuxTakes(type)
  PROVE  /\ \A p \in 1..Len(down') : p \in Nat /\ p + 1 \in 1..Len(down) /\ 1 < p + 1
                                       /\ down'[p] = down[p + 1]
         /\ 1 \in 1..Len(down) /\ down[1] = Frame(type, Arrived)
<1>1. down \in Seq(FrameSet) /\ down # <<>> /\ down' = Tail(down)
      /\ Head(down) = Frame(type, Arrived)
  BY Arrives DEF Typed
<1>2. /\ \A p \in 1..Len(down') : p + 1 \in 1..Len(down) /\ down'[p] = down[p + 1]
      /\ 1 \in 1..Len(down) /\ down[1] = Frame(type, Arrived) /\ Len(down') = Len(down) - 1
      /\ Len(down) \in Nat
  BY <1>1, Taken, LenProperties
<1> QED
  BY <1>2

\* An OPEN at some place on the way.
LEMMA OpenAt ==
  ASSUME Typed, NEW p \in 1..Len(down), down[p].type = "OPEN"
  PROVE  down[p].stream \in Streams /\ In(Frame("OPEN", down[p].stream), down)
<1>1. down[p] \in FrameSet
  BY ElementOfSeq DEF Typed
<1> QED
  BY <1>1, FrameReads DEF In

\* closeConn: what the map loses is closed.
LEMMA RelayCloses ==
  ASSUME Typed, NEW m \in Streams, CloseConn(m), UNCHANGED <<opened, idOf>>, NEW n \in Streams,
         n <= opened /\ there[idOf[n]] # n => sock[n] = "closed",
         \A o \in Streams : o < n /\ n <= opened /\ idOf[o] = idOf[n] => there[idOf[o]] # o
  PROVE  /\ n <= opened /\ there'[idOf[n]] # n => sock'[n] = "closed"
         /\ \A o \in Streams : o < n /\ n <= opened /\ idOf[o] = idOf[n] => there'[idOf[o]] # o
<1>1. /\ there \in [Ids -> Streams \cup {None}] /\ sock \in [Streams -> {"none", "open", "closed"}]
      /\ idOf \in [Streams -> Ids] /\ None \notin Streams
  BY NoneIsNoStream DEF Typed
<1>2. /\ \A i \in Ids : there'[i] = IF i = idOf[m] THEN None ELSE there[i]
      /\ \A o \in Streams : sock'[o] = IF o = there[idOf[m]] THEN "closed" ELSE sock[o]
  BY <1>1 DEF CloseConn
<1>3. n <= opened /\ there'[idOf[n]] # n => sock'[n] = "closed"
  BY <1>1, <1>2
<1>4. \A o \in Streams : o < n /\ n <= opened /\ idOf[o] = idOf[n] => there'[idOf[o]] # o
  BY <1>1, <1>2
<1> QED
  BY <1>3, <1>4

\* Every step keeps what the relay's map and the launcher's say of joiners.
LEMMA JoinerStep ==
  ASSUME Typed, kind = "joiner", Joiner, IdsNext
  PROVE  Joiner'
<1> USE DEF counters, ends
<1>a. /\ here \in [Ids -> Streams \cup {None}] /\ there \in [Ids -> Streams \cup {None}]
      /\ idOf \in [Streams -> Ids] /\ opened \in Nat
      /\ owner \in [Streams -> {"none", "open", "live", "remove", "done"}]
      /\ pump \in [Streams -> {"none", "announce", "read", "bye", "remove", "done"}]
      /\ sock \in [Streams -> {"none", "open", "closed"}]
  BY IdsAssumption DEF IdsAssumption, Typed
<1>b. None \notin Streams /\ \A n \in Streams : n \in Nat /\ n # None /\ idOf[n] \in Ids
  BY <1>a, NoneIsNoStream
<1>c. \A n \in Streams : Joined(n)
  BY DEF Joiner
<1>d. InTurn /\ \A i \in Ids : Met(i)
  BY DEF Joiner
<1>e. UNCHANGED down => InTurn'
  BY <1>d DEF InTurn
<1>1. CASE AdmitJoiner
  <2>1. /\ TakesId(there) /\ there' = [there EXCEPT ![idOf'[opened']] = opened']
        /\ \A n \in Streams : pump[n] # "announce"
        /\ sock' = [sock EXCEPT ![opened'] = "open"]
        /\ pump' = [pump EXCEPT ![opened'] = "announce"]
        /\ UNCHANGED <<here, owner, shut, up, down>>
    BY <1>1 DEF AdmitJoiner
  <2>2. /\ opened' = opened + 1 /\ opened' \in Streams /\ idOf'[opened'] \in Ids
        /\ there[idOf'[opened']] = None
        /\ \A n \in Streams : n # opened' => idOf'[n] = idOf[n]
    BY <1>a, <2>1, IdTaken
  <2>3. /\ \A n \in Streams : n # opened' => pump'[n] = pump[n] /\ sock'[n] = sock[n]
        /\ \A i \in Ids : there'[i] = IF i = idOf'[opened'] THEN opened' ELSE there[i]
    BY <1>a, <2>1, <2>2
  <2>4. \A n \in Streams : n <= opened' => n = opened' \/ (n <= opened /\ n # opened')
    BY <1>a, <1>b, <2>2
  <2>5. opened' > opened /\ \A n \in Streams : n <= opened => n <= opened' /\ n # opened'
    BY <1>a, <1>b, <2>2
  <2>6. ASSUME NEW n \in Streams PROVE Joined(n)'
    <3>1. owner'[n] # "open" /\ ~In(Frame("OPEN", n), up')
          /\ (In(Frame("OPEN", n), down') => n <= opened')
      BY <1>c, <2>1, <2>5 DEF Joined
    <3>2. pump'[n] = "announce"
            => n = opened' /\ ~In(Frame("OPEN", n), down') /\ \A i \in Ids : here'[i] # n
      <4> SUFFICES ASSUME pump'[n] = "announce"
                   PROVE  n = opened' /\ ~In(Frame("OPEN", n), down') /\ \A i \in Ids : here'[i] # n
        OBVIOUS
      <4>1. n = opened' /\ ~(n <= opened)
        BY <1>a, <1>b, <2>1, <2>2, <2>3
      <4>2. ~In(Frame("OPEN", n), down')
        BY <1>c, <2>1, <4>1 DEF Joined
      <4>3. \A i \in Ids : here'[i] # n
        BY <1>b, <1>d, <2>1, <4>1 DEF Met
      <4> QED
        BY <4>1, <4>2, <4>3
    <3>3. n <= opened' /\ there'[idOf'[n]] # n => sock'[n] = "closed"
      BY <1>b, <1>c, <2>2, <2>3, <2>4 DEF Joined
    <3>4. ASSUME NEW m \in Streams, m < n, n <= opened', idOf'[m] = idOf'[n]
          PROVE  there'[idOf'[m]] # m
      <4>1. CASE n = opened'
        BY <1>b, <2>2, <2>3, <3>4, <4>1
      <4>2. CASE n # opened'
        <5>1. n <= opened /\ m # opened' /\ idOf[m] = idOf[n]
          BY <1>a, <1>b, <2>2, <2>4, <3>4, <4>2
        <5> QED
          BY <1>b, <1>c, <2>2, <2>3, <3>4, <5>1 DEF Joined
      <4> QED
        BY <4>1, <4>2
    <3> QED
      BY <3>1, <3>2, <3>3, <3>4 DEF Joined
  <2>7. ASSUME NEW i \in Ids PROVE Met(i)'
    <3>1. here[i] # None => here[i] \in Streams
      BY <1>a
    <3> QED
      BY <1>d, <2>1, <2>2, <2>5, <3>1 DEF Met
  <2> QED
    BY <1>e, <2>1, <2>6, <2>7 DEF Joiner
<1>2. ASSUME NEW m \in Streams, OwnerCloses(m) \/ BridgeEnds(m) PROVE Joiner'
  <2>1. /\ UNCHANGED <<opened, idOf, there, pump, sock, down>>
        /\ up' = up \/ up' = Append(up, Frame("CLOSE", m))
        /\ owner' = [owner EXCEPT ![m] = "remove"] \/ owner' = [owner EXCEPT ![m] = "done"]
    BY <1>2 DEF OwnerCloses, BridgeEnds
  <2>2. \A i \in Ids : here'[i] = here[i] \/ here'[i] = None
    BY <1>a, <1>b, <1>2 DEF OwnerCloses, BridgeEnds, CloseStream
  <2>3. \A n \in Streams : In(Frame("OPEN", n), up') => In(Frame("OPEN", n), up)
    BY <2>1, UpAppended
  <2>4. \A n \in Streams : owner'[n] = "open" => owner[n] = "open"
    BY <1>a, <2>1
  <2>5. ASSUME NEW n \in Streams PROVE Joined(n)'
    BY <1>b, <1>c, <2>1, <2>2, <2>3, <2>4 DEF Joined
  <2>6. ASSUME NEW i \in Ids PROVE Met(i)'
    BY <1>d, <2>1, <2>2 DEF Met
  <2> QED
    BY <1>e, <2>1, <2>5, <2>6 DEF Joiner
<1>3. ASSUME NEW type, DemuxTakes(type),
             \A n \in Streams : owner'[n] = "open" => owner[n] = "open",
             up' = up \/ up' = Append(up, Frame("CLOSE", Arrived)),
             \A i \in Ids : \/ here'[i] = here[i] \/ here'[i] = None
                            \/ here'[i] = Arrived /\ i = idOf[Arrived] /\ type = "OPEN"
      PROVE  Joiner'
  <2>1. Arrived \in Streams /\ UNCHANGED <<opened, idOf, there, pump, sock>>
    BY <1>3, Arrives
  <2>2. In(Frame(type, Arrived), down) /\ \A f : In(f, down') => In(f, down)
    BY <1>3, DownTaken
  <2>3. /\ \A p \in 1..Len(down') : p \in Nat /\ p + 1 \in 1..Len(down) /\ 1 < p + 1
                                      /\ down'[p] = down[p + 1]
        /\ 1 \in 1..Len(down) /\ down[1] = Frame(type, Arrived)
    BY <1>3, DownShrinks
  <2>4. \A n \in Streams : In(Frame("OPEN", n), up') => In(Frame("OPEN", n), up)
    BY <1>3, <2>1, UpAppended
  <2>5. ASSUME NEW n \in Streams PROVE Joined(n)'
    <3>1. pump[n] = "announce" => \A i \in Ids : here'[i] # n
      BY <1>b, <1>c, <1>3, <2>2 DEF Joined
    <3> QED
      BY <1>b, <1>c, <1>3, <2>1, <2>2, <2>4, <3>1 DEF Joined
  <2>6. InTurn'
    <3> SUFFICES ASSUME NEW p \in 1..Len(down'), NEW q \in 1..Len(down'), p < q,
                        down'[p].type = "OPEN", down'[q].type = "OPEN"
                 PROVE  down'[p].stream < down'[q].stream
      BY DEF InTurn
    <3>1. p + 1 < q + 1
      BY <2>3
    <3> QED
      BY <1>d, <2>3, <3>1 DEF InTurn
  <2>7. ASSUME NEW i \in Ids PROVE Met(i)'
    <3>1. CASE here'[i] = here[i] \/ here'[i] = None
      BY <1>d, <2>1, <2>3, <3>1 DEF Met
    <3>2. CASE here'[i] = Arrived /\ i = idOf[Arrived] /\ type = "OPEN"
      <4>1. Arrived <= opened
        BY <1>c, <2>1, <2>2, <3>2 DEF Joined
      <4>2. \A p \in 1..Len(down') : down'[p].type = "OPEN" => Arrived < down'[p].stream
        BY <1>d, <2>3, <3>2, FrameReads DEF InTurn
      <4> QED
        BY <2>1, <3>2, <4>1, <4>2 DEF Met
    <3> QED
      BY <1>3, <3>1, <3>2
  <2> QED
    BY <2>5, <2>6, <2>7 DEF Joiner
<1>4. CASE DemuxOpen
  <2>1. DemuxTakes("OPEN") /\ Arrived \in Streams /\ idOf[Arrived] \in Ids
    BY <1>b, <1>4, Arrives DEF DemuxOpen
  <2>2. \/ UNCHANGED <<here, owner>> /\ (up' = up \/ up' = Append(up, Frame("CLOSE", Arrived)))
        \/ /\ here' = [here EXCEPT ![idOf[Arrived]] = Arrived]
           /\ owner' = [owner EXCEPT ![Arrived] = "live"] /\ up' = up
    BY <1>4 DEF DemuxOpen
  <2>3. \A n \in Streams : owner'[n] = "open" => owner[n] = "open"
    BY <1>a, <2>1, <2>2
  <2>4. \A i \in Ids : \/ here'[i] = here[i] \/ here'[i] = None
                       \/ here'[i] = Arrived /\ i = idOf[Arrived]
    BY <1>a, <2>1, <2>2
  <2> QED
    BY <1>3, <2>1, <2>2, <2>3, <2>4
<1>5. CASE DemuxClose
  <2>1. DemuxTakes("CLOSE") /\ CloseStream(Arrived) /\ UNCHANGED <<owner, up>>
    BY <1>5 DEF DemuxClose
  <2>2. \A i \in Ids : here'[i] = here[i] \/ here'[i] = None
    BY <1>a, <2>1 DEF CloseStream
  <2> QED
    BY <1>3, <2>1, <2>2
<1>6. CASE ReadClose
  <2>1. ReaderTakes("CLOSE") /\ CloseConn(Sent) /\ UNCHANGED <<pump, down>>
    BY <1>6 DEF ReadClose
  <2>2. Sent \in Streams /\ UNCHANGED <<opened, idOf, here, owner>>
    BY <2>1, Reads
  <2>3. \A f : In(f, up') => In(f, up)
    BY <2>1, UpTaken
  <2>4. ASSUME NEW n \in Streams PROVE Joined(n)'
    <3>1. /\ n <= opened /\ there'[idOf[n]] # n => sock'[n] = "closed"
          /\ \A m \in Streams : m < n /\ n <= opened /\ idOf[m] = idOf[n] => there'[idOf[m]] # m
      BY <1>c, <2>1, <2>2, RelayCloses DEF Joined
    <3> QED
      BY <1>c, <2>1, <2>2, <2>3, <3>1 DEF Joined
  <2>5. ASSUME NEW i \in Ids PROVE Met(i)'
    BY <1>d, <2>1, <2>2 DEF Met
  <2> QED
    BY <1>e, <2>1, <2>4, <2>5 DEF Joiner
<1>7. ASSUME NEW m \in Streams, Announce(m) PROVE Joiner'
  <2>1. pump[m] = "announce" /\ pump' = [pump EXCEPT ![m] = "read"]
        /\ down' = Append(down, Frame("OPEN", m))
        /\ UNCHANGED <<opened, idOf, here, owner, up, there, sock>>
    BY <1>7 DEF Announce, PumpGoes
  <2>2. pump'[m] = "read" /\ \A n \in Streams : n # m => pump'[n] = pump[n]
    BY <1>a, <2>1
  <2>3. m = opened /\ ~In(Frame("OPEN", m), down) /\ \A i \in Ids : here[i] # m
    BY <1>c, <2>1 DEF Joined
  <2>4. \A n \in Streams : In(Frame("OPEN", n), down') <=> In(Frame("OPEN", n), down) \/ n = m
    BY <2>1, DownAppended
  <2>5. \A p \in 1..Len(down') :
          \/ p \in 1..Len(down) /\ down'[p] = down[p]
          \/ /\ p = Len(down) + 1 /\ down'[p].type = "OPEN" /\ down'[p].stream = m
             /\ \A q \in 1..Len(down') : p < q => FALSE
    BY <2>1, DownGrows
  <2>6. \A p \in 1..Len(down) : down[p].type = "OPEN" => down[p].stream < m
    <3> SUFFICES ASSUME NEW p \in 1..Len(down), down[p].type = "OPEN" PROVE down[p].stream < m
      OBVIOUS
    <3>1. down[p].stream \in Streams /\ In(Frame("OPEN", down[p].stream), down)
      BY OpenAt
    <3>2. down[p].stream <= opened /\ down[p].stream # m /\ down[p].stream \in Nat /\ m \in Nat
      BY <1>b, <1>c, <2>3, <3>1 DEF Joined
    <3> QED
      BY <2>3, <3>2
  <2>7. ASSUME NEW n \in Streams PROVE Joined(n)'
    <3>1. In(Frame("OPEN", n), down') => n <= opened
      BY <1>b, <1>c, <2>3, <2>4 DEF Joined
    <3>2. pump'[n] # "announce"
      BY <1>c, <2>1, <2>2, <2>3 DEF Joined
    <3> QED
      BY <1>c, <2>1, <3>1, <3>2 DEF Joined
  <2>8. InTurn'
    BY <1>d, <2>5, <2>6 DEF InTurn
  <2>9. ASSUME NEW i \in Ids PROVE Met(i)'
    <3>1. here[i] # None => here[i] \in Nat /\ here[i] <= opened /\ here[i] # m
      BY <1>a, <1>b, <1>d, <2>3 DEF Met
    <3>2. here[i] # None => here[i] < m
      BY <1>a, <2>3, <3>1
    <3> QED
      BY <1>d, <2>1, <2>5, <3>2 DEF Met
  <2> QED
    BY <2>7, <2>8, <2>9 DEF Joiner
<1>8. ASSUME NEW m \in Streams, PumpEnds(m) \/ PumpSaysBye(m) PROVE Joiner'
  <2>1. (pump' = [pump EXCEPT ![m] = "bye"] \/ pump' = [pump EXCEPT ![m] = "remove"])
        /\ (down' = down \/ down' = Append(down, Frame("CLOSE", m)))
        /\ UNCHANGED <<opened, idOf, here, owner, up, there, sock>>
    BY <1>8 DEF PumpEnds, PumpSaysBye, PumpGoes
  <2>2. \A n \in Streams : pump'[n] = "announce" => pump[n] = "announce"
    BY <1>a, <2>1
  <2>3. \A n \in Streams : In(Frame("OPEN", n), down') <=> In(Frame("OPEN", n), down)
    BY <2>1, DownAppended
  <2>4. \A p \in 1..Len(down') : down'[p].type = "OPEN" => p \in 1..Len(down) /\ down'[p] = down[p]
    BY <2>1, DownGrows
  <2>5. ASSUME NEW n \in Streams PROVE Joined(n)'
    BY <1>c, <2>1, <2>2, <2>3 DEF Joined
  <2>6. InTurn'
    BY <1>d, <2>4 DEF InTurn
  <2>7. ASSUME NEW i \in Ids PROVE Met(i)'
    BY <1>d, <2>1, <2>4 DEF Met
  <2> QED
    BY <2>5, <2>6, <2>7 DEF Joiner
<1>9. ASSUME NEW m \in Streams, PumpRemoves(m) \/ ReadOverflow(m) PROVE Joiner'
  <2>1. (pump' = [pump EXCEPT ![m] = "done"] \/ pump' = pump) /\ CloseConn(m)
        /\ UNCHANGED <<opened, idOf, here, owner, up, down>>
    BY <1>9 DEF PumpRemoves, PumpGoes, ReadOverflow
  <2>2. \A n \in Streams : pump'[n] = "announce" => pump[n] = "announce"
    BY <1>a, <2>1
  <2>4. ASSUME NEW n \in Streams PROVE Joined(n)'
    <3>1. /\ n <= opened /\ there'[idOf[n]] # n => sock'[n] = "closed"
          /\ \A o \in Streams : o < n /\ n <= opened /\ idOf[o] = idOf[n] => there'[idOf[o]] # o
      BY <1>c, <2>1, RelayCloses DEF Joined
    <3> QED
      BY <1>c, <2>1, <2>2, <3>1 DEF Joined
  <2>5. ASSUME NEW i \in Ids PROVE Met(i)'
    BY <1>d, <2>1 DEF Met
  <2> QED
    BY <1>e, <2>1, <2>4, <2>5 DEF Joiner
<1>10. ~OpenClient
  BY DEF OpenClient
<1>11. ~ReadForeignOpen /\ ~ReadFreshOpen
  <2>1. ASSUME ReaderTakes("OPEN") PROVE FALSE
    BY <1>c, <2>1, Reads, UpTaken DEF Joined
  <2> QED
    BY <2>1 DEF ReadForeignOpen, ReadFreshOpen
<1>12. \A n \in Streams : ~SendOpen(n)
  BY <1>c DEF Joined, SendOpen
<1> QED
  BY <1>1, <1>2, <1>4, <1>5, <1>6, <1>7, <1>8, <1>9, <1>10, <1>11, <1>12
     DEF IdsNext, Demux, Reader, Owner, Pump
-----------------------------------------------------------------------------
(* The theorem. *)

\* The inductive invariant of the ids.
LEMMA IdsInductive == IdsSpec => []IdsInv
<1>1. IdsInit => IdsInv
  <2> SUFFICES ASSUME IdsInit PROVE IdsInv
    OBVIOUS
  <2> USE DEF IdsInit
  <2>1. 0 \in Ids /\ 0 \in 0..NStreams /\ None \notin Streams
    BY IdsAreFinite, NoneIsNoStream, IdsAssumption DEF IdsAssumption
  <2>2. <<>> \in Seq(FrameSet) /\ Len(<<>>) = 0 /\ 1..0 = {}
    BY EmptySeq
  <2>3. \A f : ~In(f, <<>>) /\ Once(f, <<>>)
    BY <2>2 DEF In, Once
  <2>4. Typed
    BY <2>1, <2>2 DEF Typed
  <2>5. Client
    BY <2>1, <2>3 DEF Client, OneAnswer, KeptHere, Awaited, Served
  <2>6. \A n \in Streams : Joined(n)
    <3> SUFFICES ASSUME NEW n \in Streams PROVE Joined(n)
      OBVIOUS
    <3>1. ~(n <= opened)
      BY NoneIsNoStream
    <3> QED
      BY <2>3, <3>1 DEF Joined
  <2>7. InTurn /\ \A i \in Ids : Met(i)
    BY <2>2 DEF InTurn, Met
  <2> QED
    BY <2>4, <2>5, <2>6, <2>7 DEF IdsInv, Joiner
<1>2. IdsInv /\ [IdsNext]_idVars => IdsInv'
  <2> SUFFICES ASSUME IdsInv, [IdsNext]_idVars PROVE IdsInv'
    OBVIOUS
  <2>1. Typed /\ Typed' /\ kind \in {"client", "joiner"}
    BY TypedStep DEF IdsInv, Typed
  <2>2. CASE UNCHANGED idVars
    <3>1. UNCHANGED <<kind, opened, next, idOf, here, there, owner, shut, pump, sock, up, down>>
      BY <2>2 DEF idVars, ends
    <3>2. Client => Client'
      BY <3>1 DEF Client, OneAnswer, KeptHere, Awaited, Served
    <3>3. Joiner => Joiner'
      BY <3>1 DEF Joiner, Joined, InTurn, Met
    <3> QED
      BY <2>1, <3>1, <3>2, <3>3 DEF IdsInv
  <2>3. CASE IdsNext
    <3>1. kind' = kind
      BY <2>1, <2>3, IdTaken, Arrives, Reads
         DEF IdsNext, Demux, Reader, Owner, Pump, OpenClient, AdmitJoiner, DemuxOpen, DemuxClose,
             ReadForeignOpen, ReadFreshOpen, ReadClose, SendOpen, OwnerCloses, BridgeEnds, Announce,
             PumpEnds, PumpSaysBye, PumpRemoves, PumpGoes, TakesId, DemuxTakes,
             ReaderTakes, ReadOverflow, counters
    <3> QED
      BY <2>1, <2>3, <3>1, ClientStep, JoinerStep DEF IdsInv
  <2> QED
    BY <2>2, <2>3
<1> QED
  BY <1>1, <1>2, PTL DEF IdsSpec

\* However often the ids come round, an OPEN meets under its id none but a stream that is on
\* its way out at the relay (link.go: OpenClientStream, acceptJoiner; session.go:
\* acceptJoiners, launcherMayOpen).
THEOREM OpenMeetsTheLeaving == IdsSpec => MeetsOnlyTheLeaving
<1>1. ASSUME IdsInv, ReadForeignOpen
      PROVE  Leaving(there[idOf[Sent]])
  <2>1. Typed /\ ReaderTakes("OPEN") /\ there[idOf[Sent]] # None
    BY <1>1 DEF IdsInv, ReadForeignOpen
  <2>2. Sent \in Streams /\ In(Frame("OPEN", Sent), up)
    BY <2>1, Reads, UpTaken
  <2>3. kind = "client" /\ Client
    BY <1>1, <2>2 DEF IdsInv, Typed, Joiner, Joined
  <2>4. idOf[Sent] \in Ids /\ there[idOf[Sent]] \in Streams
    BY <2>1, <2>2 DEF Typed
  <2>5. /\ idOf[there[idOf[Sent]]] = idOf[Sent]
        /\ pump[there[idOf[Sent]]] \in {"read", "bye", "remove"}
    BY <2>1, <2>3, <2>4 DEF Client, Served
  <2>6. here[idOf[Sent]] = Sent /\ pump[Sent] = "none"
    BY <2>2, <2>3 DEF Client, OneAnswer, KeptHere, Awaited
  <2>7. pump[there[idOf[Sent]]] \notin {"read", "bye"}
    BY <2>3, <2>4, <2>5, <2>6 DEF Client, KeptHere, Awaited
  <2> QED
    BY <2>5, <2>7 DEF Leaving
<1>2. ASSUME IdsInv, DemuxOpen, here[idOf[Arrived]] # None
      PROVE  Leaving(here[idOf[Arrived]])
  <2>1. Typed /\ DemuxTakes("OPEN")
    BY <1>2 DEF IdsInv, DemuxOpen
  <2>2. Arrived \in Streams /\ In(Frame("OPEN", Arrived), down)
    BY <2>1, Arrives, DownTaken
  <2>3. kind = "joiner" /\ Joiner
    BY <1>2, <2>2 DEF IdsInv, Typed, Client, OneAnswer
  <2>4. idOf[Arrived] \in Ids /\ here[idOf[Arrived]] \in Streams
    BY <1>2, <2>1, <2>2 DEF Typed
  <2>5. /\ idOf[here[idOf[Arrived]]] = idOf[Arrived] /\ here[idOf[Arrived]] <= opened
        /\ here[idOf[Arrived]] < Arrived
    BY <1>2, <2>1, <2>3, <2>4, DownShrinks, FrameReads DEF Joiner, Met
  <2>6. Arrived <= opened
    BY <2>2, <2>3 DEF Joiner, Joined
  <2>7. there[idOf[here[idOf[Arrived]]]] # here[idOf[Arrived]]
    BY <2>2, <2>3, <2>4, <2>5, <2>6 DEF Joiner, Joined
  <2>8. sock[here[idOf[Arrived]]] = "closed"
    BY <2>3, <2>4, <2>5, <2>7 DEF Joiner, Joined
  <2> QED
    BY <2>8 DEF Leaving
<1>3. IdsInv /\ [IdsNext]_idVars
        => [/\ ReadForeignOpen => Leaving(there[idOf[Sent]])
            /\ DemuxOpen /\ here[idOf[Arrived]] # None => Leaving(here[idOf[Arrived]])]_idVars
  BY <1>1, <1>2
<1> QED
  BY <1>3, IdsInductive, PTL DEF IdsSpec, MeetsOnlyTheLeaving
-----------------------------------------------------------------------------
(* The bytes: the reader keeps in step with the senders. *)

\* The types of what is on the wire, and of what WriteFrame was called with.
Bytewise == [frame : Nat, byte : Nat]
Begun == [by : Senders, from : Nat, size : 0..MaxPayload, at : Nat]
WireTyped ==
  /\ stage \in [Senders -> {"idle", "waits", "header", "payload", "failed", "tooLong"}]
  /\ unsent \in [Senders -> Nat] /\ offset \in [Senders -> Nat]
  /\ begun \in Seq(Begun) /\ wire \in Seq(Bytewise)
  /\ reader \in {"header", "payload", "refuses", "ended"} /\ taken \in Nat
  /\ lock \subseteq Senders /\ tunOpen \in BOOLEAN
  /\ received \in Seq([frame : Nat, payload : Seq(Bytewise)])

\* Who is inside WriteFrame or about to close the tunnel holds the mutex, and no other
\* does; the last frame that was begun is the one it is at.
OnIt(s) ==
  /\ Current > 0 /\ begun[Current].by = s
  /\ begun[Current].from = offset[s] /\ begun[Current].size = Chunk(unsent[s])
  /\ stage[s] = "header" => Len(wire) = begun[Current].at
  /\ stage[s] = "payload" => Len(wire) = begun[Current].at + HeaderLen
Guarded ==
  /\ \A s \in Senders : stage[s] # "tooLong"
  /\ \A s \in Senders : s \in lock <=> stage[s] \in {"header", "payload", "failed"}
  /\ \A s, t \in lock : s = t
  /\ \A s \in lock : OnIt(s)

\* The frames lie on the wire one after the other; where one broke off, the wire ends.
Ends(k) == begun[k].at + HeaderLen + begun[k].size
OnWire(k) ==
  \A i \in 1..(HeaderLen + begun[k].size) :
    begun[k].at + i <= Len(wire) => wire[begun[k].at + i] = [frame |-> k, byte |-> i]
Laid ==
  /\ Current = 0 => Len(wire) = 0
  /\ Current > 0 => begun[1].at = 0 /\ Len(wire) <= Ends(Current)
  /\ Current > 0 /\ tunOpen /\ lock = {} => Len(wire) = Ends(Current)
  /\ \A k \in 1..Current : begun[k].at <= Len(wire) /\ OnWire(k)
  /\ \A k \in 1..(Current - 1) :
       /\ begun[k + 1].at <= Ends(k)
       /\ tunOpen \/ begun[k + 1].at < Len(wire) => begun[k + 1].at = Ends(k)

\* sendData goes on where the last frame of its stream ended.
LastBefore(b, s, n, i) ==
  i \in 1..n /\ b[i].by = s /\ \A j \in 1..n : b[j].by = s => j <= i
GoesOn(b, s, n, from) ==
  \/ (\A j \in 1..n : b[j].by # s) /\ from = 0
  \/ \E i \in 1..n : LastBefore(b, s, n, i) /\ from = b[i].from + b[i].size
Chained ==
  /\ \A k \in 1..Current : tunOpen \/ begun[k].at < Len(wire) =>
       GoesOn(begun, begun[k].by, k - 1, begun[k].from)
  /\ tunOpen => \A s \in Senders :
       GoesOn(begun, s, IF s \in lock THEN Current - 1 ELSE Current, offset[s])

\* The reader is between two frames, or between the header and the payload of one.
InStep ==
  /\ reader # "refuses"
  /\ \A k \in 1..Len(received) :
       /\ received[k] = [frame |-> k, payload |-> Bytes(k, HeaderLen, HeaderLen + begun[k].size)]
       /\ Ends(k) <= Len(wire)
  /\ LET k == Len(received) IN
       /\ k <= Current
       /\ reader = "header" => taken = IF k = 0 THEN 0 ELSE Ends(k)
       /\ reader = "payload" => /\ k < Current /\ taken = begun[k + 1].at + HeaderLen
                                /\ decoded = [frame |-> k + 1, size |-> begun[k + 1].size]
                                /\ taken <= Len(wire)

WireInv == Guarded /\ Laid /\ Chained /\ InStep

-----------------------------------------------------------------------------
USE DEF HeaderLen

\* Any stretch of a frame is a sequence of bytes, in the order of their places.
LEMMA BytesAre ==
  ASSUME NEW k \in Nat, NEW from \in Nat, NEW n \in Nat
  PROVE  /\ Bytes(k, from, from + n) \in Seq(Bytewise) /\ Len(Bytes(k, from, from + n)) = n
         /\ \A i \in 1..n : Bytes(k, from, from + n)[i] = [frame |-> k, byte |-> from + i]
<1>1. from + n - from = n
  OBVIOUS
<1>2. Bytes(k, from, from + n) = [i \in 1..n |-> [frame |-> k, byte |-> from + i]]
  BY <1>1 DEF Bytes
<1>3. \A i \in 1..n : [frame |-> k, byte |-> from + i] \in Bytewise
  BY DEF Bytewise
<1>4. [i \in 1..n |-> [frame |-> k, byte |-> from + i]] \in Seq(Bytewise)
  BY <1>3
<1>5. Len([i \in 1..n |-> [frame |-> k, byte |-> from + i]]) = n
  BY <1>4
<1> QED BY <1>2, <1>4, <1>5

\* The first bytes of a stretch: what a write got out that failed half-way.
LEMMA BytesCut ==
  ASSUME NEW k \in Nat, NEW from \in Nat, NEW m \in Nat, NEW n \in 0..m
  PROVE  SubSeq(Bytes(k, from, from + m), 1, n) = Bytes(k, from, from + n)
<1> DEFINE s == Bytes(k, from, from + m)
           t == Bytes(k, from, from + n)
<1>1. /\ s \in Seq(Bytewise) /\ Len(s) = m
      /\ \A i \in 1..m : s[i] = [frame |-> k, byte |-> from + i]
  BY BytesAre
<1>2. /\ t \in Seq(Bytewise) /\ Len(t) = n
      /\ \A i \in 1..n : t[i] = [frame |-> k, byte |-> from + i]
  BY BytesAre
<1> HIDE DEF s, t
<1>3. /\ SubSeq(s, 1, n) \in Seq(Bytewise) /\ Len(SubSeq(s, 1, n)) = n
      /\ \A i \in 1..n : SubSeq(s, 1, n)[i] = s[i]
  BY <1>1, SubSeqProperties
<1>4. SubSeq(s, 1, n) = t
  BY <1>1, <1>2, <1>3, SeqEqual
<1> QED BY <1>4 DEF s, t

LEMMA Ceiling == MaxPayload \in Nat /\ MaxPayload + HeaderLen = MaxFrameLen
BY WireAssumption DEF MaxPayload

\* sendData's n fits a frame, whatever is left of the buffer.
LEMMA ChunkFits ==
  ASSUME NEW n \in Nat
  PROVE  Chunk(n) \in 0..MaxPayload /\ Chunk(n) <= n /\ (n > 0 => Chunk(n) \in Nat)
BY Ceiling DEF Chunk

\* The types of one frame that was begun.
LEMMA LastBegun ==
  ASSUME WireTyped, NEW k \in 1..Current
  PROVE  /\ begun[k] \in Begun /\ begun[k].by \in Senders /\ begun[k].from \in Nat
         /\ begun[k].size \in Nat /\ begun[k].size <= MaxPayload /\ begun[k].at \in Nat
         /\ Ends(k) \in Nat
<1>1. Current = Len(begun) /\ begun \in Seq(Begun)
  BY DEF WireTyped, Current
<1>2. begun[k] \in Begun
  BY <1>1, ElementOfSeq
<1> QED BY <1>2, Ceiling DEF Begun, Ends

\* What a sender in WriteFrame writes next goes on where the wire stops.
LEMMA PieceFits ==
  ASSUME WireTyped, Guarded, Laid, NEW s \in Senders, stage[s] \in {"header", "payload"}
  PROVE  LET from == Len(wire) - begun[Current].at
             n == Len(Piece(s)) IN
         /\ s \in lock /\ Current \in Nat /\ Current > 0 /\ from \in Nat /\ n \in Nat
         /\ Piece(s) = Bytes(Current, from, from + n)
         /\ from + n = IF stage[s] = "header" THEN HeaderLen ELSE HeaderLen + Size
         /\ from + n <= HeaderLen + Size
<1>1. s \in lock /\ OnIt(s) /\ Current \in Nat
  BY DEF Guarded, WireTyped, Current
<1>2. Current \in 1..Current
  BY <1>1 DEF OnIt
<1>3. begun[Current].at \in Nat /\ Size \in Nat
  BY <1>2, LastBegun DEF Size
<1>4. CASE stage[s] = "header"
  <2>1. Len(wire) - begun[Current].at = 0 /\ Len(wire) \in Nat
    BY <1>1, <1>3, <1>4 DEF OnIt, WireTyped
  <2>2. Piece(s) = Bytes(Current, 0, 0 + HeaderLen)
    BY <1>4 DEF Piece
  <2>3. \A n \in Nat : Len(Bytes(Current, 0, 0 + n)) = n
    BY <1>1, BytesAre
  <2>4. Len(Piece(s)) = HeaderLen
    BY <2>2, <2>3
  <2>5. Current > 0
    BY <1>1 DEF OnIt
  <2> DEFINE from == Len(wire) - begun[Current].at
             n == Len(Piece(s))
  <2>6. from = 0 /\ n = HeaderLen
    BY <2>1, <2>4
  <2> HIDE DEF from, n
  <2>7. Piece(s) = Bytes(Current, from, from + n)
    BY <2>2, <2>6
  <2>8. from + n = HeaderLen /\ HeaderLen <= HeaderLen + Size
    BY <2>6, <1>3
  <2> QED BY <1>1, <1>4, <2>5, <2>6, <2>7, <2>8 DEF from, n
<1>5. CASE stage[s] = "payload"
  <2>1. Len(wire) - begun[Current].at = 6 /\ Len(wire) \in Nat
    <3>1. Len(wire) = begun[Current].at + HeaderLen
      BY <1>1, <1>5 DEF OnIt
    <3>2. Len(wire) \in Nat
      BY DEF WireTyped
    <3> QED BY ONLY <1>3, <3>1, <3>2 DEF HeaderLen
  <2>2. Piece(s) = Bytes(Current, 6, 6 + Size)
    BY <1>5, Ceiling DEF Piece
  <2>3. Len(Piece(s)) = Size
    BY <1>1, <1>3, <2>2, BytesAre
  <2> QED BY <1>1, <1>2, <1>3, <1>5, <2>1, <2>2, <2>3, Ceiling
<1> QED BY <1>4, <1>5

\* What is written goes on where the wire stops, and stays within the last frame.
Adds(from, n) ==
  /\ from = Len(wire) - begun[Current].at /\ from + n <= HeaderLen + begun[Current].size
  /\ wire' = wire \o Bytes(Current, from, from + n)

LEMMA WireGrows ==
  ASSUME WireTyped, Laid, Current > 0, NEW n \in Nat, NEW from \in Nat, Adds(from, n),
         begun' = begun, tunOpen \/ n = 0, tunOpen' = tunOpen
  PROVE  /\ wire' \in Seq(Bytewise) /\ Len(wire') = Len(wire) + n
         /\ \A i \in 1..Len(wire) : wire'[i] = wire[i]
         /\ \A k \in 1..Current : begun[k].at <= Len(wire') /\ OnWire(k)'
<1> DEFINE new == Bytes(Current, from, from + n)
<1>1. wire \in Seq(Bytewise) /\ Len(wire) \in Nat /\ Current \in Nat /\ Current \in 1..Current
  BY DEF WireTyped, Current
<1>2. /\ new \in Seq(Bytewise) /\ Len(new) = n
      /\ \A i \in 1..n : new[i] = [frame |-> Current, byte |-> from + i]
  BY <1>1, BytesAre
<1> HIDE DEF new
<1>3. wire' = wire \o new /\ from = Len(wire) - begun[Current].at
  BY DEF new, Adds
<1>4. /\ wire' \in Seq(Bytewise) /\ Len(wire') = Len(wire) + n
      /\ \A i \in 1..Len(wire) : wire'[i] = wire[i]
      /\ \A i \in 1..n : wire'[Len(wire) + i] = new[i]
  <2>1. /\ wire \o new \in Seq(Bytewise) /\ Len(wire \o new) = Len(wire) + n
        /\ \A i \in 1..(Len(wire) + n) :
             (wire \o new)[i] = IF i <= Len(wire) THEN wire[i] ELSE new[i - Len(wire)]
    BY <1>1, <1>2, ConcatProperties
  <2>2. ASSUME NEW i \in 1..n PROVE (wire \o new)[Len(wire) + i] = new[i]
    <3>1. Len(wire) + i \in 1..(Len(wire) + n) /\ ~(Len(wire) + i <= Len(wire))
          /\ Len(wire) + i - Len(wire) = i
      BY <1>1
    <3> QED BY <2>1, <3>1
  <2>3. \A i \in 1..Len(wire) : i \in 1..(Len(wire) + n) /\ i <= Len(wire)
    BY <1>1
  <2> QED BY <1>3, <2>1, <2>2, <2>3
<1>5. ASSUME NEW k \in 1..Current
      PROVE  begun[k].at <= Len(wire') /\ OnWire(k)'
  <2>1. begun[k].at \in Nat /\ begun[k].size \in Nat /\ begun[k].at <= Len(wire) /\ OnWire(k)
    BY LastBegun DEF Laid
  <2>2. ASSUME NEW i \in 1..(HeaderLen + begun[k].size), begun[k].at + i <= Len(wire')
        PROVE  wire'[begun[k].at + i] = [frame |-> k, byte |-> i]
    <3>0. i \in Nat /\ i > 0 /\ i <= HeaderLen + begun[k].size
      BY <2>1
    <3>1. CASE begun[k].at + i <= Len(wire)
      <4>1. wire[begun[k].at + i] = [frame |-> k, byte |-> i]
        BY <2>1, <2>2, <3>1 DEF OnWire
      <4>2. begun[k].at + i \in 1..Len(wire)
        BY <2>1, <3>0, <3>1, <1>1
      <4> QED BY <4>1, <4>2, <1>4
    <3>2. CASE begun[k].at + i > Len(wire)
      <4>1. k = Current
        <5> SUFFICES ASSUME k # Current PROVE FALSE
          OBVIOUS
        <5>1. k \in 1..(Current - 1) /\ k + 1 \in 1..Current
          BY <1>1
        <5>2. begun[k + 1].at \in Nat /\ begun[k + 1].at <= Len(wire)
          BY <5>1, LastBegun DEF Laid
        <5>3. CASE n = 0
          BY <5>3, <3>2, <2>2, <2>1, <3>0, <1>1, <1>4
        <5>4. CASE tunOpen
          <6>1. begun[k + 1].at = begun[k].at + HeaderLen + begun[k].size
            BY <5>1, <5>4 DEF Laid, Ends
          <6>2. begun[k].at + i <= begun[k + 1].at
            BY ONLY <6>1, <3>0, <2>1
          <6> QED BY ONLY <6>2, <5>2, <3>0, <3>2, <2>1, <1>1
        <5> QED BY <5>3, <5>4
      <4>2. PICK j \in 1..n : begun[k].at + i = Len(wire) + j
        <5>1. PICK x, y \in Nat : begun[k].at + i = x /\ Len(wire) = y
          BY <2>1, <3>0, <1>1
        <5>2. x > y /\ x <= y + n
          BY <2>2, <3>2, <5>1, <1>4
        <5>3. PICK j \in 1..n : x = y + j
          <6>1. x - y \in 1..n /\ x = y + (x - y)
            BY <5>2
          <6> QED BY <6>1
        <5> QED BY <5>1, <5>3
      <4>3. from + j = i
        <5>1. from = Len(wire) - begun[k].at /\ j \in Nat
          BY <4>1, <1>3
        <5>2. \A a, l, m, p \in Nat : from = l - a /\ a + m = l + p => from + p = m
          OBVIOUS
        <5>3. from + j = i
          BY ONLY <5>1, <5>2, <4>2, <2>1, <1>1, <3>0
        <5> QED BY <5>3
      <4> QED BY <4>1, <4>2, <4>3, <1>2, <1>4
    <3> QED BY <3>1, <3>2, <2>1, <3>0, <1>1
  <2>3. begun[k].at <= Len(wire')
    BY <2>1, <1>1, <1>4
  <2> QED BY <2>2, <2>3 DEF OnWire
<1> QED BY <1>4, <1>5

\* A write, whole or not, puts bytes of the last frame there; only an open tunnel takes any.
LEMMA Writing ==
  ASSUME WireTyped, Guarded, Laid, NEW s \in Senders, Write(s) \/ WriteFails(s)
  PROVE  /\ s \in lock /\ Current > 0 /\ begun' = begun /\ tunOpen' = tunOpen
         /\ \E from, n \in Nat :
              /\ Adds(from, n) /\ (tunOpen \/ n = 0)
              /\ Write(s) => /\ tunOpen
                             /\ from + n = IF stage[s] = "header" THEN HeaderLen
                                                                  ELSE HeaderLen + Size
<1> DEFINE from == Len(wire) - begun[Current].at
           m == Len(Piece(s))
<1>1. stage[s] \in {"header", "payload"} /\ begun' = begun /\ tunOpen' = tunOpen
  BY DEF Write, WriteFails
<1>2. /\ s \in lock /\ Current \in Nat /\ Current > 0 /\ from \in Nat /\ m \in Nat
      /\ Piece(s) = Bytes(Current, from, from + m)
      /\ from + m = IF stage[s] = "header" THEN HeaderLen ELSE HeaderLen + Size
      /\ from + m <= HeaderLen + begun[Current].size
  BY <1>1, PieceFits DEF Size
<1>3. Len(wire) - begun[Current].at = from
  OBVIOUS
<1> HIDE DEF from, m
<1>5. CASE Write(s)
  <2>1. tunOpen /\ Adds(from, m)
    BY <1>2, <1>3, <1>5 DEF Write, Adds
  <2> QED BY <1>1, <1>2, <2>1
<1>6. CASE WriteFails(s) /\ ~Write(s)
  <2>1. PICK n \in 0..m : /\ wire' = wire \o SubSeq(Piece(s), 1, n)
                          /\ tunOpen \/ n = 0
    <3>1. PICK n \in IF tunOpen THEN 0..Len(Piece(s)) ELSE {0} :
            wire' = wire \o SubSeq(Piece(s), 1, n)
      BY <1>6 DEF WriteFails
    <3>2. n \in 0..m /\ (tunOpen \/ n = 0)
      BY <1>2, <3>1 DEF m
    <3> QED BY <3>1, <3>2
  <2>2. SubSeq(Piece(s), 1, n) = Bytes(Current, from, from + n)
    <3>1. Current \in Nat /\ from \in Nat /\ m \in Nat /\ n \in 0..m
      BY <1>2, <2>1
    <3>2. SubSeq(Bytes(Current, from, from + m), 1, n) = Bytes(Current, from, from + n)
      BY ONLY <3>1, BytesCut
    <3> QED BY <1>2, <3>2
  <2>3. begun[Current].at \in Nat /\ begun[Current].size \in Nat
    BY <1>2, LastBegun
  <2>4. n \in Nat /\ from + n <= HeaderLen + begun[Current].size
    BY <1>2, <2>1, <2>3
  <2>5. Adds(from, n)
    BY <1>3, <2>1, <2>2, <2>4 DEF Adds
  <2> QED BY <1>1, <1>2, <1>6, <2>1, <2>4, <2>5
<1> QED BY <1>5, <1>6

\* What is read of the place where a frame lies is that frame.
LEMMA Span ==
  ASSUME WireTyped, Laid, NEW k \in 1..Current, NEW from \in Nat, NEW n \in Nat,
         from + n <= HeaderLen + begun[k].size, begun[k].at + from + n <= Len(wire)
  PROVE  SubSeq(wire, begun[k].at + from + 1, begun[k].at + from + n) = Bytes(k, from, from + n)
<1> DEFINE a == begun[k].at + from
           new == Bytes(k, from, from + n)
           s == SubSeq(wire, a + 1, a + n)
<1>1. begun[k].at \in Nat /\ begun[k].size \in Nat /\ Current \in Nat /\ OnWire(k)
  BY LastBegun DEF WireTyped, Current, Laid
<1>2. a \in Nat /\ k \in Nat /\ wire \in Seq(Bytewise) /\ Len(wire) \in Nat
  <2>1. wire \in Seq(Bytewise) /\ Len(wire) \in Nat
    BY DEF WireTyped
  <2>2. a \in Nat /\ k \in Nat
    BY ONLY <1>1, from \in Nat, k \in 1..Current
  <2> QED BY <2>1, <2>2
<1>3. /\ new \in Seq(Bytewise) /\ Len(new) = n
      /\ \A i \in 1..n : new[i] = [frame |-> k, byte |-> from + i]
  BY <1>2, BytesAre
<1>4. \A i \in 1..n : wire[a + i] = [frame |-> k, byte |-> from + i]
  <2> TAKE i \in 1..n
  <2>1. from + i <= HeaderLen + begun[k].size /\ begun[k].at + (from + i) <= Len(wire)
    <3>1. \A x, y \in Nat : x + from + n <= y => x + (from + i) <= y
      OBVIOUS
    <3>2. \A y \in Nat : from + n <= y => from + i <= y
      OBVIOUS
    <3>3. HeaderLen + begun[k].size \in Nat
      BY <1>1
    <3> QED BY <3>1, <3>2, <3>3, <1>1, <1>2
  <2>2. from + i \in 1..(HeaderLen + begun[k].size) /\ a + i = begun[k].at + (from + i)
    BY <1>1, <2>1
  <2> QED BY <1>1, <2>1, <2>2 DEF OnWire
<1>5. a + n <= Len(wire)
  OBVIOUS
<1> HIDE DEF a, new
<1>6. /\ s \in Seq(Bytewise) /\ Len(s) = n
      /\ \A i \in 1..n : s[i] = wire[a + i]
  <2>1. a + n \in Nat /\ a + 1 \in 1..(Len(wire) + 1) /\ a + n \in a..Len(wire)
    BY <1>2, <1>5
  <2> QED BY <1>2, <1>5, <2>1, SubSeqProperties
<1>7. s = new
  <2>1. \A i \in 1..n : s[i] = new[i]
    BY <1>3, <1>4, <1>6
  <2> HIDE DEF s
  <2> QED BY ONLY <1>3, <1>6, <2>1, SeqEqual
<1> QED BY <1>7 DEF a, new

\* The 16-bit length holds every length that a frame may have.
LEMMA NoWrap == ASSUME NEW n \in Nat, n <= MaxFrameLen PROVE n % (MaxFrameLen + 1) = n
BY WireAssumption

\* The header the reader finds is the one of the next frame, with its length.
LEMMA HeaderFound ==
  ASSUME WireTyped, WireInv, reader = "header", taken + HeaderLen <= Len(wire)
  PROVE  LET k == Len(received) + 1 IN
         /\ k \in 1..Current /\ taken = begun[k].at /\ wire[taken + 1].frame = k
         /\ SubSeq(wire, taken + 1, taken + HeaderLen) = Bytes(k, 0, HeaderLen)
         /\ Decoded(k) = HeaderLen + begun[k].size
<1> DEFINE j == Len(received)
           k == j + 1
<1>1. /\ j \in Nat /\ Current \in Nat /\ Len(wire) \in Nat /\ taken \in Nat
      /\ j <= Current
      /\ taken = IF j = 0 THEN 0 ELSE Ends(j)
  BY DEF WireTyped, WireInv, InStep, Current
<1>2. Current > 0 /\ Current \in 1..Current
  BY <1>1 DEF WireInv, Laid
<1>3. Len(wire) <= Ends(Current) /\ Ends(Current) \in Nat
  BY <1>2, LastBegun DEF WireInv, Laid
<1>4. k \in 1..Current
  <2>1. j # Current
    BY <1>1, <1>2, <1>3
  <2> QED BY <1>1, <2>1
<1>5. taken = begun[k].at
  <2>1. CASE j = 0
    BY <1>1, <1>2, <2>1 DEF WireInv, Laid
  <2>2. CASE j > 0
    <3>1. j \in 1..(Current - 1) /\ Ends(j) = taken
      BY <1>1, <1>4, <2>2
    <3>2. begun[k].at <= Ends(j) /\ (begun[k].at < Len(wire) => begun[k].at = Ends(j))
      BY <3>1 DEF WireInv, Laid
    <3>3. begun[k].at \in Nat
      BY <1>4, LastBegun
    <3> QED BY <1>1, <3>1, <3>2, <3>3
  <2> QED BY <1>1, <2>1, <2>2
<1>6. begun[k].at \in Nat /\ begun[k].size \in Nat /\ begun[k].size <= MaxPayload /\ OnWire(k)
  BY <1>4, LastBegun DEF WireInv, Laid
<1>7. SubSeq(wire, taken + 1, taken + HeaderLen) = Bytes(k, 0, HeaderLen)
  <2>1. HeaderLen <= HeaderLen + begun[k].size /\ begun[k].at + HeaderLen <= Len(wire)
    BY <1>1, <1>5, <1>6
  <2>2. \A from, n \in Nat :
          from + n <= HeaderLen + begun[k].size /\ begun[k].at + from + n <= Len(wire) =>
            SubSeq(wire, begun[k].at + from + 1, begun[k].at + from + n) =
              Bytes(k, from, from + n)
    BY <1>4, Span DEF WireInv
  <2>3. SubSeq(wire, begun[k].at + 0 + 1, begun[k].at + 0 + HeaderLen) = Bytes(k, 0, 0 + HeaderLen)
    <3> HIDE DEF k
    <3>1. HeaderLen \in Nat /\ 0 \in Nat
      OBVIOUS
    <3>2. 0 + HeaderLen <= HeaderLen + begun[k].size /\ begun[k].at + 0 + HeaderLen <= Len(wire)
      BY <1>6, <2>1
    <3> HIDE DEF HeaderLen
    <3> QED BY <2>2, <3>1, <3>2
  <2>4. begun[k].at + 0 = taken /\ 0 + HeaderLen = HeaderLen
    BY <1>5, <1>6
  <2> QED BY <2>3, <2>4
<1>8. wire[taken + 1].frame = k
  <2>1. 1 \in 1..(HeaderLen + begun[k].size) /\ begun[k].at + 1 <= Len(wire)
    BY <1>1, <1>5, <1>6
  <2>2. wire[begun[k].at + 1] = [frame |-> k, byte |-> 1]
    BY <1>6, <2>1 DEF OnWire
  <2> QED BY <1>5, <2>2
<1>9. Decoded(k) = HeaderLen + begun[k].size
  <2>1. HeaderLen + begun[k].size \in Nat /\ HeaderLen + begun[k].size <= MaxFrameLen
    BY <1>6, Ceiling, WireAssumption
  <2> QED BY <2>1, NoWrap DEF Decoded
<1> QED BY <1>4, <1>5, <1>7, <1>8, <1>9

\* And what it takes for the payload is the payload of that frame.
LEMMA PayloadFound ==
  ASSUME WireTyped, WireInv, reader = "payload", taken + decoded.size <= Len(wire)
  PROVE  LET k == Len(received) + 1 IN
         /\ k \in 1..Current /\ decoded.frame = k /\ taken + decoded.size = Ends(k)
         /\ SubSeq(wire, taken + 1, taken + decoded.size) =
              Bytes(k, HeaderLen, HeaderLen + begun[k].size)
<1> DEFINE k == Len(received) + 1
<1>1. /\ Len(received) \in Nat /\ Current \in Nat /\ Len(wire) \in Nat
      /\ Len(received) < Current /\ taken = begun[k].at + HeaderLen
      /\ decoded.frame = k /\ decoded.size = begun[k].size
  BY DEF WireTyped, WireInv, InStep, Current
<1>2. k \in 1..Current
  BY <1>1
<1>3. begun[k].at \in Nat /\ begun[k].size \in Nat
  BY <1>2, LastBegun
<1>4. taken + decoded.size = Ends(k)
  BY <1>1, <1>3 DEF Ends
<1>5. SubSeq(wire, begun[k].at + HeaderLen + 1, begun[k].at + HeaderLen + begun[k].size) =
        Bytes(k, HeaderLen, HeaderLen + begun[k].size)
  <2>1. begun[k].at + HeaderLen + begun[k].size <= Len(wire)
    BY <1>1, <1>3
  <2>2. HeaderLen + begun[k].size <= HeaderLen + begun[k].size
    BY <1>3
  <2>3. WireTyped /\ Laid /\ HeaderLen \in Nat
    BY DEF WireInv
  <2> HIDE DEF k
  <2> QED BY <1>2, <1>3, <2>1, <2>2, <2>3, Span
<1> QED BY <1>1, <1>2, <1>4, <1>5

LEMMA WireTypedStep ==
  ASSUME WireTyped, WireInv, [WireNext]_wireVars
  PROVE  WireTyped'
<1> USE DEF task, reading
<1>1. ASSUME NEW s \in Senders, GivenBuffer(s) PROVE WireTyped'
  BY <1>1, WireAssumption DEF GivenBuffer, WireTyped
<1>2. ASSUME NEW s \in Senders, BeginFrame(s) PROVE WireTyped'
  <2>1. Chunk(unsent[s]) \in 0..MaxPayload
    BY ChunkFits DEF WireTyped
  <2>2. [by |-> s, from |-> offset[s], size |-> Chunk(unsent[s]), at |-> Len(wire)] \in Begun
    BY <2>1 DEF WireTyped, Begun
  <2>3. begun' \in Seq(Begun)
    BY <1>2, <2>2 DEF BeginFrame, WireTyped
  <2> QED BY <1>2, <2>3 DEF BeginFrame, WireTyped
<1>3. ASSUME NEW s \in Senders, Write(s) \/ WriteFails(s) PROVE WireTyped'
  <2>1. wire' \in Seq(Bytewise) /\ s \in lock /\ Current > 0
    BY <1>3, Writing, WireGrows DEF WireInv
  <2>2. OnIt(s) /\ Current \in 1..Current
    BY <2>1 DEF WireInv, Guarded, WireTyped, Current
  <2>3. Size \in Nat /\ Size <= unsent[s] /\ unsent[s] \in Nat
    BY <2>2, LastBegun, ChunkFits DEF OnIt, Size, WireTyped
  <2>4. unsent[s] - Size \in Nat /\ offset[s] + Size \in Nat
    BY <2>3 DEF WireTyped
  <2>5. /\ stage' \in [Senders -> {"idle", "waits", "header", "payload", "failed", "tooLong"}]
        /\ lock' \in {lock, {}} /\ unsent' \in [Senders -> Nat] /\ offset' \in [Senders -> Nat]
    BY <1>3, <2>4 DEF Write, WriteFails, FrameDone, WireTyped
  <2> QED BY <1>3, <2>1, <2>5 DEF Write, WriteFails, WireTyped
<1>4. ASSUME NEW s \in Senders, SendFails(s) PROVE WireTyped'
  <2>1. offset[s] + unsent[s] \in Nat
    BY DEF WireTyped
  <2>2. /\ stage' \in [Senders -> {"idle", "waits", "header", "payload", "failed", "tooLong"}]
        /\ lock' = {} /\ unsent' \in [Senders -> Nat] /\ offset' \in [Senders -> Nat]
        /\ tunOpen' = FALSE
    BY <1>4, <2>1 DEF SendFails, GiveUpBuffer, WireTyped
  <2> QED BY <1>4, <2>2 DEF SendFails, GiveUpBuffer, WireTyped
<1>5. CASE ReadHeader
  <2>1. taken' = taken + HeaderLen /\ taken' \in Nat
    BY <1>5 DEF ReadHeader, WireTyped
  <2>2. reader' \in {"payload", "refuses"} /\ tunOpen' \in {tunOpen, FALSE}
    BY <1>5, Zenon DEF ReadHeader
  <2> QED BY <1>5, <2>1, <2>2 DEF ReadHeader, WireTyped
<1>6. CASE ReadPayload
  <2> DEFINE k == Len(received) + 1
  <2>1. reader = "payload" /\ taken + decoded.size <= Len(wire)
    BY <1>6 DEF ReadPayload
  <2>2. /\ k \in 1..Current /\ decoded.frame = k /\ taken + decoded.size = Ends(k)
        /\ SubSeq(wire, taken + 1, taken + decoded.size) =
             Bytes(k, HeaderLen, HeaderLen + begun[k].size)
    BY <2>1, PayloadFound
  <2>3. k \in Nat /\ begun[k].size \in Nat /\ Ends(k) \in Nat
    BY <2>2, LastBegun DEF WireTyped
  <2>4. Bytes(k, HeaderLen, HeaderLen + begun[k].size) \in Seq(Bytewise)
    BY <2>3, BytesAre
  <2>5. received' = Append(received, [frame |-> k,
                             payload |-> Bytes(k, HeaderLen, HeaderLen + begun[k].size)])
        /\ taken' = Ends(k)
    BY <1>6, <2>2 DEF ReadPayload
  <2> HIDE DEF k
  <2>6. received' \in Seq([frame : Nat, payload : Seq(Bytewise)])
    BY <2>3, <2>4, <2>5 DEF WireTyped
  <2> QED BY <1>6, <2>3, <2>5, <2>6 DEF ReadPayload, WireTyped
<1>7. CASE TunnelCloses \/ ReaderEnds
  BY <1>7 DEF TunnelCloses, ReaderEnds, WireTyped
<1>8. CASE UNCHANGED wireVars
  BY <1>8 DEF wireVars, WireTyped
<1> QED BY <1>1, <1>2, <1>3, <1>4, <1>5, <1>6, <1>7, <1>8 DEF WireNext, Sender

\* What the reader and the closing of the tunnel leave alone.
LEMMA SendersRest ==
  ASSUME TunnelCloses \/ ReadHeader \/ ReadPayload \/ ReaderEnds
  PROVE  /\ UNCHANGED <<stage, unsent, offset, lock, begun, wire>>
         /\ tunOpen' \in {tunOpen, FALSE}
BY Zenon DEF TunnelCloses, ReadHeader, ReadPayload, ReaderEnds, task

LEMMA GuardedStep ==
  ASSUME WireTyped, WireInv, [WireNext]_wireVars
  PROVE  Guarded'
<1>0. Guarded /\ Laid
  BY DEF WireInv
<1>1. ASSUME NEW s \in Senders, GivenBuffer(s) PROVE Guarded'
  <2>1. s \notin lock
    BY <1>0, <1>1 DEF GivenBuffer, Guarded
  <2>2. \A t \in lock : OnIt(t)'
    BY <1>0, <1>1, <2>1 DEF GivenBuffer, Guarded, OnIt, WireTyped, Current
  <2> QED BY <1>0, <1>1, <2>1, <2>2 DEF GivenBuffer, Guarded, WireTyped
<1>2. ASSUME NEW s \in Senders, BeginFrame(s) PROVE Guarded'
  <2> DEFINE n == Chunk(unsent[s])
  <2>1. n <= MaxPayload /\ n \in Nat /\ MaxPayload \in Nat
    BY ChunkFits, Ceiling DEF WireTyped
  <2>2. /\ lock = {} /\ lock' = {s} /\ stage' = [stage EXCEPT ![s] = "header"]
        /\ begun' = Append(begun, [by |-> s, from |-> offset[s], size |-> n, at |-> Len(wire)])
        /\ UNCHANGED <<unsent, offset, wire>>
    <3>1. ~(n > MaxPayload)
      BY <2>1
    <3>2. stage' = [stage EXCEPT ![s] = IF n > MaxPayload THEN "tooLong" ELSE "header"]
      BY <1>2, Zenon DEF BeginFrame
    <3> QED BY <1>2, <3>1, <3>2, Zenon DEF BeginFrame
  <2>3. /\ Current' = Current + 1 /\ Current \in Nat
        /\ begun'[Current'] = [by |-> s, from |-> offset[s], size |-> n, at |-> Len(wire)]
    BY <2>2 DEF WireTyped, Current
  <2>4. OnIt(s)'
    <3>1. Chunk(unsent[s])' = n /\ offset'[s] = offset[s] /\ Len(wire)' = Len(wire)
      BY <2>2
    <3>2. stage'[s] = "header" /\ Current' > 0
      BY <2>2, <2>3 DEF WireTyped
    <3> HIDE DEF n
    <3> QED BY <2>3, <3>1, <3>2 DEF OnIt
  <2> QED BY <1>0, <2>2, <2>4 DEF Guarded, WireTyped
<1>3. ASSUME NEW s \in Senders, Write(s) \/ WriteFails(s) PROVE Guarded'
  <2>1. s \in lock /\ begun' = begun /\ Current > 0 /\ Current \in Nat
    BY <1>0, <1>3, Writing DEF WireTyped, Current
  <2>2. lock = {s} /\ OnIt(s)
    BY <1>0, <2>1 DEF Guarded, WireTyped
  <2>3. begun[Current].at \in Nat /\ begun[Current].size \in Nat /\ Len(wire) \in Nat
    BY <2>1, LastBegun DEF WireTyped
  <2>4. CASE Write(s) /\ stage[s] = "header" /\ Size > 0
    <3>1. PICK from, n \in Nat : Adds(from, n) /\ from + n = HeaderLen /\ (tunOpen \/ n = 0)
      BY <1>0, <2>4, Writing
    <3>2. Len(wire') = Len(wire) + n /\ from = Len(wire) - begun[Current].at
      BY <1>0, <1>3, <2>1, <3>1, Writing, WireGrows DEF Adds
    <3>3. Len(wire') = begun[Current].at + HeaderLen
      BY <2>3, <3>1, <3>2
    <3>4. /\ lock' = {s} /\ stage' = [stage EXCEPT ![s] = "payload"]
          /\ UNCHANGED <<unsent, offset>>
      BY <2>2, <2>4 DEF Write
    <3>5. OnIt(s)'
      BY <2>1, <2>2, <3>3, <3>4 DEF OnIt, Current, WireTyped
    <3> QED BY <1>0, <2>2, <3>4, <3>5 DEF Guarded, WireTyped
  <2>5. CASE Write(s) /\ ~(stage[s] = "header" /\ Size > 0)
    <3>1. lock' = {} /\ \E to \in {"waits", "idle"} : stage' = [stage EXCEPT ![s] = to]
      BY <2>5 DEF Write, FrameDone
    <3> QED BY <1>0, <2>2, <3>1 DEF Guarded, WireTyped
  <2>6. CASE WriteFails(s) /\ ~Write(s)
    <3>1. /\ lock' = {s} /\ stage' = [stage EXCEPT ![s] = "failed"]
          /\ UNCHANGED <<unsent, offset>>
      BY <2>2, <2>6 DEF WriteFails
    <3>2. OnIt(s)'
      BY <2>1, <2>2, <3>1 DEF OnIt, Current, WireTyped
    <3> QED BY <1>0, <2>2, <3>1, <3>2 DEF Guarded, WireTyped
  <2> QED BY <1>3, <2>4, <2>5, <2>6
<1>4. ASSUME NEW s \in Senders, SendFails(s) PROVE Guarded'
  <2>1. stage[s] = "failed" /\ lock' = {} /\ stage' = [stage EXCEPT ![s] = "idle"]
    BY <1>0, <1>4 DEF SendFails, GiveUpBuffer, Guarded
  <2>2. lock = {s}
    BY <1>0, <2>1 DEF Guarded, WireTyped
  <2> QED BY <1>0, <2>1, <2>2 DEF Guarded, WireTyped
<1>5. CASE TunnelCloses \/ ReadHeader \/ ReadPayload \/ ReaderEnds \/ UNCHANGED wireVars
  <2>1. UNCHANGED <<stage, unsent, offset, lock, begun, wire>>
    BY <1>5, SendersRest DEF wireVars, task
  <2> QED BY <1>0, <2>1 DEF Guarded, OnIt, Current
<1> QED BY <1>1, <1>2, <1>3, <1>4, <1>5 DEF WireNext, Sender

LEMMA LaidStep ==
  ASSUME WireTyped, WireInv, [WireNext]_wireVars
  PROVE  Laid'
<1>0. Guarded /\ Laid /\ Current \in Nat /\ Len(wire) \in Nat
  BY DEF WireInv, WireTyped, Current
<1>1. ASSUME NEW s \in Senders, GivenBuffer(s) PROVE Laid'
  BY <1>0, <1>1 DEF GivenBuffer, Laid, Current, Ends, OnWire
<1>2. ASSUME NEW s \in Senders, BeginFrame(s) PROVE Laid'
  <2> DEFINE n == Chunk(unsent[s])
             new == [by |-> s, from |-> offset[s], size |-> n, at |-> Len(wire)]
  <2>1. n \in Nat
    BY ChunkFits, Ceiling DEF WireTyped
  <2>2. lock = {} /\ lock' = {s} /\ begun' = Append(begun, new) /\ UNCHANGED <<wire, tunOpen>>
    BY <1>2 DEF BeginFrame
  <2>3. /\ Current' = Current + 1 /\ begun'[Current + 1] = new
        /\ \A k \in 1..Current : begun'[k] = begun[k]
    BY <2>2 DEF WireTyped, Current
  <2> HIDE DEF n
  <2>4. begun'[1].at = 0
    BY <1>0, <2>3 DEF Laid
  <2>5. Ends(Current)' = Len(wire) + HeaderLen + n
    BY <2>3 DEF Ends
  <2>6. \A k \in 1..Current : begun[k].at <= Len(wire) /\ OnWire(k)'
    BY <1>0, <2>2, <2>3 DEF Laid, OnWire
  <2>0. PICK c \in Nat : c = Current + 1
    BY <1>0
  <2>7. OnWire(c)'
    <3>1. \A i \in 1..(HeaderLen + n) : ~(Len(wire) + i <= Len(wire))
      BY <1>0, <2>1
    <3>2. begun'[c].at = Len(wire) /\ begun'[c].size = n
      BY <2>0, <2>3
    <3> QED BY <2>2, <3>1, <3>2 DEF OnWire
  <2>8. ASSUME NEW k \in 1..Current
        PROVE  /\ begun'[k + 1].at <= Ends(k)'
               /\ tunOpen \/ begun'[k + 1].at < Len(wire) => begun'[k + 1].at = Ends(k)'
    <3>1. Ends(k)' = Ends(k)
      BY <2>3 DEF Ends
    <3>2. CASE k = Current
      <4>1. begun'[k + 1].at = Len(wire) /\ Len(wire) <= Ends(k)
        BY <1>0, <2>3, <3>2 DEF Laid
      <4>2. tunOpen => Len(wire) = Ends(k)
        BY <1>0, <2>2, <3>2 DEF Laid
      <4>3. ~(Len(wire) < Len(wire))
        BY <1>0
      <4> QED BY <3>1, <4>1, <4>2, <4>3
    <3>3. CASE k # Current
      <4>1. k \in 1..(Current - 1) /\ k + 1 \in 1..Current
        BY <1>0, <3>3
      <4> QED BY <1>0, <2>3, <3>1, <4>1 DEF Laid
    <3> QED BY <3>2, <3>3
  <2>9. /\ Current' > 0 /\ Current' - 1 = Current /\ Len(wire) <= Ends(Current)'
        /\ \A k \in 1..Current' : k \in 1..Current \/ k = c
    BY <1>0, <2>0, <2>1, <2>3, <2>5
  <2>10. \A k \in 1..Current' : begun'[k].at <= Len(wire') /\ OnWire(k)'
    <3> TAKE k \in 1..Current'
    <3>1. CASE k \in 1..Current
      BY <2>2, <2>3, <2>6, <3>1
    <3>2. CASE k = c
      <4>1. begun'[k].at = Len(wire) /\ Len(wire) <= Len(wire)
        BY <1>0, <2>0, <2>3, <3>2
      <4> QED BY <2>2, <2>7, <3>2, <4>1
    <3> QED BY <2>9, <3>1, <3>2
  <2>11. lock' # {} /\ ~(Current' = 0)
    BY <2>2, <2>9
  <2>12. \A k \in 1..(Current' - 1) :
          /\ begun'[k + 1].at <= Ends(k)'
          /\ tunOpen' \/ begun'[k + 1].at < Len(wire') => begun'[k + 1].at = Ends(k)'
    BY <2>2, <2>8, <2>9, Zenon
  <2>13. Len(wire') <= Ends(Current)'
    BY <2>2, <2>9
  <2> QED BY <2>4, <2>10, <2>11, <2>12, <2>13, Zenon DEF Laid
<1>3. ASSUME NEW s \in Senders, Write(s) \/ WriteFails(s) PROVE Laid'
  <2>1. /\ s \in lock /\ begun' = begun /\ Current > 0 /\ tunOpen' = tunOpen
        /\ Current' = Current /\ Current \in 1..Current
    BY <1>0, <1>3, Writing DEF Current
  <2>2. PICK from, n \in Nat :
          /\ Adds(from, n) /\ (tunOpen \/ n = 0)
          /\ Write(s) => from + n = IF stage[s] = "header" THEN HeaderLen ELSE HeaderLen + Size
    BY <1>0, <1>3, Writing
  <2>3. /\ Len(wire') = Len(wire) + n
        /\ \A k \in 1..Current : begun[k].at <= Len(wire') /\ OnWire(k)'
    BY <1>0, <2>1, <2>2, WireGrows
  <2>4. begun[Current].at \in Nat /\ Size \in Nat /\ from = Len(wire) - begun[Current].at
        /\ from + n <= HeaderLen + Size /\ Size = begun[Current].size
    BY <2>1, <2>2, LastBegun DEF Adds, Size
  <2>5. /\ Len(wire') = begun[Current].at + (from + n)
        /\ Ends(Current)' = begun[Current].at + HeaderLen + Size
    BY <1>0, <2>1, <2>3, <2>4 DEF Ends
  <2>6. lock' = {} => from + n = HeaderLen + Size
    <3>1. CASE Write(s)
      <4>1. stage[s] = "header" => Size = 0 \/ lock' = lock
        BY <2>4, <3>1 DEF Write
      <4> QED BY <2>1, <2>2, <2>4, <3>1, <4>1
    <3>2. CASE WriteFails(s)
      BY <2>1, <3>2 DEF WriteFails
    <3> QED BY <1>3, <3>1, <3>2
  <2>7. Len(wire') <= Ends(Current)' /\ (lock' = {} => Len(wire') = Ends(Current)')
    <3>1. PICK m \in Nat : m = from + n
      BY <2>2
    <3>2. m <= HeaderLen + Size /\ Len(wire') = begun[Current].at + m
      BY <1>0, <2>4, <2>5, <3>1
    <3>3. lock' = {} => m = HeaderLen + Size
      BY <2>6, <3>1
    <3>4. begun[Current].at \in Nat /\ Size \in Nat
      BY <2>4
    <3> QED BY <2>5, <3>1, <3>2, <3>3, <3>4
  <2>8. ASSUME NEW k \in 1..(Current - 1)
        PROVE  /\ begun[k + 1].at <= Ends(k)'
               /\ tunOpen \/ begun[k + 1].at < Len(wire') => begun[k + 1].at = Ends(k)'
    <3>1. Ends(k)' = Ends(k)
      BY <2>1 DEF Ends
    <3>2. n = 0 => Len(wire') = Len(wire)
      BY <1>0, <2>3
    <3> QED BY <1>0, <2>2, <3>1, <3>2 DEF Laid
  <2>9. begun'[1].at = 0 /\ Current' > 0
    BY <1>0, <2>1 DEF Laid
  <2> QED BY <2>1, <2>3, <2>7, <2>8, <2>9 DEF Laid
<1>4. ASSUME NEW s \in Senders, SendFails(s) PROVE Laid'
  BY <1>0, <1>4 DEF SendFails, GiveUpBuffer, Laid, Current, Ends, OnWire
<1>5. CASE TunnelCloses \/ ReadHeader \/ ReadPayload \/ ReaderEnds \/ UNCHANGED wireVars
  <2>1. UNCHANGED <<lock, begun, wire>> /\ tunOpen' \in {tunOpen, FALSE}
    BY <1>5, SendersRest DEF wireVars, task
  <2>2. CASE tunOpen' = tunOpen
    BY <1>0, <2>1, <2>2 DEF Laid, Current, Ends, OnWire
  <2>3. CASE tunOpen' = FALSE
    BY <1>0, <2>1, <2>3 DEF Laid, Current, Ends, OnWire
  <2> QED BY <2>1, <2>2, <2>3
<1> QED BY <1>1, <1>2, <1>3, <1>4, <1>5 DEF WireNext, Sender

\* The chain of a stream's frames: longer ones of the same start, frames of other senders,
\* and one more of its own.
LEMMA GoesOnSame ==
  ASSUME NEW b, NEW c, NEW n \in Nat, \A j \in 1..n : b[j] = c[j], NEW s, NEW f,
         GoesOn(b, s, n, f)
  PROVE  GoesOn(c, s, n, f)
BY DEF GoesOn, LastBefore

LEMMA GoesOnOther ==
  ASSUME NEW b, NEW n \in Nat, NEW s, NEW f, GoesOn(b, s, n, f), b[n + 1].by # s
  PROVE  GoesOn(b, s, n + 1, f)
<1>1. \A j \in 1..(n + 1) : j \in 1..n \/ j = n + 1
  OBVIOUS
<1>2. \A j \in 1..n : j \in 1..(n + 1)
  OBVIOUS
<1> QED BY <1>1, <1>2 DEF GoesOn, LastBefore

LEMMA GoesOnMine ==
  ASSUME NEW b, NEW n \in Nat, n > 0
  PROVE  GoesOn(b, b[n].by, n, b[n].from + b[n].size)
<1>1. LastBefore(b, b[n].by, n, n)
  BY DEF LastBefore
<1>2. n \in 1..n
  OBVIOUS
<1> QED BY <1>1, <1>2 DEF GoesOn

LEMMA ChainedStep ==
  ASSUME WireTyped, WireInv, [WireNext]_wireVars
  PROVE  Chained'
<1>0. Guarded /\ Laid /\ Chained /\ Current \in Nat /\ Len(wire) \in Nat
  BY DEF WireInv, WireTyped, Current
<1>1. ASSUME NEW s \in Senders, GivenBuffer(s) PROVE Chained'
  BY <1>0, <1>1 DEF GivenBuffer, Chained, Current
<1>2. ASSUME NEW s \in Senders, BeginFrame(s) PROVE Chained'
  <2> DEFINE new == [by |-> s, from |-> offset[s], size |-> Chunk(unsent[s]), at |-> Len(wire)]
  <2>1. /\ lock = {} /\ lock' = {s} /\ begun' = Append(begun, new)
        /\ UNCHANGED <<wire, tunOpen, offset>>
    BY <1>2 DEF BeginFrame
  <2>2. /\ Current' = Current + 1 /\ begun'[Current + 1] = new
        /\ \A k \in 1..Current : begun'[k] = begun[k]
    BY <2>1 DEF WireTyped, Current
  <2>3. ASSUME tunOpen, NEW t \in Senders
        PROVE  GoesOn(begun', t, Current, offset[t])
    <3>1. GoesOn(begun, t, Current, offset[t])
      BY <1>0, <2>1, <2>3 DEF Chained
    <3> QED BY <1>0, <2>2, <3>1, GoesOnSame
  <2>4. ASSUME NEW k \in 1..Current', tunOpen' \/ begun'[k].at < Len(wire')
        PROVE  GoesOn(begun', begun'[k].by, k - 1, begun'[k].from)
    <3>1. CASE k \in 1..Current
      <4>1. GoesOn(begun, begun[k].by, k - 1, begun[k].from)
        BY <1>0, <2>1, <2>2, <2>4, <3>1 DEF Chained
      <4>2. k - 1 \in Nat /\ \A j \in 1..(k - 1) : j \in 1..Current
        BY <1>0, <3>1
      <4> QED BY <2>2, <3>1, <4>1, <4>2, GoesOnSame
    <3>2. CASE k = Current + 1
      <4>1. begun'[k].by = s /\ begun'[k].from = offset[s] /\ begun'[k].at = Len(wire)
        BY <2>2, <3>2
      <4>2. ~(Len(wire) < Len(wire)) /\ k - 1 = Current
        BY <1>0, <3>2
      <4>3. tunOpen
        BY <2>1, <2>4, <4>1, <4>2, Zenon
      <4> QED BY <2>3, <4>1, <4>2, <4>3
    <3> QED BY <1>0, <2>2, <3>1, <3>2
  <2>5. ASSUME tunOpen', NEW t \in Senders
        PROVE  GoesOn(begun', t, IF t \in lock' THEN Current' - 1 ELSE Current', offset'[t])
    <3>1. GoesOn(begun', t, Current, offset[t])
      BY <2>1, <2>3, <2>5
    <3>2. CASE t = s
      BY <1>0, <2>1, <2>2, <3>1, <3>2
    <3>3. CASE t # s
      <4>1. begun'[Current + 1].by # t
        BY <2>2, <3>3
      <4>2. GoesOn(begun', t, Current + 1, offset[t])
        BY <1>0, <3>1, <4>1, GoesOnOther
      <4> QED BY <2>1, <2>2, <3>3, <4>2
    <3> QED BY <3>2, <3>3
  <2> QED BY <2>4, <2>5 DEF Chained
<1>3. ASSUME NEW s \in Senders, Write(s) \/ WriteFails(s) PROVE Chained'
  <2>1. /\ s \in lock /\ begun' = begun /\ Current > 0 /\ tunOpen' = tunOpen
        /\ Current' = Current /\ Current \in 1..Current
    BY <1>0, <1>3, Writing DEF Current
  <2>2. PICK from, n \in Nat : Adds(from, n) /\ (tunOpen \/ n = 0)
    BY <1>0, <1>3, Writing
  <2>3. n = 0 => Len(wire') = Len(wire)
    <3>1. Len(wire') = Len(wire) + n
      BY <1>0, <2>1, <2>2, WireGrows
    <3> QED BY ONLY <3>1, <1>0
  <2>4. \A k \in 1..Current' : tunOpen' \/ begun'[k].at < Len(wire') =>
          GoesOn(begun', begun'[k].by, k - 1, begun'[k].from)
    BY <1>0, <2>1, <2>2, <2>3 DEF Chained
  <2>5. ASSUME tunOpen, NEW t \in Senders
        PROVE  GoesOn(begun, t, IF t \in lock' THEN Current - 1 ELSE Current, offset'[t])
    <3>1. GoesOn(begun, t, IF t \in lock THEN Current - 1 ELSE Current, offset[t])
      BY <1>0, <2>5 DEF Chained
    <3>2. CASE UNCHANGED <<lock, offset>>
      BY <3>1, <3>2
    <3>3. CASE FrameDone(s)
      <4>1. OnIt(s) /\ lock = {s}
        BY <1>0, <2>1 DEF Guarded, WireTyped
      <4>2. lock' = {}
        BY <3>3 DEF FrameDone
      <4>3. CASE t = s
        <5>1. offset'[t] = begun[Current].from + begun[Current].size /\ begun[Current].by = t
          BY <3>3, <4>1, <4>3 DEF FrameDone, OnIt, Size, WireTyped
        <5> QED BY <1>0, <2>1, <4>2, <5>1, GoesOnMine
      <4>4. CASE t # s
        <5>1. offset'[t] = offset[t] /\ t \notin lock
          BY <3>3, <4>1, <4>4 DEF FrameDone, WireTyped
        <5> QED BY <3>1, <4>2, <5>1
      <4> QED BY <4>3, <4>4
    <3> QED BY <1>3, <3>2, <3>3 DEF Write, WriteFails
  <2> QED BY <2>1, <2>4, <2>5 DEF Chained
<1>4. ASSUME NEW s \in Senders, SendFails(s) PROVE Chained'
  BY <1>0, <1>4 DEF SendFails, GiveUpBuffer, Chained, Current
<1>5. CASE TunnelCloses \/ ReadHeader \/ ReadPayload \/ ReaderEnds \/ UNCHANGED wireVars
  <2>1. UNCHANGED <<lock, begun, wire, offset>> /\ tunOpen' \in {tunOpen, FALSE}
    BY <1>5, SendersRest DEF wireVars, task
  <2>2. CASE tunOpen' = tunOpen
    BY <1>0, <2>1, <2>2 DEF Chained, Current
  <2>3. CASE tunOpen' = FALSE
    BY <1>0, <2>1, <2>3 DEF Chained, Current
  <2> QED BY <2>1, <2>2, <2>3
<1> QED BY <1>1, <1>2, <1>3, <1>4, <1>5 DEF WireNext, Sender

\* Senders only add: the frames begun, and the bytes written, stay where they are.
LEMMA SendersAdd ==
  ASSUME WireTyped, WireInv, NEW s \in Senders, Sender(s)
  PROVE  /\ UNCHANGED reading /\ Current \in Nat /\ Current' \in Nat /\ Current <= Current'
         /\ \A k \in 1..Current : begun'[k] = begun[k]
         /\ Len(wire) \in Nat /\ Len(wire') \in Nat /\ Len(wire) <= Len(wire')
<1>0. Guarded /\ Laid /\ Current \in Nat /\ Len(wire) \in Nat
  BY DEF WireInv, WireTyped, Current
<1>1. CASE GivenBuffer(s) \/ SendFails(s)
  BY <1>0, <1>1 DEF GivenBuffer, SendFails, GiveUpBuffer, Current
<1>2. CASE BeginFrame(s)
  <2>1. /\ UNCHANGED <<wire, reading>>
        /\ \E f : begun' = Append(begun, f)
    BY <1>2 DEF BeginFrame
  <2> QED BY <1>0, <2>1 DEF WireTyped, Current
<1>3. CASE Write(s) \/ WriteFails(s)
  <2>1. UNCHANGED <<begun, reading>> /\ Current' = Current /\ Current > 0 /\ tunOpen' = tunOpen
    BY <1>0, <1>3, Writing DEF Write, WriteFails, Current
  <2>2. PICK from, n \in Nat : Adds(from, n) /\ (tunOpen \/ n = 0)
    BY <1>0, <1>3, Writing
  <2>3. Len(wire') = Len(wire) + n
    BY <1>0, <2>1, <2>2, WireGrows
  <2> QED BY <1>0, <2>1, <2>2, <2>3
<1> QED BY <1>1, <1>2, <1>3 DEF Sender

LEMMA InStepStep ==
  ASSUME WireTyped, WireInv, [WireNext]_wireVars
  PROVE  InStep'
<1>0. InStep /\ Laid /\ Len(received) \in Nat /\ Current \in Nat /\ Len(wire) \in Nat
  BY DEF WireInv, WireTyped, Current
<1>1. ASSUME NEW s \in Senders, Sender(s) PROVE InStep'
  <2>1. /\ UNCHANGED reading /\ Current \in Nat /\ Current' \in Nat /\ Current <= Current'
        /\ \A k \in 1..Current : begun'[k] = begun[k]
        /\ Len(wire) \in Nat /\ Len(wire') \in Nat /\ Len(wire) <= Len(wire')
    BY <1>1, SendersAdd
  <2>2. \A k \in 1..Current : Ends(k)' = Ends(k)
    BY <2>1 DEF Ends
  <2>3. UNCHANGED <<reader, taken, decoded, received>>
    BY <2>1 DEF reading
  <2>4. ASSUME NEW k \in 1..Len(received)
        PROVE  /\ received[k] = [frame |-> k, payload |->
                                   Bytes(k, HeaderLen, HeaderLen + begun'[k].size)]
               /\ Ends(k)' <= Len(wire')
    <3>1. k \in 1..Current
      BY <1>0 DEF InStep
    <3>2. Ends(k) <= Len(wire) /\ Ends(k) \in Nat
      BY <1>0, <3>1, LastBegun DEF InStep
    <3> QED BY <1>0, <2>1, <2>2, <3>1, <3>2 DEF InStep
  <2>5. Len(received) <= Current'
    BY <1>0, <2>1 DEF InStep
  <2>6. reader = "header" => taken = IF Len(received) = 0 THEN 0 ELSE Ends(Len(received))'
    BY <1>0, <2>2, <2>3 DEF InStep
  <2>7. reader = "payload" =>
          /\ Len(received) < Current' /\ taken = begun'[Len(received) + 1].at + HeaderLen
          /\ decoded = [frame |-> Len(received) + 1, size |-> begun'[Len(received) + 1].size]
          /\ taken <= Len(wire')
    <3> SUFFICES ASSUME reader = "payload"
                 PROVE  /\ Len(received) < Current'
                        /\ taken = begun'[Len(received) + 1].at + HeaderLen
                        /\ decoded = [frame |-> Len(received) + 1,
                                      size |-> begun'[Len(received) + 1].size]
                        /\ taken <= Len(wire')
      OBVIOUS
    <3>1. Len(received) + 1 \in 1..Current /\ taken \in Nat
      BY <1>0 DEF InStep, WireTyped
    <3> QED BY <1>0, <2>1, <3>1 DEF InStep
  <2> QED BY <1>0, <2>3, <2>4, <2>5, <2>6, <2>7 DEF InStep
<1>2. CASE ReadHeader
  <2> DEFINE k == Len(received) + 1
  <2>1. reader = "header" /\ taken + HeaderLen <= Len(wire)
    BY <1>2 DEF ReadHeader
  <2>2. /\ k \in 1..Current /\ taken = begun[k].at /\ wire[taken + 1].frame = k
        /\ SubSeq(wire, taken + 1, taken + HeaderLen) = Bytes(k, 0, HeaderLen)
        /\ Decoded(k) = HeaderLen + begun[k].size
    BY <2>1, HeaderFound
  <2>3. begun[k].size \in Nat /\ begun[k].at \in Nat
    BY <2>2, LastBegun
  <2>4. Decoded(k) >= HeaderLen /\ Decoded(k) - HeaderLen = begun[k].size
    BY <2>2, <2>3
  <2>5. /\ decoded' = [frame |-> k, size |-> begun[k].size] /\ reader' = "payload"
        /\ taken' = begun[k].at + HeaderLen /\ UNCHANGED <<begun, wire, received>>
    BY <1>2, <2>2, <2>4 DEF ReadHeader
  <2>6. taken' <= Len(wire') /\ Len(received) < Current /\ Current' = Current
    BY <1>0, <2>1, <2>2, <2>5 DEF Current
  <2>7. \A j \in 1..Len(received) : Ends(j)' = Ends(j)
    BY <2>5 DEF Ends
  <2> QED BY <1>0, <2>5, <2>6, <2>7 DEF InStep
<1>3. CASE ReadPayload
  <2> DEFINE k == Len(received) + 1
  <2>1. reader = "payload" /\ taken + decoded.size <= Len(wire)
    BY <1>3 DEF ReadPayload
  <2>2. /\ k \in 1..Current /\ decoded.frame = k /\ taken + decoded.size = Ends(k)
        /\ SubSeq(wire, taken + 1, taken + decoded.size) =
             Bytes(k, HeaderLen, HeaderLen + begun[k].size)
    BY <2>1, PayloadFound
  <2> DEFINE new == [frame |-> k, payload |-> Bytes(k, HeaderLen, HeaderLen + begun[k].size)]
  <2>3. /\ received' = Append(received, new) /\ taken' = Ends(k) /\ reader' = "header"
        /\ UNCHANGED <<begun, wire>>
    BY <1>3, <2>2 DEF ReadPayload
  <2>4. /\ Len(received') = k /\ received'[k] = new
        /\ \A j \in 1..Len(received) : received'[j] = received[j]
    BY <2>3 DEF WireTyped
  <2>5. \A j \in 1..Current : Ends(j)' = Ends(j)
    BY <2>3 DEF Ends
  <2>6. Current' = Current /\ Ends(k) <= Len(wire')
    BY <2>1, <2>2, <2>3 DEF Current
  <2>7. k \in Nat /\ k > 0 /\ \A j \in 1..k : j \in 1..Len(received) \/ j = k
    BY <1>0
  <2> HIDE DEF k
  <2>8. \A j \in 1..k :
          /\ received'[j] = [frame |-> j, payload |->
                               Bytes(j, HeaderLen, HeaderLen + begun'[j].size)]
          /\ Ends(j)' <= Len(wire')
    <3> TAKE j \in 1..k
    <3>1. CASE j = k
      BY <2>2, <2>3, <2>4, <2>5, <2>6, <3>1
    <3>2. CASE j \in 1..Len(received)
      <4>1. j \in 1..Current
        BY <1>0, <3>2 DEF InStep
      <4> QED BY <1>0, <2>3, <2>4, <2>5, <3>2, <4>1 DEF InStep
    <3> QED BY <2>7, <3>1, <3>2
  <2> QED BY <1>0, <2>2, <2>3, <2>4, <2>5, <2>6, <2>7, <2>8 DEF InStep
<1>4. CASE TunnelCloses \/ ReaderEnds \/ UNCHANGED wireVars
  <2>1. /\ UNCHANGED <<begun, wire, taken, decoded, received>>
        /\ reader' \in {reader, "ended"}
    BY <1>4 DEF TunnelCloses, ReaderEnds, wireVars, task, reading
  <2> QED BY <1>0, <2>1 DEF InStep, Current, Ends
<1> QED BY <1>1, <1>2, <1>3, <1>4 DEF WireNext

\* What InStep says of one frame that was received.
LEMMA ReceivedOf ==
  ASSUME WireTyped, WireInv, NEW k \in DOMAIN received
  PROVE  /\ k \in 1..Len(received) /\ k \in 1..Current /\ k \in DOMAIN begun /\ k \in Nat
         /\ received[k] = [frame |-> k, payload |->
                             Bytes(k, HeaderLen, HeaderLen + begun[k].size)]
         /\ Ends(k) <= Len(wire) /\ Len(wire) \in Nat
<1>1. /\ Len(received) \in Nat /\ DOMAIN received = 1..Len(received) /\ Len(wire) \in Nat
      /\ Current \in Nat /\ DOMAIN begun = 1..Current
  BY DEF WireTyped, Current
<1>2. Len(received) <= Current
  BY DEF WireInv, InStep
<1>3. k \in 1..Len(received) /\ k \in 1..Current /\ k \in Nat
  BY <1>1, <1>2
<1> QED BY <1>1, <1>3 DEF WireInv, InStep

LEMMA WireInitially == WireInit => WireTyped /\ WireInv
BY DEF WireInit, WireTyped, WireInv, Guarded, Laid, Chained, InStep, GoesOn, Current

\* WireInv, with the types, holds in every reachable state.
LEMMA WireInductive == WireSpec => [](WireTyped /\ WireInv)
<1>1. WireTyped /\ WireInv /\ [WireNext]_wireVars => (WireTyped /\ WireInv)'
  BY WireTypedStep, GuardedStep, LaidStep, ChainedStep, InStepStep DEF WireInv
<1> QED BY <1>1, WireInitially, PTL DEF WireSpec

\* For every length field and every buffer: sendData's pieces fit the field, so WriteFrame finds
\* none too long, and ReadFrame finds the magic and a length it can believe at every turn.
LEMMA FramesAccepted == WireInv => NoFrameRefused
BY DEF WireInv, InStep, Guarded, NoFrameRefused

\* sendMu around WriteFrame and the closing of the tunnel after a write that failed keep the
\* two ends in step: ReadFrame returns exactly the frames that were begun, from the first on,
\* each whole, however many goroutines send, whatever sizes they send, and wherever a write
\* breaks off; and no frame is refused at either end.
THEOREM ReaderInSync == WireSpec => []InSync
<1>1. WireTyped /\ WireInv => InSync
  BY ReceivedOf, FramesAccepted DEF InSync
<1> QED BY <1>1, WireInductive, PTL

\* The frames received of a stream carry its bytes without a gap and none twice, however
\* sendData cut its buffers and whatever failed before the tunnel closed.
THEOREM StreamsWhole == WireSpec => []StreamWhole
<1>1. ASSUME WireTyped, WireInv PROVE StreamWhole
  <2> SUFFICES ASSUME NEW k \in DOMAIN received PROVE Follows(k)
    BY DEF StreamWhole
  <2>2. k \in 1..Current /\ k \in Nat /\ Ends(k) <= Len(wire) /\ Len(wire) \in Nat
    BY <1>1, ReceivedOf
  <2>3. begun[k].at \in Nat /\ begun[k].size \in Nat
    BY <1>1, <2>2, LastBegun
  <2>4. begun[k].at < Len(wire)
    BY <2>2, <2>3 DEF Ends
  <2>5. GoesOn(begun, begun[k].by, k - 1, begun[k].from)
    BY <1>1, <2>2, <2>4 DEF WireInv, Chained
  <2> QED BY <2>5 DEF GoesOn, LastBefore, Follows, Before
<1> QED BY <1>1, WireInductive, PTL
==============================================================================
