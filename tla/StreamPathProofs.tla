--------------------------- MODULE StreamPathProofs ---------------------------
(***************************************************************************)
(* For any loads and any capacities: the types of StreamPath with the      *)
(* bounds of its two queues, and that both directions of a stream          *)
(* implement BytePipe.                                                     *)
(***************************************************************************)
EXTENDS StreamPath, TLAPS

Ends == [fin : BOOLEAN, gone : BOOLEAN]
AtWork == [at : {"select", "write", "ended"}, chunk : Nat]

Typed ==
  /\ upRead \in Nat /\ pumpRead \in Nat
  /\ up \in Seq(Nat) /\ down \in Seq(Nat) /\ inbox \in Seq(Nat) /\ out \in Seq(Nat)
  /\ wc3Got \in Seq(Nat) /\ farGot \in Seq(Nat)
  /\ feeder \in AtWork /\ writer \in AtWork
  /\ copyDown \in [at : {"dial", "read", "write", "bye", "shut", "shutting", "release",
                         "ended"}, chunk : Nat]
  /\ local \in {"none", "open", "halfClosed", "closed"} /\ sock \in {"open", "closed"}
  /\ copyUp \in {"none", "read", "bye", "shut", "shutting", "ended"}
  /\ closing \in {"no", "local", "done"}
  /\ pump \in {"read", "bye", "remove", "ended"}
Flags == wc3 \in Ends /\ far \in Ends /\ {bridged, closeSent, reg, tunUp, conn} \subseteq BOOLEAN
Bounded == Len(inbox) <= InboxCap /\ Len(out) <= OutCap
-----------------------------------------------------------------------------
(* Towards WC3: everything on the way is in order, and behind it what WC3 got. *)

Told == DownPipe!Last

\* The chunks of an inbox q and, after them, of the tunnel's frames d: each is larger than
\* those before it, and none than n.
Ordered(q, d, n) ==
  /\ \A i, j \in 1..Len(q) : i < j => q[i] < q[j]
  /\ \A i, j \in 1..Len(d) : i < j /\ d[i] # Close /\ d[j] # Close => d[i] < d[j]
  /\ \A i \in 1..Len(q), j \in 1..Len(d) : d[j] # Close => q[i] < d[j]
  /\ \A i \in 1..Len(q) : q[i] <= n
  /\ \A j \in 1..Len(d) : d[j] <= n

\* A chunk that is ahead of all of them.
Ahead(chunk, q, d) ==
  /\ \A i \in 1..Len(q) : chunk < q[i]
  /\ \A j \in 1..Len(d) : d[j] # Close => chunk < d[j]

\* The chunks on the way: those, before them the feeder's, copyDown's and what WC3 got.
InOrder ==
  /\ Ordered(inbox, down, pumpRead)
  /\ feeder.at = "write" => Ahead(feeder.chunk, inbox, down) /\ Told < feeder.chunk
  /\ copyDown.at = "write" =>
       /\ Ahead(copyDown.chunk, inbox, down) /\ Told < copyDown.chunk
       /\ feeder.at = "write" => copyDown.chunk < feeder.chunk
  /\ Ahead(Told, inbox, down)
  /\ feeder.chunk <= pumpRead /\ copyDown.chunk <= pumpRead /\ Told <= pumpRead
-----------------------------------------------------------------------------
(* Towards the far peer: as long as its socket is open no chunk is missing. *)

Sent == UpPipe!Last
InHand == IF writer.at = "write" THEN 1 ELSE 0
Queued == Sent + InHand + Len(out)

\* The first CLOSE ends it for the relay.
NoGap ==
  sock = "open" =>
    /\ writer.at = "write" => writer.chunk = Sent + 1
    /\ \A i \in 1..Len(out) : out[i] = Sent + InHand + i
    /\ Queued <= upRead
    /\ conn =>
         /\ \A i \in 1..Len(up) :
              (\A k \in 1..i : up[k] # Close) => up[i] = Queued + i /\ up[i] <= upRead
         /\ tunUp /\ (\A k \in 1..Len(up) : up[k] # Close) => Queued + Len(up) = upRead
    /\ ~tunUp => up = <<>>

IInv == Typed /\ Flags /\ Bounded /\ InOrder /\ NoGap
-----------------------------------------------------------------------------
(* Sequences. *)

\* Taking a frame or a chunk off a queue.
LEMMA TailAt ==
  ASSUME NEW s \in Seq(Nat), s # <<>>
  PROVE  /\ Len(s) \in Nat /\ Len(s) >= 1 /\ Head(s) = s[1] /\ s[1] \in Nat
         /\ Tail(s) \in Seq(Nat) /\ Len(Tail(s)) = Len(s) - 1
         /\ \A i \in 1..Len(Tail(s)) : Tail(s)[i] = s[i + 1] /\ i + 1 \in 1..Len(s)
OBVIOUS

\* Putting one on.
LEMMA AppendAt ==
  ASSUME NEW s \in Seq(Nat), NEW x \in Nat
  PROVE  /\ Append(s, x) \in Seq(Nat) /\ Len(s) \in Nat /\ Len(Append(s, x)) = Len(s) + 1
         /\ \A i \in 1..Len(s) : Append(s, x)[i] = s[i]
         /\ Append(s, x)[Len(s) + 1] = x /\ Append(s, x) # <<>>
OBVIOUS

\* What came out last, after one more.
LEMMA LastAppended ==
  ASSUME NEW s \in Seq(Nat), NEW x \in Nat
  PROVE  LET t == Append(s, x) IN (IF t = <<>> THEN 0 ELSE t[Len(t)]) = x
BY AppendAt

\* What came out last is a chunk, or nothing yet.
LEMMA LastTyped ==
  ASSUME Typed
  PROVE  /\ Told \in Nat /\ Told = IF wc3Got = <<>> THEN 0 ELSE wc3Got[Len(wc3Got)]
         /\ Sent \in Nat /\ Sent = IF farGot = <<>> THEN 0 ELSE farGot[Len(farGot)]
BY DEF Typed, Told, Sent, UpPipe!Last, DownPipe!Last

\* An element of a queue is a chunk.
LEMMA Elements ==
  ASSUME NEW s \in Seq(Nat), NEW i \in 1..Len(s)
  PROVE  s[i] \in Nat
OBVIOUS
-----------------------------------------------------------------------------
(* Types. *)

\* Queues hold chunks and goroutines are at their places: the steps of the launcher ...
LEMMA TypedLauncher ==
  ASSUME Typed, Demux \/ Feeder \/ CopyUp \/ CopyDown \/ CopyDownWrites \/ HandleReturns
  PROVE  Typed'
<1> USE DEF Typed, AtWork, Idle, Holding, wc3Side, copies, strm, tun, relay, farSide
<1>1. CASE DemuxData
  <2>1. down \in Seq(Nat) /\ down # <<>> /\ inbox \in Seq(Nat)
    BY <1>1 DEF DemuxData
  <2>2. Tail(down) \in Seq(Nat) /\ Append(inbox, Head(down)) \in Seq(Nat)
    BY <2>1, TailAt, AppendAt
  <2>3. inbox' \in {inbox, Append(inbox, Head(down))} /\ closing' \in {closing, "done"}
    BY <1>1 DEF DemuxData, Deliver
  <2>4. inbox' \in Seq(Nat)
    BY <2>1, <2>2, <2>3
  <2>5. down' \in Seq(Nat)
    BY <1>1, <2>2 DEF DemuxData
  <2>6. closing' \in {"no", "local", "done"}
    BY <2>3
  <2>7. UNCHANGED <<wc3Side, copies, feeder, reg, up, tunUp, relay, farSide>>
    BY <1>1 DEF DemuxData
  <2> QED
    BY <2>4, <2>5, <2>6, <2>7
<1>2. CASE DemuxClose \/ DemuxEnds
  <2>1. CASE DemuxClose
    BY <2>1, TailAt DEF DemuxClose, ShutdownFromDemux
  <2>2. CASE DemuxEnds
    BY <2>2 DEF DemuxEnds, ShutdownFromDemux
  <2> QED
    BY <1>2, <2>1, <2>2
<1>3. CASE FeederTakes
  <2>1. inbox \in Seq(Nat) /\ (inbox # <<>> => Tail(inbox) \in Seq(Nat) /\ Head(inbox) \in Nat)
    BY TailAt
  <2>2. /\ inbox' = inbox \/ (inbox # <<>> /\ inbox' = Tail(inbox))
        /\ \/ feeder' = Holding("ended", 0)
           \/ inbox # <<>> /\ feeder' = Holding("write", Head(inbox))
    BY <1>3 DEF FeederTakes
  <2>3. UNCHANGED <<wc3Side, copies, closing, reg, tun, relay, farSide>>
    BY <1>3 DEF FeederTakes
  <2>4. inbox' \in Seq(Nat)
    BY <2>1, <2>2
  <2>5. feeder' \in AtWork
    <3>1. CASE feeder' = Holding("ended", 0)
      BY <3>1
    <3>2. CASE inbox # <<>> /\ feeder' = Holding("write", Head(inbox))
      <4>1. Head(inbox) \in Nat
        BY <2>1, <3>2
      <4> QED
        BY <3>2, <4>1
    <3> QED
      BY <2>2, <3>1, <3>2
  <2> QED
    BY <2>3, <2>4, <2>5
<1>4. CASE FeederHands \/ FeederFails
  BY <1>4 DEF FeederHands, FeederFails
<1>5. CASE CopyUpReads
  <2>1. upRead + 1 \in Nat /\ Append(up, upRead + 1) \in Seq(Nat)
    BY AppendAt
  <2> QED
    BY <1>5, <2>1 DEF CopyUpReads, SendUp
<1>6. CASE CopyUpEnds \/ BridgeDials \/ CopyDownEnds \/ HandleReturns
  BY <1>6 DEF CopyUpEnds, BridgeDials, CopyDownEnds, HandleReturns
<1>7. ASSUME NEW loop \in Loops, Closer(loop)
      PROVE  Typed'
  <2>1. Append(up, Close) \in Seq(Nat)
    BY AppendAt DEF Close
  <2>2. CASE SayBye(loop)
    <3>1. up' \in {up, Append(up, Close)} /\ down' = down
      BY <2>2 DEF SayBye, SendUp
    <3>2. /\ UNCHANGED <<wc3Side, upRead, strm, relay, farSide>>
          /\ copyUp' \in {copyUp, "shut"} /\ copyDown' \in {copyDown, Holding("shut", 0)}
      BY <2>2 DEF SayBye, LoopGoes
    <3>3. up' \in Seq(Nat) /\ down' \in Seq(Nat)
      BY <2>1, <3>1
    <3> QED
      BY <3>2, <3>3
  <2>3. CASE ShutBegins(loop) \/ ShutEnds(loop)
    BY <2>3 DEF ShutBegins, ShutEnds, LoopAt, LoopGoes, LoopDone, Loops
  <2> QED
    BY <1>7, <2>2, <2>3 DEF Closer
<1>8. CASE BridgeReturns
  BY <1>8 DEF BridgeReturns, LoopGoes
<1>9. CASE CopyDownWrites
  <2>1. Append(wc3Got, copyDown.chunk) \in Seq(Nat)
    BY AppendAt
  <2> QED
    BY <1>9, <2>1 DEF CopyDownWrites
<1> QED
  BY <1>1, <1>2, <1>3, <1>4, <1>5, <1>6, <1>7, <1>8, <1>9
     DEF Demux, Feeder, CopyUp, CopyDown, Loops

\* ... and those of the relay, the peers and the tunnel.
LEMMA TypedRelay ==
  ASSUME Typed, RelayReader \/ Writer \/ Pump \/ WC3Ends \/ FarEnds \/ TunnelBreaks
  PROVE  Typed'
<1> USE DEF Typed, AtWork, Idle, Holding, wc3Side, copies, strm, tun, relay, farSide
<1>1. CASE RelayData
  <2>1. up \in Seq(Nat) /\ up # <<>> /\ out \in Seq(Nat)
    BY <1>1 DEF RelayData
  <2>2. Tail(up) \in Seq(Nat) /\ Append(out, Head(up)) \in Seq(Nat)
    BY <2>1, TailAt, AppendAt
  <2>3. out' \in {out, Append(out, Head(up))} /\ sock' \in {sock, "closed"}
    BY <1>1 DEF RelayData, RelayDeliver
  <2>4. /\ up' = Tail(up)
        /\ UNCHANGED <<wc3Side, copies, strm, down, tunUp, writer, pump, pumpRead, farSide>>
    BY <1>1 DEF RelayData
  <2>5. up' \in Seq(Nat) /\ out' \in Seq(Nat)
    BY <2>1, <2>2, <2>3, <2>4
  <2>6. sock' \in {"open", "closed"}
    BY <2>3
  <2>7. UNCHANGED <<wc3Side, copies, strm, down, tunUp, writer, pump, pumpRead, farSide>>
    BY <2>4
  <2> QED
    BY <2>5, <2>6, <2>7
<1>2. CASE RelayClose \/ RelayEnds
  <2>1. CASE RelayClose
    BY <2>1, TailAt DEF RelayClose
  <2>2. CASE RelayEnds
    BY <2>2 DEF RelayEnds
  <2> QED
    BY <1>2, <2>1, <2>2
<1>3. CASE WriterTakes
  <2>1. out \in Seq(Nat) /\ (out # <<>> => Tail(out) \in Seq(Nat) /\ Head(out) \in Nat)
    BY TailAt
  <2>2. /\ out' = out \/ (out # <<>> /\ out' = Tail(out))
        /\ \/ writer' = Holding("ended", 0)
           \/ out # <<>> /\ writer' = Holding("write", Head(out))
    BY <1>3 DEF WriterTakes
  <2>3. UNCHANGED <<wc3Side, copies, strm, tun, conn, sock, pump, pumpRead, farSide>>
    BY <1>3 DEF WriterTakes
  <2>4. out' \in Seq(Nat)
    BY <2>1, <2>2
  <2>5. writer' \in AtWork
    <3>1. CASE writer' = Holding("ended", 0)
      BY <3>1
    <3>2. CASE out # <<>> /\ writer' = Holding("write", Head(out))
      <4>1. Head(out) \in Nat
        BY <2>1, <3>2
      <4> QED
        BY <3>2, <4>1
    <3> QED
      BY <2>2, <3>1, <3>2
  <2> QED
    BY <2>3, <2>4, <2>5
<1>4. CASE WriterWrites
  <2>1. Append(farGot, writer.chunk) \in Seq(Nat)
    BY AppendAt
  <2> QED
    BY <1>4, <2>1 DEF WriterWrites
<1>5. CASE PumpReads
  <2>1. pumpRead + 1 \in Nat /\ Append(down, pumpRead + 1) \in Seq(Nat)
    BY AppendAt
  <2> QED
    BY <1>5, <2>1 DEF PumpReads, SendDown
<1>6. CASE PumpSaysBye
  <2>1. Append(down, Close) \in Seq(Nat)
    BY AppendAt DEF Close
  <2> QED
    BY <1>6, <2>1 DEF PumpSaysBye, SendDown
<1>7. CASE WriterFails \/ PumpEnds \/ PumpRemoves
  BY <1>7 DEF WriterFails, PumpEnds, PumpRemoves
<1>8. CASE WC3Ends \/ FarEnds
  <2>1. UNCHANGED <<local, wc3Got, farGot, copies, strm, tun, relay>>
    BY <1>8, Zenon DEF WC3Ends, FarEnds
  <2> QED
    BY <2>1
<1>9. CASE TunnelBreaks
  BY <1>9 DEF TunnelBreaks
<1> QED
  BY <1>1, <1>2, <1>3, <1>4, <1>5, <1>6, <1>7, <1>8, <1>9 DEF RelayReader, Writer, Pump

\* A peer that ends is still a peer.
LEMMA EndsTyped ==
  ASSUME NEW e \in Ends, NEW all \in BOOLEAN
  PROVE  [e EXCEPT !.fin = TRUE, !.gone = all] \in Ends
BY DEF Ends

\* The flags change in these ways only.
Turns ==
  /\ bridged' = bridged
  /\ wc3' = wc3 \/ \E all \in BOOLEAN : wc3' = [wc3 EXCEPT !.fin = TRUE, !.gone = all]
  /\ far' = far \/ \E all \in BOOLEAN : far' = [far EXCEPT !.fin = TRUE, !.gone = all]
  /\ closeSent' = closeSent \/ closeSent' = TRUE
  /\ reg' = reg \/ reg' = FALSE
  /\ tunUp' = tunUp \/ tunUp' = FALSE
  /\ conn' = conn \/ conn' = FALSE

\* Every step turns them so.
LEMMA FlagsTurn ==
  ASSUME Next
  PROVE  Turns
<1> USE DEF Turns, wc3Side, copies, strm, tun, relay, farSide
<1>1. CASE Demux
  BY <1>1, Zenon DEF Demux, DemuxData, DemuxClose, DemuxEnds
<1>2. CASE Feeder
  BY <1>2, Zenon DEF Feeder, FeederTakes, FeederHands, FeederFails
<1>3. ASSUME NEW loop, Closer(loop)
      PROVE  Turns
  BY <1>3, Zenon DEF Closer, SayBye, ShutBegins, ShutEnds, SendUp
<1>4. CASE CopyUp
  BY <1>3, <1>4, Zenon DEF CopyUp, CopyUpReads, CopyUpEnds, SendUp
<1>5. CASE CopyDown
  BY <1>3, <1>5, Zenon DEF CopyDown, BridgeDials, CopyDownEnds, BridgeReturns, LoopGoes
<1>6. CASE CopyDownWrites \/ HandleReturns
  BY <1>6, Zenon DEF CopyDownWrites, HandleReturns
<1>7. CASE RelayReader
  BY <1>7, Zenon DEF RelayReader, RelayData, RelayDeliver, RelayClose, RelayEnds
<1>8. CASE Writer
  BY <1>8, Zenon DEF Writer, WriterTakes, WriterWrites, WriterFails
<1>9. CASE Pump
  BY <1>9, Zenon DEF Pump, PumpReads, PumpEnds, PumpSaysBye, PumpRemoves, SendDown
<1>10. CASE WC3Ends \/ FarEnds \/ TunnelBreaks
  BY <1>10, Zenon DEF WC3Ends, FarEnds, TunnelBreaks
<1> QED
  BY <1>1, <1>2, <1>4, <1>5, <1>6, <1>7, <1>8, <1>9, <1>10 DEF Next

\* So they stay flags.
LEMMA FlagsKept ==
  ASSUME Flags, Next
  PROVE  Flags'
<1>1. Turns
  BY FlagsTurn
<1>2. wc3' \in Ends /\ far' \in Ends
  BY <1>1, EndsTyped, Zenon DEF Turns, Flags
<1>3. {bridged', closeSent', reg', tunUp', conn'} \subseteq BOOLEAN
  BY <1>1, Zenon DEF Turns, Flags
<1> QED
  BY <1>2, <1>3, Zenon DEF Flags
-----------------------------------------------------------------------------
(* Towards the far peer. *)

upVars == <<upRead, up, tunUp, conn, out, writer, sock, farGot>>

\* The steps of the launcher, and what they leave of this direction.
LEMMA LauncherUp ==
  ASSUME \/ Demux \/ Feeder \/ CopyUp \/ CopyDown \/ CopyDownWrites \/ HandleReturns
  PROVE  \/ UNCHANGED upVars \/ CopyUpReads
         \/ \E loop \in Loops : SayBye(loop)
<1> USE DEF upVars, wc3Side, copies, strm, tun, relay, farSide
<1>1. CASE Demux \/ Feeder
  BY <1>1 DEF Demux, DemuxData, DemuxClose, DemuxEnds, Feeder, FeederTakes, FeederHands, FeederFails
<1>2. ASSUME NEW loop \in Loops, Closer(loop)
      PROVE  UNCHANGED upVars \/ SayBye(loop)
  BY <1>2 DEF Closer, ShutBegins, ShutEnds
<1>3. CASE CopyUp
  BY <1>2, <1>3 DEF CopyUp, CopyUpEnds, Loops
<1>4. CASE CopyDown
  BY <1>2, <1>4 DEF CopyDown, BridgeDials, CopyDownEnds, BridgeReturns, Loops
<1>5. CASE CopyDownWrites \/ HandleReturns
  BY <1>5 DEF CopyDownWrites, HandleReturns
<1> QED
  BY <1>1, <1>3, <1>4, <1>5

\* The steps of the relay and the world.
LEMMA RelayUp ==
  ASSUME RelayReader \/ Writer \/ Pump \/ WC3Ends \/ FarEnds \/ TunnelBreaks
  PROVE  \/ UNCHANGED upVars \/ RelayData \/ RelayClose \/ WriterTakes \/ WriterWrites
         \/ TunnelBreaks \/ PumpRemoves
         \/ (sock' = "closed" /\ UNCHANGED <<upRead, farGot>>)
<1> USE DEF upVars, wc3Side, copies, strm, tun, relay, farSide
<1>1. CASE RelayReader \/ Writer
  BY <1>1 DEF RelayReader, RelayEnds, Writer, WriterFails
<1>2. CASE PumpReads \/ PumpEnds \/ PumpSaysBye
  BY <1>2 DEF PumpReads, PumpEnds, PumpSaysBye, SendDown
<1>3. CASE WC3Ends \/ FarEnds
  BY <1>3, Zenon DEF WC3Ends, FarEnds
<1> QED
  BY <1>1, <1>2, <1>3 DEF Pump

\* No chunk is left out: the invariant of this direction is kept.
LEMMA NoGapKept ==
  ASSUME Typed, NoGap, Next
  PROVE  NoGap'
<1> USE DEF Close
<1>1. CASE UNCHANGED upVars
  BY <1>1 DEF upVars, NoGap, Queued, InHand, Sent, UpPipe!Last
<1>2. CASE sock' = "closed"
  BY <1>2 DEF NoGap
<1>t. /\ up \in Seq(Nat) /\ out \in Seq(Nat) /\ farGot \in Seq(Nat) /\ upRead \in Nat
      /\ Sent \in Nat /\ Len(out) \in Nat /\ Len(up) \in Nat /\ InHand \in {0, 1}
  BY LastTyped DEF Typed, InHand
<1>3. CASE CopyUpReads
  <2>1. UNCHANGED <<tunUp, conn, out, writer, sock, farGot>> /\ upRead' = upRead + 1
    BY <1>3 DEF CopyUpReads, SendUp, relay, farSide
  <2>2. Sent' = Sent /\ InHand' = InHand /\ Queued' = Queued
    BY <2>1 DEF Sent, UpPipe!Last, InHand, Queued
  <2>3. CASE tunUp
    <3>1. up' = Append(up, upRead + 1)
      BY <1>3, <2>1, <2>3 DEF CopyUpReads, SendUp
    <3>2. /\ Len(up') = Len(up) + 1 /\ up'[Len(up) + 1] = upRead + 1
          /\ \A i \in 1..Len(up) : up'[i] = up[i]
      BY <1>t, <3>1, AppendAt
    <3> SUFFICES ASSUME sock = "open"
                 PROVE  NoGap'
      BY <2>1 DEF NoGap
    <3>3. /\ writer'.at = "write" => writer'.chunk = Sent' + 1
          /\ \A i \in 1..Len(out') : out'[i] = Sent' + InHand' + i
          /\ Queued \in Nat /\ Queued' <= upRead' /\ tunUp'
      BY <1>t, <2>1, <2>2, <2>3 DEF NoGap, Queued
    <3>4. ASSUME conn', NEW i \in 1..Len(up'), \A k \in 1..i : up'[k] # Close
          PROVE  up'[i] = Queued' + i /\ up'[i] <= upRead'
      <4>1. CASE i \in 1..Len(up)
        <5>1. ASSUME NEW k \in 1..i
              PROVE  up[k] # Close
          <6>1. k \in 1..Len(up)
            BY <1>t, <4>1
          <6>2. up'[k] = up[k]
            BY <3>2, <6>1
          <6> QED
            BY <3>4, <6>2
        <5>2. up[i] = Queued + i /\ up[i] <= upRead
          BY <2>1, <3>4, <4>1, <5>1 DEF NoGap
        <5> QED
          BY <1>t, <2>1, <2>2, <3>2, <4>1, <5>2
      <4>2. CASE i = Len(up) + 1
        <5>1. ASSUME NEW k \in 1..Len(up)
              PROVE  up[k] # Close
          <6>1. k \in 1..i
            BY <1>t, <4>2
          <6>2. up'[k] = up[k]
            BY <3>2
          <6> QED
            BY <3>4, <6>1, <6>2
        <5>2. Queued + Len(up) = upRead
          BY <2>1, <2>3, <3>4, <5>1 DEF NoGap
        <5> QED
          BY <1>t, <2>1, <2>2, <3>2, <3>3, <4>2, <5>2
      <4> QED
        BY <1>t, <3>2, <4>1, <4>2
    <3>5. ASSUME conn', \A k \in 1..Len(up') : up'[k] # Close
          PROVE  Queued' + Len(up') = upRead'
      <4>1. \A k \in 1..Len(up) : up[k] # Close
        BY <1>t, <3>2, <3>5
      <4>2. Queued + Len(up) = upRead
        BY <2>1, <2>3, <3>5, <4>1 DEF NoGap
      <4>3. Len(up) \in Nat /\ Len(up') = Len(up) + 1
        BY <1>t, <3>2
      <4>4. Queued \in Nat /\ Queued' = Queued /\ upRead' = upRead + 1
        BY <2>1, <2>2, <3>3
      <4> QED
        BY <4>2, <4>3, <4>4
    <3> QED
      BY <3>3, <3>4, <3>5 DEF NoGap
  <2>4. CASE ~tunUp
    <3>1. up' = up
      BY <1>3, <2>1, <2>4 DEF CopyUpReads, SendUp
    <3> QED
      BY <1>t, <2>1, <2>2, <2>4, <3>1, Elements DEF NoGap, Queued
  <2> QED
    BY <2>3, <2>4
<1>4. ASSUME NEW loop \in Loops, SayBye(loop)
      PROVE  NoGap'
  <2>1. UNCHANGED <<tunUp, conn, out, writer, sock, farGot, upRead>>
    BY <1>4 DEF SayBye, SendUp, relay, farSide, tun
  <2>2. Sent' = Sent /\ InHand' = InHand /\ Queued' = Queued
    BY <2>1 DEF Sent, UpPipe!Last, InHand, Queued
  <2>3. CASE up' = up
    BY <2>1, <2>2, <2>3 DEF NoGap
  <2>4. CASE tunUp /\ up' = Append(up, Close)
    <3>2. /\ Len(up') = Len(up) + 1 /\ up'[Len(up) + 1] = Close
          /\ \A i \in 1..Len(up) : up'[i] = up[i]
      BY <1>t, <2>4, AppendAt
    <3> QED
      BY <1>t, <2>1, <2>2, <2>4, <3>2 DEF NoGap, Queued
  <2> QED
    BY <1>4, <2>3, <2>4 DEF SayBye, SendUp, tun
<1>5. CASE TunnelBreaks
  <2>1. /\ UNCHANGED <<conn, out, writer, sock, farGot, upRead>> /\ up' = <<>> /\ ~tunUp'
    BY <1>5 DEF TunnelBreaks, copies, relay, farSide
  <2>2. Sent' = Sent /\ InHand' = InHand /\ Queued' = Queued
    BY <2>1 DEF Sent, UpPipe!Last, InHand, Queued
  <2> QED
    BY <2>1, <2>2 DEF NoGap
<1>6. CASE RelayData /\ sock' = "open"
  <2>1. UNCHANGED <<tunUp, writer, farGot, upRead>> /\ up # <<>> /\ up' = Tail(up) /\ Head(up) # Close
    BY <1>6 DEF RelayData, copies, farSide
  <2>2. Sent' = Sent /\ InHand' = InHand
    BY <2>1 DEF Sent, UpPipe!Last, InHand
  <2>3. /\ Head(up) = up[1] /\ up[1] \in Nat /\ Len(up') = Len(up) - 1 /\ Len(up) >= 1
        /\ \A i \in 1..Len(up') : up'[i] = up[i + 1] /\ i + 1 \in 1..Len(up)
    BY <1>t, <2>1, TailAt
  <2>4. CASE conn
    <3>1. out' = Append(out, up[1]) /\ UNCHANGED <<conn, sock>>
      BY <1>6, <2>3, <2>4 DEF RelayData, RelayDeliver
    <3>2. /\ Len(out') = Len(out) + 1 /\ out'[Len(out) + 1] = up[1]
          /\ \A i \in 1..Len(out) : out'[i] = out[i]
      BY <1>t, <2>3, <3>1, AppendAt
    <3>3. sock = "open" /\ Queued \in Nat /\ Queued' = Queued + 1
      BY <1>t, <1>6, <2>2, <3>1, <3>2 DEF Queued
    <3>4. up[1] = Queued + 1 /\ up[1] <= upRead
      <4>1. \A k \in 1..1 : up[k] # Close
        BY <2>1, <2>3
      <4>2. 1 \in 1..Len(up)
        BY <1>t, <2>3
      <4> QED
        BY <2>4, <3>3, <4>1, <4>2 DEF NoGap
    <3>5. \A i \in 1..Len(out') : out'[i] = Sent' + InHand' + i
      <4>1. \A i \in 1..Len(out) : out[i] = Sent + InHand + i
        BY <3>3 DEF NoGap
      <4>2. up[1] = Sent + InHand + (Len(out) + 1)
        BY <1>t, <3>4 DEF Queued
      <4>3. ASSUME NEW i \in 1..Len(out')
            PROVE  out'[i] = Sent + InHand + i
        <5>1. CASE i \in 1..Len(out)
          BY <3>2, <4>1, <5>1
        <5>2. CASE i = Len(out) + 1
          BY <3>2, <4>2, <5>2
        <5>3. Len(out) \in Nat /\ Len(out') = Len(out) + 1
          BY <1>t, <3>2
        <5> QED
          BY <5>1, <5>2, <5>3
      <4> QED
        BY <2>2, <4>3
    <3>6. /\ writer'.at = "write" => writer'.chunk = Sent' + 1
          /\ Queued' <= upRead' /\ (~tunUp' => up' = <<>>)
      BY <1>t, <2>1, <2>2, <3>3, <3>4 DEF NoGap
    <3>7. ASSUME NEW i \in 1..Len(up'), \A k \in 1..i : up'[k] # Close
          PROVE  up'[i] = Queued' + i /\ up'[i] <= upRead'
      <4>1. i + 1 \in 1..Len(up) /\ up'[i] = up[i + 1]
        BY <2>3
      <4>2. ASSUME NEW k \in 1..(i + 1)
            PROVE  up[k] # Close
        <5>1. CASE k = 1
          BY <2>1, <2>3, <5>1
        <5>2. CASE k # 1
          <6>1. k - 1 \in 1..i /\ k - 1 \in 1..Len(up') /\ (k - 1) + 1 = k
            BY <1>t, <2>3, <5>2
          <6>2. up'[k - 1] = up[k]
            BY <2>3, <6>1
          <6> QED
            BY <3>7, <6>1, <6>2
        <5> QED
          BY <5>1, <5>2
      <4>3. up[i + 1] = Queued + (i + 1) /\ up[i + 1] <= upRead
        BY <2>4, <3>3, <4>1, <4>2 DEF NoGap
      <4> QED
        BY <1>t, <2>1, <3>3, <4>1, <4>3
    <3>8. ASSUME tunUp, \A k \in 1..Len(up') : up'[k] # Close
          PROVE  Queued' + Len(up') = upRead'
      <4>1. ASSUME NEW k \in 1..Len(up)
            PROVE  up[k] # Close
        <5>1. CASE k = 1
          BY <2>1, <2>3, <5>1
        <5>2. CASE k # 1
          <6>1. k - 1 \in 1..Len(up') /\ (k - 1) + 1 = k
            BY <1>t, <2>3, <5>2
          <6>2. up'[k - 1] = up[k]
            BY <2>3, <6>1
          <6> QED
            BY <3>8, <6>1, <6>2
        <5> QED
          BY <5>1, <5>2
      <4>2. Queued + Len(up) = upRead
        BY <2>4, <3>3, <3>8, <4>1 DEF NoGap
      <4>3. Len(up) \in Nat /\ Len(up') = Len(up) - 1 /\ upRead' = upRead
        BY <1>t, <2>1, <2>3
      <4> QED
        BY <3>3, <4>2, <4>3
    <3> QED
      BY <2>1, <3>5, <3>6, <3>7, <3>8 DEF NoGap
  <2>5. CASE ~conn
    <3>1. UNCHANGED <<out, conn, sock>>
      BY <1>6, <2>5 DEF RelayData
    <3> QED
      BY <1>t, <1>6, <2>1, <2>2, <2>3, <2>5, <3>1 DEF NoGap, Queued
  <2> QED
    BY <2>4, <2>5
<1>7. CASE (RelayClose \/ PumpRemoves) /\ sock' = "open"
  <2>1. /\ UNCHANGED <<tunUp, writer, farGot, upRead, out>> /\ ~conn' /\ sock = "open"
        /\ up' = up \/ up # <<>>
    BY <1>7 DEF RelayClose, PumpRemoves, copies, farSide, tun
  <2>2. Sent' = Sent /\ InHand' = InHand /\ Queued' = Queued
    BY <2>1 DEF Sent, UpPipe!Last, InHand, Queued
  <2> QED
    BY <2>1, <2>2 DEF NoGap
<1>8. CASE WriterTakes /\ sock' = "open"
  <2>1. /\ UNCHANGED <<upRead, up, tunUp, conn, sock, farGot>> /\ out # <<>> /\ out' = Tail(out)
        /\ writer.at = "select" /\ writer' = Holding("write", Head(out))
    BY <1>8 DEF WriterTakes, copies, tun, farSide
  <2>2. Sent' = Sent /\ InHand = 0 /\ InHand' = 1 /\ writer'.at = "write" /\ writer'.chunk = Head(out)
    BY <2>1 DEF Sent, UpPipe!Last, InHand, Holding
  <2>3. /\ Head(out) = out[1] /\ Len(out') = Len(out) - 1 /\ Len(out) >= 1
        /\ \A i \in 1..Len(out') : out'[i] = out[i + 1] /\ i + 1 \in 1..Len(out)
    BY <1>t, <2>1, TailAt
  <2>4. Queued' = Queued
    BY <1>t, <2>2, <2>3 DEF Queued
  <2> QED
    BY <1>t, <1>8, <2>1, <2>2, <2>3, <2>4 DEF NoGap
<1>9. CASE WriterWrites
  <2>1. /\ UNCHANGED <<upRead, up, tunUp, conn, out, sock>> /\ farGot' = Append(farGot, writer.chunk)
        /\ writer.at = "write" /\ writer' = Idle /\ sock = "open"
    BY <1>9 DEF WriterWrites, copies, tun
  <2>2. writer.chunk = Sent + 1 /\ InHand = 1 /\ InHand' = 0 /\ writer'.at = "select"
    BY <2>1 DEF NoGap, InHand, Idle
  <2>3. Sent' = Sent + 1
    BY <1>t, <2>1, <2>2, AppendAt DEF Sent, UpPipe!Last
  <2>4. Queued' = Queued
    BY <1>t, <2>1, <2>2, <2>3 DEF Queued
  <2> QED
    BY <1>t, <2>1, <2>2, <2>3, <2>4 DEF NoGap
<1> QED
  <2>1. sock' = "closed" \/ sock' = "open"
    BY TypedLauncher, TypedRelay DEF Next, Typed
  <2> QED
    BY <1>1, <1>2, <1>3, <1>4, <1>5, <1>6, <1>7, <1>8, <1>9, <2>1, LauncherUp, RelayUp DEF Next

\* Every step is one of the pipe's, or none.
LEMMA UpSteps ==
  ASSUME Typed, NoGap, Next
  PROVE  [UpPipe!Next]_<<upRead, farGot>>
<1>1. CASE CopyUpReads
  BY <1>1 DEF CopyUpReads, UpPipe!Next, UpPipe!Put, farSide
<1>2. CASE WriterWrites
  <2>1. /\ writer.at = "write" /\ sock = "open" /\ farGot' = Append(farGot, writer.chunk)
        /\ upRead' = upRead
    BY <1>2 DEF WriterWrites, copies
  <2>2. Sent \in Nat /\ Len(out) \in Nat /\ upRead \in Nat
    BY LastTyped DEF Typed
  <2>3. writer.chunk = Sent + 1 /\ Sent + 1 <= upRead
    BY <2>1, <2>2 DEF NoGap, Queued, InHand
  <2>4. writer.chunk \in 1..upRead /\ UpPipe!Take(writer.chunk)
    BY <2>1, <2>2, <2>3 DEF UpPipe!Take, Sent
  <2> QED
    BY <2>4 DEF UpPipe!Next
<1>3. CASE UNCHANGED <<upRead, farGot>>
  BY <1>3
<1> QED
  <2>1. \A loop \in Loops : SayBye(loop) => UNCHANGED <<upRead, farGot>>
    BY DEF SayBye, farSide
  <2>2. RelayData \/ RelayClose \/ WriterTakes \/ TunnelBreaks \/ PumpRemoves => UNCHANGED <<upRead, farGot>>
    BY DEF RelayData, RelayClose, WriterTakes, TunnelBreaks, PumpRemoves, copies, farSide
  <2>3. UNCHANGED upVars => UNCHANGED <<upRead, farGot>>
    BY DEF upVars
  <2> QED
    BY <1>1, <1>2, <1>3, <2>1, <2>2, <2>3, LauncherUp, RelayUp DEF Next
-----------------------------------------------------------------------------
(* Towards WC3. *)

\* A frame leaves the tunnel, for the inbox or for nothing.
LEMMA FrameTaken ==
  ASSUME NEW q \in Seq(Nat), NEW d \in Seq(Nat), NEW n \in Nat, d # <<>>, Ordered(q, d, n)
  PROVE  /\ Ordered(q, Tail(d), n)
         /\ \A c \in Nat : Ahead(c, q, d) => Ahead(c, q, Tail(d))
         /\ Head(d) # Close =>
              /\ Ordered(Append(q, Head(d)), Tail(d), n)
              /\ \A c \in Nat : Ahead(c, q, d) => Ahead(c, Append(q, Head(d)), Tail(d))
<1> DEFINE t == Tail(d)
<1>1. /\ Len(d) \in Nat /\ Len(d) >= 1 /\ Head(d) = d[1] /\ d[1] \in Nat
      /\ t \in Seq(Nat) /\ Len(t) = Len(d) - 1 /\ Len(t) \in Nat
      /\ \A i \in 1..Len(t) : t[i] = d[i + 1] /\ i + 1 \in 1..Len(d)
  BY TailAt
<1>2. Ordered(q, t, n)
  BY <1>1 DEF Ordered
<1>3. ASSUME NEW c \in Nat, Ahead(c, q, d)
      PROVE  Ahead(c, q, t)
  BY <1>1, <1>3 DEF Ahead
<1>4. ASSUME d[1] # Close
      PROVE  /\ Ordered(Append(q, d[1]), t, n)
             /\ \A c \in Nat : Ahead(c, q, d) => Ahead(c, Append(q, d[1]), t)
  <2> DEFINE p == Append(q, d[1])
  <2>1. /\ Len(q) \in Nat /\ Len(p) = Len(q) + 1 /\ p[Len(q) + 1] = d[1]
        /\ \A i \in 1..Len(q) : p[i] = q[i]
    BY <1>1, AppendAt
  <2>2. \A i \in 1..Len(p) : i \in 1..Len(q) \/ i = Len(q) + 1
    BY <2>1
  <2>3. 1 \in 1..Len(d)
    BY <1>1
  <2> HIDE DEF p, t
  <2>4. \A i \in 1..Len(q) : q[i] < d[1]
    BY <1>4, <2>3 DEF Ordered
  <2>5. \A j \in 1..Len(t) : t[j] # Close => d[1] < t[j]
    <3>1. ASSUME NEW j \in 1..Len(t), t[j] # Close
          PROVE  d[1] < t[j]
      <4>1. t[j] = d[j + 1] /\ j + 1 \in 1..Len(d) /\ 1 < j + 1
        BY <1>1
      <4> QED
        BY <1>4, <2>3, <3>1, <4>1 DEF Ordered
    <3> QED
      BY <3>1
  <2>6. \A i, j \in 1..Len(p) : i < j => p[i] < p[j]
    <3>1. ASSUME NEW i \in 1..Len(p), NEW j \in 1..Len(p), i < j
          PROVE  p[i] < p[j]
      <4>1. i \in 1..Len(q)
        BY <2>1, <3>1
      <4>2. CASE j \in 1..Len(q)
        BY <2>1, <3>1, <4>1, <4>2 DEF Ordered
      <4>3. CASE j = Len(q) + 1
        BY <2>1, <2>4, <4>1, <4>3
      <4> QED
        BY <2>2, <4>2, <4>3
    <3> QED
      BY <3>1
  <2>7. \A i \in 1..Len(p), j \in 1..Len(t) : t[j] # Close => p[i] < t[j]
    <3>1. ASSUME NEW i \in 1..Len(p), NEW j \in 1..Len(t), t[j] # Close
          PROVE  p[i] < t[j]
      <4>1. CASE i \in 1..Len(q)
        BY <1>2, <2>1, <3>1, <4>1 DEF Ordered
      <4>2. CASE i = Len(q) + 1
        BY <2>1, <2>5, <3>1, <4>2
      <4> QED
        BY <2>2, <4>1, <4>2
    <3> QED
      BY <3>1
  <2>8. \A i \in 1..Len(p) : p[i] <= n
    BY <2>1, <2>2, <2>3 DEF Ordered
  <2>9. Ordered(p, t, n)
    BY <1>2, <2>6, <2>7, <2>8 DEF Ordered
  <2>10. ASSUME NEW c \in Nat, Ahead(c, q, d)
         PROVE  Ahead(c, p, t)
    <3>1. c < d[1]
      BY <1>4, <2>3, <2>10 DEF Ahead
    <3> QED
      BY <1>3, <2>1, <2>2, <2>10, <3>1 DEF Ahead
  <2> QED
    BY <2>9, <2>10 DEF p
<1> QED
  BY <1>1, <1>2, <1>3, <1>4

\* A chunk leaves the inbox: it is ahead of the rest, and behind whatever the inbox was.
LEMMA ChunkTaken ==
  ASSUME NEW q \in Seq(Nat), NEW d \in Seq(Nat), NEW n \in Nat, q # <<>>, Ordered(q, d, n)
  PROVE  /\ Head(q) \in Nat /\ Head(q) <= n
         /\ Ordered(Tail(q), d, n) /\ Ahead(Head(q), Tail(q), d)
         /\ \A c \in Nat : Ahead(c, q, d) => Ahead(c, Tail(q), d) /\ c < Head(q)
<1> DEFINE t == Tail(q)
<1>1. /\ Len(q) \in Nat /\ Len(q) >= 1 /\ Head(q) = q[1] /\ q[1] \in Nat
      /\ t \in Seq(Nat) /\ Len(t) = Len(q) - 1 /\ Len(t) \in Nat
      /\ \A i \in 1..Len(t) : t[i] = q[i + 1] /\ i + 1 \in 1..Len(q) /\ 1 < i + 1
  BY TailAt
<1>2. 1 \in 1..Len(q)
  BY <1>1
<1> HIDE DEF t
<1>3. Ordered(t, d, n) /\ q[1] <= n
  <2>1. /\ \A i \in 1..Len(q) : q[i] <= n
        /\ \A i, j \in 1..Len(q) : i < j => q[i] < q[j]
        /\ \A i \in 1..Len(q), j \in 1..Len(d) : d[j] # Close => q[i] < d[j]
    BY DEF Ordered
  <2>2. ASSUME NEW i \in 1..Len(t)
        PROVE  /\ t[i] <= n /\ \A j \in 1..Len(d) : d[j] # Close => t[i] < d[j]
               /\ \A j \in 1..Len(t) : i < j => t[i] < t[j]
    <3>1. t[i] = q[i + 1] /\ i + 1 \in 1..Len(q)
      BY <1>1
    <3>2. ASSUME NEW j \in 1..Len(t), i < j
          PROVE  t[i] < t[j]
      <4>1. t[j] = q[j + 1] /\ j + 1 \in 1..Len(q) /\ i + 1 < j + 1
        BY <1>1, <3>2
      <4> QED
        BY <2>1, <3>1, <4>1
    <3> QED
      BY <2>1, <3>1, <3>2
  <2> QED
    BY <1>2, <2>1, <2>2 DEF Ordered
<1>4. Ahead(q[1], t, d)
  BY <1>1, <1>2 DEF Ordered, Ahead
<1>5. ASSUME NEW c \in Nat, Ahead(c, q, d)
      PROVE  Ahead(c, t, d) /\ c < q[1]
  BY <1>1, <1>2, <1>5 DEF Ahead
<1> QED
  BY <1>1, <1>3, <1>4, <1>5 DEF t

\* The pump reads one more, which goes into the tunnel or is lost; so with CLOSE.
LEMMA FrameSent ==
  ASSUME NEW q \in Seq(Nat), NEW d \in Seq(Nat), NEW n \in Nat, Ordered(q, d, n)
  PROVE  /\ Ordered(q, d, n + 1) /\ Ordered(q, Append(d, n + 1), n + 1)
         /\ Ordered(q, Append(d, Close), n) /\ Ordered(q, <<>>, n)
         /\ \A c \in Nat : Ahead(c, q, d) =>
              /\ Ahead(c, q, Append(d, Close)) /\ Ahead(c, q, <<>>)
              /\ c <= n => Ahead(c, q, Append(d, n + 1))
<1> DEFINE e == Append(d, n + 1)
           f == Append(d, Close)
<1>1. /\ Len(d) \in Nat /\ Len(e) = Len(d) + 1 /\ e[Len(d) + 1] = n + 1
      /\ \A i \in 1..Len(d) : e[i] = d[i]
  BY AppendAt
<1>2. /\ Len(f) = Len(d) + 1 /\ f[Len(d) + 1] = Close
      /\ \A i \in 1..Len(d) : f[i] = d[i]
  BY AppendAt DEF Close
<1>3. /\ \A i \in 1..Len(e) : i \in 1..Len(d) \/ i = Len(d) + 1
      /\ \A i \in 1..Len(f) : i \in 1..Len(d) \/ i = Len(d) + 1
      /\ \A i \in 1..Len(d) : d[i] \in Nat
      /\ \A i \in 1..Len(q) : q[i] \in Nat
  BY <1>1, <1>2, Elements
<1> HIDE DEF e, f
<1>o. /\ \A i \in 1..Len(q) : q[i] <= n
      /\ \A i \in 1..Len(d) : d[i] <= n
      /\ \A i, j \in 1..Len(d) : i < j /\ d[i] # Close /\ d[j] # Close => d[i] < d[j]
      /\ \A i, j \in 1..Len(q) : i < j => q[i] < q[j]
      /\ \A i \in 1..Len(q), j \in 1..Len(d) : d[j] # Close => q[i] < d[j]
  BY DEF Ordered
<1>4. Ordered(q, d, n + 1)
  BY <1>3 DEF Ordered
<1>5. Ordered(q, e, n + 1)
  <2>1. \A i, j \in 1..Len(e) : i < j /\ e[i] # Close /\ e[j] # Close => e[i] < e[j]
    <3>1. ASSUME NEW i \in 1..Len(e), NEW j \in 1..Len(e), i < j, e[i] # Close, e[j] # Close
          PROVE  e[i] < e[j]
      <4>1. i \in 1..Len(d)
        BY <1>1, <3>1
      <4>2. CASE j \in 1..Len(d)
        BY <1>1, <3>1, <4>1, <4>2 DEF Ordered
      <4>3. CASE j = Len(d) + 1
        BY <1>1, <1>3, <1>o, <4>1, <4>3
      <4> QED
        BY <1>3, <4>2, <4>3
    <3> QED
      BY <3>1
  <2>2. \A i \in 1..Len(q), j \in 1..Len(e) : e[j] # Close => q[i] < e[j]
    <3>1. ASSUME NEW i \in 1..Len(q), NEW j \in 1..Len(e), e[j] # Close
          PROVE  q[i] < e[j]
      <4>1. CASE j \in 1..Len(d)
        BY <1>1, <1>o, <3>1, <4>1
      <4>2. CASE j = Len(d) + 1
        BY <1>1, <1>3, <1>o, <4>2
      <4> QED
        BY <1>3, <4>1, <4>2
    <3> QED
      BY <3>1
  <2>3. \A j \in 1..Len(e) : e[j] <= n + 1
    <3>1. ASSUME NEW j \in 1..Len(e)
          PROVE  e[j] <= n + 1
      <4>1. CASE j \in 1..Len(d)
        <5>1. e[j] = d[j] /\ d[j] <= n /\ d[j] \in Nat
          BY <1>1, <1>3, <1>o, <4>1
        <5> QED
          BY <5>1
      <4>2. CASE j = Len(d) + 1
        BY <1>1, <4>2
      <4> QED
        BY <1>3, <4>1, <4>2
    <3> QED
      BY <3>1
  <2>4. \A i \in 1..Len(q) : q[i] <= n + 1
    BY <1>4 DEF Ordered
  <2> QED
    BY <1>o, <2>1, <2>2, <2>3, <2>4, Zenon DEF Ordered
<1>6. Ordered(q, f, n)
  <2>1. \A i, j \in 1..Len(f) : i < j /\ f[i] # Close /\ f[j] # Close => f[i] < f[j]
    <3>1. ASSUME NEW i \in 1..Len(f), NEW j \in 1..Len(f), i < j, f[i] # Close, f[j] # Close
          PROVE  f[i] < f[j]
      <4>1. i \in 1..Len(d) /\ j \in 1..Len(d)
        BY <1>2, <1>3, <3>1
      <4> QED
        BY <1>2, <1>o, <3>1, <4>1
    <3> QED
      BY <3>1
  <2>2. \A j \in 1..Len(f) : f[j] <= n
    <3>1. ASSUME NEW j \in 1..Len(f)
          PROVE  f[j] <= n
      <4>1. CASE j \in 1..Len(d)
        BY <1>2, <1>o, <4>1
      <4>2. CASE j = Len(d) + 1
        BY <1>2, <4>2 DEF Close
      <4> QED
        BY <1>3, <4>1, <4>2
    <3> QED
      BY <3>1
  <2>3. \A i \in 1..Len(q), j \in 1..Len(f) : f[j] # Close => q[i] < f[j]
    BY <1>2, <1>3, <1>o
  <2> QED
    BY <1>o, <2>1, <2>2, <2>3 DEF Ordered
<1>7. Ordered(q, <<>>, n)
  BY DEF Ordered
<1>8. ASSUME NEW c \in Nat, Ahead(c, q, d)
      PROVE  Ahead(c, q, f) /\ Ahead(c, q, <<>>) /\ (c <= n => Ahead(c, q, e))
  <2>1. /\ \A i \in 1..Len(q) : c < q[i]
        /\ \A j \in 1..Len(d) : d[j] # Close => c < d[j]
    BY <1>8 DEF Ahead
  <2>2. Ahead(c, q, <<>>)
    BY <2>1 DEF Ahead
  <2>3. Ahead(c, q, f)
    BY <1>2, <1>3, <2>1 DEF Ahead
  <2>4. ASSUME c <= n
        PROVE  Ahead(c, q, e)
    <3>1. ASSUME NEW j \in 1..Len(e), e[j] # Close
          PROVE  c < e[j]
      <4>1. CASE j \in 1..Len(d)
        BY <1>1, <2>1, <3>1, <4>1
      <4>2. CASE j = Len(d) + 1
        BY <1>1, <2>4, <4>2
      <4> QED
        BY <1>3, <4>1, <4>2
    <3> QED
      BY <2>1, <3>1 DEF Ahead
  <2> QED
    BY <2>2, <2>3, <2>4
<1> QED
  BY <1>4, <1>5, <1>6, <1>7, <1>8 DEF e, f

downVars == <<pumpRead, down, inbox, feeder, copyDown, wc3Got>>

\* copyDown moves on, or ends what it holds.
CopyDownGoes ==
  /\ \E where : where # "write" /\ copyDown' = Holding(where, 0)
  /\ UNCHANGED <<pumpRead, down, inbox, feeder, wc3Got>>
FeederEnds ==
  /\ feeder' = Holding("ended", 0)
  /\ UNCHANGED <<pumpRead, down, inbox, copyDown, wc3Got>>

\* The steps of the launcher, and what they change of this direction.
LEMMA LauncherDown ==
  ASSUME Demux \/ Feeder \/ CopyUp \/ CopyDown \/ CopyDownWrites \/ HandleReturns
  PROVE  \/ UNCHANGED downVars \/ CopyDownGoes \/ FeederEnds
         \/ DemuxData \/ DemuxClose \/ (FeederTakes /\ inbox # <<>> /\ inbox' = Tail(inbox))
         \/ FeederHands \/ CopyDownWrites
<1> USE DEF downVars, wc3Side, copies, strm, tun, relay, farSide, CopyDownGoes, FeederEnds
<1>1. CASE Demux
  <2>1. DemuxEnds => UNCHANGED downVars
    BY Zenon DEF DemuxEnds
  <2> QED
    BY <1>1, <2>1 DEF Demux
<1>2. CASE Feeder
  BY <1>2 DEF Feeder, FeederTakes, FeederFails
<1>3. ASSUME NEW loop \in Loops, Closer(loop)
      PROVE  UNCHANGED downVars \/ CopyDownGoes
  <2>1. UNCHANGED <<pumpRead, down, inbox, feeder, wc3Got>>
    BY <1>3 DEF Closer, SayBye, ShutBegins, ShutEnds, SendUp
  <2>2. \E where : where # "write" /\ LoopGoes(loop, where)
    BY <1>3 DEF Closer, SayBye, ShutBegins, ShutEnds, LoopDone
  <2>3. copyDown' = copyDown \/ \E where : where # "write" /\ copyDown' = Holding(where, 0)
    BY <2>2, Zenon DEF LoopGoes
  <2> QED
    BY <2>1, <2>3
<1>4. CASE CopyUp
  BY <1>3, <1>4 DEF CopyUp, CopyUpReads, CopyUpEnds, SendUp, Loops
<1>5. CASE CopyDown
  <2>1. CASE BridgeDials \/ CopyDownEnds \/ BridgeReturns
    <3>1. UNCHANGED <<pumpRead, down, inbox, feeder, wc3Got>>
      BY <2>1 DEF BridgeDials, CopyDownEnds, BridgeReturns
    <3>2. copyDown' \in {Holding("read", 0), Holding("bye", 0), Holding("ended", 0)}
      BY <2>1 DEF BridgeDials, CopyDownEnds, BridgeReturns, LoopGoes
    <3> QED
      BY <3>1, <3>2
  <2> QED
    BY <1>3, <1>5, <2>1 DEF CopyDown, Loops
<1>6. CASE CopyDownWrites \/ HandleReturns
  BY <1>6 DEF HandleReturns
<1> QED
  BY <1>1, <1>2, <1>4, <1>5, <1>6

\* The steps of the relay and the world.
LEMMA RelayDown ==
  ASSUME RelayReader \/ Writer \/ Pump \/ WC3Ends \/ FarEnds \/ TunnelBreaks
  PROVE  UNCHANGED downVars \/ PumpReads \/ PumpSaysBye \/ TunnelBreaks
<1> USE DEF downVars, wc3Side, copies, strm, tun, relay, farSide
<1>1. CASE RelayReader \/ Writer
  BY <1>1 DEF RelayReader, RelayData, RelayClose, RelayEnds, Writer, WriterTakes, WriterWrites,
       WriterFails
<1>2. CASE PumpEnds \/ PumpRemoves
  BY <1>2 DEF PumpEnds, PumpRemoves
<1>3. CASE WC3Ends \/ FarEnds
  BY <1>3, Zenon DEF WC3Ends, FarEnds
<1> QED
  BY <1>1, <1>2, <1>3 DEF Pump

\* Everything stays in order: the invariant of this direction is kept.
LEMMA InOrderKept ==
  ASSUME Typed, InOrder, Next
  PROVE  InOrder'
<1>t. /\ inbox \in Seq(Nat) /\ down \in Seq(Nat) /\ wc3Got \in Seq(Nat) /\ pumpRead \in Nat
      /\ feeder.chunk \in Nat /\ copyDown.chunk \in Nat /\ Told \in Nat
  BY LastTyped DEF Typed, AtWork
<1>w. wc3Got' = wc3Got => Told' = Told
  BY DEF Told, DownPipe!Last
<1>1. CASE UNCHANGED downVars
  BY <1>1, <1>w DEF downVars, InOrder
<1>2. CASE CopyDownGoes
  <2>1. PICK where : where # "write" /\ copyDown' = Holding(where, 0)
    BY <1>2 DEF CopyDownGoes
  <2>2. copyDown'.at # "write" /\ copyDown'.chunk = 0
    BY <2>1 DEF Holding
  <2> QED
    BY <1>t, <1>w, <1>2, <2>2 DEF CopyDownGoes, InOrder
<1>3. CASE FeederEnds
  <2>1. feeder'.at # "write" /\ feeder'.chunk = 0
    BY <1>3 DEF FeederEnds, Holding
  <2> QED
    BY <1>t, <1>w, <1>3, <2>1 DEF FeederEnds, InOrder
<1>4. CASE DemuxData \/ DemuxClose
  <2>1. /\ UNCHANGED <<pumpRead, feeder, copyDown, wc3Got>> /\ down # <<>> /\ down' = Tail(down)
        /\ inbox' = inbox \/ (Head(down) # Close /\ inbox' = Append(inbox, Head(down)))
    BY <1>4 DEF DemuxData, DemuxClose, Deliver, wc3Side, copies, relay
  <2>2. Ordered(inbox, down, pumpRead)
    BY DEF InOrder
  <2>3. /\ Ordered(inbox', down', pumpRead)
        /\ \A c \in Nat : Ahead(c, inbox, down) => Ahead(c, inbox', down')
    BY <1>t, <2>1, <2>2, FrameTaken
  <2> QED
    BY <1>t, <1>w, <2>1, <2>3 DEF InOrder
<1>5. CASE FeederTakes /\ inbox # <<>> /\ inbox' = Tail(inbox)
  <2>1. UNCHANGED <<pumpRead, down, copyDown, wc3Got>>
    BY <1>5 DEF FeederTakes, wc3Side, copies, tun, relay
  <2>2. Ordered(inbox, down, pumpRead)
    BY DEF InOrder
  <2>3. /\ Head(inbox) \in Nat /\ Head(inbox) <= pumpRead
        /\ Ordered(inbox', down, pumpRead) /\ Ahead(Head(inbox), inbox', down)
        /\ \A c \in Nat : Ahead(c, inbox, down) => Ahead(c, inbox', down) /\ c < Head(inbox)
    BY <1>t, <1>5, <2>2, ChunkTaken
  <2>4. \/ feeder'.at = "write" /\ feeder'.chunk = Head(inbox)
        \/ feeder'.at # "write" /\ feeder'.chunk = 0
    BY <1>5 DEF FeederTakes, Holding
  <2> QED
    BY <1>t, <1>w, <2>1, <2>3, <2>4 DEF InOrder
<1>6. CASE FeederHands
  <2>1. /\ UNCHANGED <<pumpRead, down, inbox, wc3Got>> /\ feeder.at = "write"
        /\ copyDown'.chunk = feeder.chunk /\ feeder'.at # "write" /\ feeder'.chunk = 0
    BY <1>6 DEF FeederHands, Holding, Idle, wc3Side, tun, relay
  <2> QED
    BY <1>t, <1>w, <2>1 DEF InOrder
<1>7. CASE TunnelBreaks \/ PumpSaysBye
  <2>1. /\ UNCHANGED <<pumpRead, feeder, copyDown, inbox, wc3Got>>
        /\ down' \in {down, <<>>, Append(down, Close)}
    BY <1>7 DEF TunnelBreaks, PumpSaysBye, SendDown, wc3Side, copies, strm, relay
  <2>2. Ordered(inbox, down, pumpRead)
    BY DEF InOrder
  <2>3. /\ Ordered(inbox, down', pumpRead)
        /\ \A c \in Nat : Ahead(c, inbox, down) => Ahead(c, inbox, down')
    <3>1. CASE down' = down
      BY <2>2, <3>1
    <3>2. CASE down' = <<>>
      BY <1>t, <2>2, <3>2, FrameSent
    <3>3. CASE down' = Append(down, Close)
      BY <1>t, <2>2, <3>3, FrameSent
    <3> QED
      BY <2>1, <3>1, <3>2, <3>3
  <2> QED
    BY <1>t, <1>w, <2>1, <2>3 DEF InOrder
<1>8. CASE PumpReads
  <2>1. /\ UNCHANGED <<feeder, copyDown, inbox, wc3Got>> /\ pumpRead' = pumpRead + 1
        /\ down' \in {down, Append(down, pumpRead + 1)}
    BY <1>8 DEF PumpReads, SendDown, wc3Side, copies, strm
  <2>2. Ordered(inbox, down, pumpRead)
    BY DEF InOrder
  <2>3. /\ Ordered(inbox, down', pumpRead + 1)
        /\ \A c \in Nat : c <= pumpRead /\ Ahead(c, inbox, down) => Ahead(c, inbox, down')
    BY <1>t, <2>1, <2>2, FrameSent
  <2>4. \A c \in Nat : c <= pumpRead => c <= pumpRead + 1
    BY <1>t
  <2> QED
    BY <1>t, <1>w, <2>1, <2>3, <2>4 DEF InOrder
<1>9. CASE CopyDownWrites
  <2>1. /\ UNCHANGED <<pumpRead, down, inbox, feeder>> /\ wc3Got' = Append(wc3Got, copyDown.chunk)
        /\ copyDown.at = "write" /\ copyDown'.at # "write" /\ copyDown'.chunk = 0
    BY <1>9 DEF CopyDownWrites, Holding, strm, tun, relay
  <2>2. Told' = copyDown.chunk
    BY <1>t, <2>1, AppendAt DEF Told, DownPipe!Last
  <2> QED
    BY <1>t, <2>1, <2>2 DEF InOrder
<1> QED
  BY <1>1, <1>2, <1>3, <1>4, <1>5, <1>6, <1>7, <1>8, <1>9, LauncherDown, RelayDown DEF Next

\* Every step is one of the pipe's, or none.
LEMMA DownSteps ==
  ASSUME Typed, InOrder, Next
  PROVE  [DownPipe!Next]_<<pumpRead, wc3Got>>
<1>1. CASE PumpReads
  BY <1>1 DEF PumpReads, DownPipe!Next, DownPipe!Put, wc3Side
<1>2. CASE CopyDownWrites
  <2>1. /\ copyDown.at = "write" /\ wc3Got' = Append(wc3Got, copyDown.chunk)
        /\ pumpRead' = pumpRead
    BY <1>2 DEF CopyDownWrites, relay
  <2>2. Told \in Nat /\ copyDown.chunk \in Nat /\ pumpRead \in Nat
    BY LastTyped DEF Typed
  <2>3. Told < copyDown.chunk /\ copyDown.chunk <= pumpRead
    BY <2>1 DEF InOrder
  <2>4. copyDown.chunk \in 1..pumpRead /\ DownPipe!Take(copyDown.chunk)
    BY <2>1, <2>2, <2>3 DEF DownPipe!Take, Told
  <2> QED
    BY <2>4 DEF DownPipe!Next
<1>3. DemuxData \/ DemuxClose \/ FeederTakes \/ FeederHands => UNCHANGED <<pumpRead, wc3Got>>
  BY DEF DemuxData, DemuxClose, FeederTakes, FeederHands, wc3Side, relay
<1>4. PumpSaysBye \/ TunnelBreaks => UNCHANGED <<pumpRead, wc3Got>>
  BY DEF PumpSaysBye, TunnelBreaks, wc3Side, relay
<1>5. UNCHANGED downVars \/ CopyDownGoes \/ FeederEnds => UNCHANGED <<pumpRead, wc3Got>>
  BY DEF downVars, CopyDownGoes, FeederEnds
<1> QED
  BY <1>1, <1>2, <1>3, <1>4, <1>5, LauncherDown, RelayDown DEF Next
-----------------------------------------------------------------------------
(* The inductive invariant. *)

\* The queues keep their bounds.
LEMMA BoundedKept ==
  ASSUME Typed, Bounded, Next
  PROVE  Bounded'
<1>t. /\ inbox \in Seq(Nat) /\ out \in Seq(Nat) /\ Len(inbox) \in Nat /\ Len(out) \in Nat
      /\ InboxCap \in Nat /\ OutCap \in Nat
  BY PathAssumption DEF Typed, PathAssumption
<1>1. Len(inbox') <= InboxCap
  <2>1. \/ inbox' = inbox \/ (inbox # <<>> /\ inbox' = Tail(inbox))
        \/ (Len(inbox) < InboxCap /\ \E x \in Nat : inbox' = Append(inbox, x))
    <3>1. CASE DemuxData
      <4>1. Head(down) \in Nat
        BY <3>1, TailAt DEF DemuxData, Typed
      <4> QED
        BY <3>1, <4>1 DEF DemuxData, Deliver
    <3>2. DemuxClose \/ FeederHands \/ CopyDownWrites => inbox' = inbox
      BY DEF DemuxClose, FeederHands, CopyDownWrites, strm
    <3>3. PumpReads \/ PumpSaysBye \/ TunnelBreaks => inbox' = inbox
      BY DEF PumpReads, PumpSaysBye, TunnelBreaks, strm
    <3> QED
      BY <3>1, <3>2, <3>3, LauncherDown, RelayDown DEF Next, downVars, CopyDownGoes, FeederEnds
  <2> QED
    BY <1>t, <2>1, TailAt, AppendAt DEF Bounded
<1>2. Len(out') <= OutCap
  <2>1. \/ out' = out \/ (out # <<>> /\ out' = Tail(out))
        \/ (Len(out) < OutCap /\ \E x \in Nat : out' = Append(out, x))
    <3>1. CASE RelayData
      <4>1. Head(up) \in Nat
        BY <3>1, TailAt DEF RelayData, Typed
      <4> QED
        BY <3>1, <4>1 DEF RelayData, RelayDeliver
    <3>2. RelayReader \/ Pump \/ WC3Ends \/ FarEnds \/ TunnelBreaks => RelayData \/ out' = out
      BY DEF RelayReader, RelayClose, RelayEnds, Pump, PumpReads, PumpEnds, PumpSaysBye,
         PumpRemoves, WC3Ends, FarEnds, TunnelBreaks, relay
    <3>3. Writer => out' = out \/ (out # <<>> /\ out' = Tail(out))
      BY DEF Writer, WriterTakes, WriterWrites, WriterFails
    <3>4. CopyUpReads \/ (\E loop \in Loops : SayBye(loop)) => out' = out
      BY DEF CopyUpReads, SayBye, relay
    <3> QED
      BY <3>1, <3>2, <3>3, <3>4, LauncherUp DEF Next, upVars
  <2> QED
    BY <1>t, <2>1, TailAt, AppendAt DEF Bounded
<1> QED
  BY <1>1, <1>2 DEF Bounded

\* The invariant holds at first ...
LEMMA InitInv == Init => IInv
<1> SUFFICES ASSUME Init PROVE IInv
  OBVIOUS
<1>1. <<>> \in Seq(Nat) /\ Len(<<>>) = 0
  OBVIOUS
<1>2. Typed
  BY <1>1 DEF Init, Typed, AtWork, Idle, Holding
<1>3. Flags
  <2>1. wc3 \in Ends /\ far \in Ends
    BY DEF Init, Peer, Ends
  <2>2. {bridged, closeSent, reg, tunUp, conn} \subseteq BOOLEAN
    BY Zenon DEF Init
  <2> QED
    BY <2>1, <2>2, Zenon DEF Flags
<1>4. Bounded
  BY PathAssumption DEF Init, Bounded, PathAssumption
<1>5. InOrder
  BY DEF Init, InOrder, Ordered, Ahead, Told, DownPipe!Last, Idle, Holding
<1>6. NoGap
  BY DEF Init, NoGap, Queued, InHand, Sent, UpPipe!Last, Idle
<1> QED
  BY <1>2, <1>3, <1>4, <1>5, <1>6 DEF IInv

\* ... and every step keeps it.
LEMMA NextInv ==
  ASSUME IInv, [Next]_vars
  PROVE  IInv'
<1>1. CASE Next
  <2>1. Typed /\ Flags /\ Bounded /\ InOrder /\ NoGap
    BY DEF IInv
  <2>2. Typed'
    BY <1>1, <2>1, TypedLauncher, TypedRelay DEF Next
  <2> QED
    BY <1>1, <2>1, <2>2, FlagsKept, BoundedKept, InOrderKept, NoGapKept DEF IInv
<1>2. CASE UNCHANGED vars
  <2> USE <1>2 DEF vars, wc3Side, copies, strm, tun, relay, farSide
  <2>1. Typed'
    BY DEF IInv, Typed
  <2>2. Flags'
    BY Zenon DEF IInv, Flags
  <2>3. Bounded' /\ InOrder'
    BY DEF IInv, Bounded, InOrder, Told, DownPipe!Last
  <2>4. NoGap'
    BY DEF IInv, NoGap, Queued, InHand, Sent, UpPipe!Last
  <2> QED
    BY <2>1, <2>2, <2>3, <2>4 DEF IInv
<1> QED
  BY <1>1, <1>2

\* So it holds always.
LEMMA InvAlways == Spec => []IInv
BY InitInv, NextInv, PTL DEF Spec
-----------------------------------------------------------------------------
(* The theorems. *)

\* The variables have their types, the inbox and the relay's queue never exceed their
\* capacities, and no chunk is held that was not read (stream.go, session.go: deliver).
THEOREM TypeCorrect == Spec => []TypeOK
<1>1. ASSUME IInv PROVE TypeOK
  <2>1. Typed /\ Flags /\ Bounded /\ copyDown.chunk <= pumpRead
    BY <1>1 DEF IInv, InOrder
  <2>2. copyDown \in [at : {"dial", "read", "write", "bye", "shut", "shutting", "release",
                            "ended"}, chunk : 0..pumpRead]
    BY <2>1 DEF Typed
  <2>3. {feeder.at, writer.at} \subseteq {"select", "write", "ended"}
    BY <2>1 DEF Typed, AtWork
  <2>4. {wc3.fin, wc3.gone, far.fin, far.gone, bridged} \subseteq BOOLEAN
    <3>1. {wc3.fin, wc3.gone, far.fin, far.gone} \subseteq BOOLEAN
      BY <2>1 DEF Flags, Ends
    <3>2. bridged \in BOOLEAN
      BY <2>1, Zenon DEF Flags
    <3> QED
      BY <3>1, <3>2
  <2>5. {closeSent, reg, tunUp, conn} \subseteq BOOLEAN
    BY <2>1, Zenon DEF Flags
  <2>6. /\ {upRead, pumpRead} \subseteq Nat
        /\ local \in {"none", "open", "halfClosed", "closed"} /\ sock \in {"open", "closed"}
        /\ copyUp \in {"none", "read", "bye", "shut", "shutting", "ended"}
        /\ closing \in {"no", "local", "done"}
        /\ pump \in {"read", "bye", "remove", "ended"}
    BY <2>1 DEF Typed
  <2> QED
    BY <2>1, <2>2, <2>3, <2>4, <2>5, <2>6, Zenon DEF TypeOK, Bounded
<1> QED
  BY <1>1, InvAlways, PTL

\* Both directions implement BytePipe: the far peer gets a prefix of what was read from
\* WC3, WC3 what the pump read in order and nothing twice, whatever is shut down, dropped
\* or lost on the way (stream.go, session.go).
THEOREM VerbatimAlways == Spec => Verbatim
<1>1. Init => UpPipe!Init /\ DownPipe!Init
  BY DEF Init, UpPipe!Init, DownPipe!Init
<1>2. ASSUME IInv, [Next]_vars
      PROVE  [UpPipe!Next]_<<upRead, farGot>> /\ [DownPipe!Next]_<<pumpRead, wc3Got>>
  <2>1. CASE Next
    BY <1>2, <2>1, UpSteps, DownSteps DEF IInv
  <2>2. CASE UNCHANGED vars
    BY <2>2 DEF vars, wc3Side, copies, relay, farSide
  <2> QED
    BY <1>2, <2>1, <2>2
<1> QED
  BY <1>1, <1>2, InvAlways, PTL DEF Spec, Verbatim, UpPipe!Spec, DownPipe!Spec
=============================================================================
