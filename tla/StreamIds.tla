------------------------------ MODULE StreamIds ------------------------------
(***************************************************************************)
(* The ids of streams at both ends of the tunnel, and their reuse once a   *)
(* 16-bit counter has come round: OpenClientStream, acceptJoiner,          *)
(* bridgeJoiner and the handlers of OPEN and CLOSE on the launcher         *)
(* (internal/relaylink/link.go, stream.go), readTunnel, acceptJoiners,     *)
(* pump and closeConn on the relay (internal/relay/session.go).            *)
(*                                                                         *)
(* Maps hold ids and frames carry them, but a stream is a thing of its     *)
(* own: what is done to an id may meet another stream than was meant.  The *)
(* two kinds share nothing but the tunnel, so a behaviour has one kind.    *)
(* Of DATA there is what finds the relay's queue full; where it finds an   *)
(* inbox full, that stream's owner closes, as it may at any time.          *)
(* Blocking writes and the end of the session are left to other modules.   *)
(* No name is one of KeepAlive's or TunnelWire's: MCTunnel and             *)
(* TunnelProofs extend all three.                                          *)
(***************************************************************************)
EXTENDS Naturals, Sequences, FiniteSets

CONSTANTS NIds,      \* ids of a kind: 32768 odd ones, 32767 even ones
          NStreams,  \* bound: streams opened, one after the other
          MaxLive    \* bound, and the relay's caps: streams live at a time

ASSUME IdsAssumption ==
  /\ NIds \in Nat \ {0} /\ NStreams \in Nat /\ MaxLive \in Nat
  /\ MaxLive \leq NIds

Streams == 1..NStreams
Ids == 0..(NIds - 1)   \* the odd ids, or the even ones, in order
None == 0

VARIABLES kind,    \* "client": the launcher opens them; "joiner": the relay does
          opened,  \* streams opened so far
          next,    \* nextClientID or nextJoiner
          idOf,    \* the id each stream was given
          here,    \* Link.streams: the stream under each id, or None
          there,   \* Session.conns
          owner,   \* the gateway's handle or the bridge of each stream
          shut,    \* the streams shut down on the launcher
          pump,    \* the pump of each stream
          sock,    \* its socket on the relay
          up, down,  \* the frames on the way to the relay and to the launcher
          over     \* the relay has ended the session

ends == <<owner, shut, pump, sock>>
idVars == <<kind, opened, next, idOf, here, there, ends, up, down, over>>

Frame(type, n) == [type |-> type, stream |-> n]

IdsInit ==
  /\ kind \in {"client", "joiner"}
  /\ opened = 0 /\ next = 0 /\ idOf = [n \in Streams |-> 0]
  /\ here = [i \in Ids |-> None] /\ there = [i \in Ids |-> None]
  /\ owner = [n \in Streams |-> "none"] /\ shut = {}
  /\ pump = [n \in Streams |-> "none"] /\ sock = [n \in Streams |-> "none"]
  /\ up = <<>> /\ down = <<>> /\ over = FALSE

Live(map) == {i \in Ids : map[i] # None}

NextId(map) == next   \* mutant: whatever is under it
\* The first id from the counter on that has no live stream.
FreeId(map) ==
  LET after(k) == (next + k) % NIds
      steps == CHOOSE k \in Ids : map[after(k)] = None
                                   /\ \A j \in Ids : j < k => map[after(j)] # None
  IN after(steps)

\* A stream gets the next free id of the map of the end that opens it.
TakesId(map) ==
  /\ ~over /\ opened < NStreams /\ Cardinality(Live(map)) < MaxLive
  /\ opened' = opened + 1
  /\ idOf' = [idOf EXCEPT ![opened'] = FreeId(map)]
  /\ next' = (FreeId(map) + 1) % NIds
  /\ UNCHANGED kind

counters == <<kind, opened, next, idOf, over>>
-----------------------------------------------------------------------------
(* The launcher. *)

\* closeStream: whatever stream is under the id.
CloseStream(n) ==
  /\ here' = [here EXCEPT ![idOf[n]] = None]
  /\ shut' = shut \cup ({here[idOf[n]]} \ {None})

OpenClient ==
  /\ kind = "client" /\ TakesId(here)
  /\ here' = [here EXCEPT ![idOf'[opened']] = opened']
  /\ owner' = [owner EXCEPT ![opened'] = "open"]
  /\ UNCHANGED <<there, shut, pump, sock, up, down, over>>

SendOpen(n) ==
  /\ ~over /\ owner[n] = "open"
  /\ owner' = [owner EXCEPT ![n] = "live"]
  /\ up' = Append(up, Frame("OPEN", n))
  /\ UNCHANGED <<counters, here, there, shut, pump, sock, down>>

\* stream.Close: by a handle when WC3 closes its connection, by a bridge when WC3 does, or
\* when the stream has been shut and the bridge is in no write to WC3.
OwnerCloses(n) ==
  /\ ~over /\ owner[n] = "live"
  /\ owner' = [owner EXCEPT ![n] = IF kind = "client" THEN "done" ELSE "remove"]
  /\ shut' = shut \cup {n}
  /\ up' = Append(up, Frame("CLOSE", n))
  /\ UNCHANGED <<counters, here, there, pump, sock, down>>

\* bridgeJoiner's deferred closeStream; a client stream stays in the map until the
\* relay's CLOSE.
BridgeEnds(n) ==
  /\ ~over /\ owner[n] = "remove"
  /\ owner' = [owner EXCEPT ![n] = "done"]
  /\ CloseStream(n)
  /\ UNCHANGED <<counters, there, pump, sock, up, down>>

DemuxTakes(type) ==
  /\ ~over /\ down # <<>> /\ Head(down).type = type
  /\ down' = Tail(down)
  /\ UNCHANGED <<counters, there, pump, sock>>
Arrived == Head(down).stream

\* acceptJoiner takes an OPEN on an id that is free, and ignores it otherwise.
DemuxOpen ==
  /\ DemuxTakes("OPEN")
  /\ IF here[idOf[Arrived]] = None
     THEN \/ /\ here' = [here EXCEPT ![idOf[Arrived]] = Arrived]
             /\ owner' = [owner EXCEPT ![Arrived] = "live"]
             /\ UNCHANGED up
          \/ /\ up' = Append(up, Frame("CLOSE", Arrived))   \* too many joiners
             /\ UNCHANGED <<here, owner>>
     ELSE UNCHANGED <<here, owner, up>>
  /\ UNCHANGED shut

DemuxClose ==
  /\ DemuxTakes("CLOSE")
  /\ CloseStream(Arrived)
  /\ UNCHANGED <<owner, up>>
-----------------------------------------------------------------------------
(* The relay. *)

\* closeConn: whatever stream is under the id.
CloseConn(n) ==
  /\ there' = [there EXCEPT ![idOf[n]] = None]
  /\ sock' = [m \in Streams |-> IF m = there[idOf[n]] THEN "closed" ELSE sock[m]]

ReaderTakes(type) ==
  /\ ~over /\ up # <<>> /\ Head(up).type = type
  /\ up' = Tail(up)
  /\ UNCHANGED <<kind, opened, next, idOf, here, owner, shut>>
Sent == Head(up).stream

\* An OPEN on a live id ends the session.
ReadForeignOpen ==
  /\ ReaderTakes("OPEN")
  /\ there[idOf[Sent]] # None
  /\ over' = TRUE
  /\ UNCHANGED <<there, pump, sock, down>>

\* Otherwise openPvpgn dials, or refuses the stream.
ReadFreshOpen ==
  /\ ReaderTakes("OPEN")
  /\ there[idOf[Sent]] = None
  /\ \/ /\ there' = [there EXCEPT ![idOf[Sent]] = Sent]
        /\ sock' = [sock EXCEPT ![Sent] = "open"] /\ pump' = [pump EXCEPT ![Sent] = "read"]
        /\ UNCHANGED down
     \/ /\ down' = Append(down, Frame("CLOSE", Sent))
        /\ UNCHANGED <<there, sock, pump>>
  /\ UNCHANGED over

ReadClose ==
  /\ ReaderTakes("CLOSE")
  /\ CloseConn(Sent)
  /\ UNCHANGED <<pump, down, over>>

\* DATA of a stream is read after its OPEN and before its CLOSE; but the loop that takes a
\* game's answers may send some after the other loop's CLOSE.
On(way) == {way[i] : i \in DOMAIN way}
DataUp(n) ==
  /\ owner[n] \in {"live", "remove", "done"} /\ Frame("OPEN", n) \notin On(up)
  /\ kind = "joiner" \/ owner[n] = "live" \/ Frame("CLOSE", n) \in On(up)

\* The queue of the connection under the id is full: that one is closed and removed.
ReadOverflow(n) ==
  /\ ~over /\ DataUp(n) /\ there[idOf[n]] # None
  /\ CloseConn(n)
  /\ UNCHANGED <<counters, here, owner, shut, pump, up, down>>

\* One loop accepts: it announces a joiner before it admits the next.
AdmitJoiner ==
  /\ kind = "joiner" /\ TakesId(there)
  /\ \A n \in Streams : pump[n] # "announce"
  /\ there' = [there EXCEPT ![idOf'[opened']] = opened']
  /\ sock' = [sock EXCEPT ![opened'] = "open"]
  /\ pump' = [pump EXCEPT ![opened'] = "announce"]
  /\ UNCHANGED <<here, owner, shut, up, down, over>>

PumpGoes(n, from, to) ==
  /\ ~over /\ pump[n] = from
  /\ pump' = [pump EXCEPT ![n] = to]
  /\ UNCHANGED <<counters, here, owner, shut, up>>

Announce(n) ==
  /\ PumpGoes(n, "announce", "read")
  /\ down' = Append(down, Frame("OPEN", n))
  /\ UNCHANGED <<there, sock>>

\* The peer has hung up, or the socket was closed under the pump.
PumpEnds(n) ==
  /\ PumpGoes(n, "read", "bye")
  /\ UNCHANGED <<there, sock, down>>

PumpSkipsBye(n) ==   \* mutant: no CLOSE if the launcher has closed first
  /\ PumpGoes(n, "bye", "remove")
  /\ down' = IF sock[n] = "closed" THEN down ELSE Append(down, Frame("CLOSE", n))
  /\ UNCHANGED <<there, sock>>
PumpSaysBye(n) ==
  /\ PumpGoes(n, "bye", "remove")
  /\ down' = Append(down, Frame("CLOSE", n))
  /\ UNCHANGED <<there, sock>>

PumpRemoves(n) ==
  /\ PumpGoes(n, "remove", "done")
  /\ CloseConn(n)
  /\ UNCHANGED down
-----------------------------------------------------------------------------
Demux == DemuxOpen \/ DemuxClose
Reader == ReadForeignOpen \/ ReadFreshOpen \/ ReadClose
Owner(n) == SendOpen(n) \/ BridgeEnds(n)
Pump(n) ==
  Announce(n) \/ PumpSaysBye(n) \/ PumpRemoves(n) \/ (sock[n] = "closed" /\ PumpEnds(n))

IdsNext ==
  \/ OpenClient \/ AdmitJoiner
  \/ Demux \/ Reader
  \/ \E n \in Streams :
       \/ Owner(n) \/ OwnerCloses(n) \/ Pump(n) \/ PumpEnds(n)
       \/ ReadOverflow(n)

\* Goroutines are scheduled.
IdsFairness ==
  /\ WF_idVars(Demux) /\ WF_idVars(Reader)
  /\ \A n \in Streams : WF_idVars(Owner(n)) /\ WF_idVars(Pump(n))
IdsSpec == IdsInit /\ [][IdsNext]_idVars /\ IdsFairness

\* An assumption about WC3, which no code of the launcher makes true: where a stream is shut,
\* WC3 closes the connection to the gateway once it is told by a FIN, and a game reads what
\* the bridge is writing to it, or closes.
WC3Obliges == \A n \in Streams : WF_idVars(n \in shut /\ OwnerCloses(n))
-----------------------------------------------------------------------------
(* Properties. *)

\* An OPEN meets another stream under its id only while that one is on its way out at the
\* relay: its socket is closed, or its pump has sent CLOSE and is about to remove it.
\* Never is a stream that is still used replaced, ignored or the reason to end the
\* session, however often the counters come round (link.go: OpenClientStream skips live
\* ids, acceptJoiner; session.go: acceptJoiners skips taken ids, launcherMayOpen).
Leaving(n) == sock[n] = "closed" \/ pump[n] = "remove"
MeetsOnlyTheLeaving ==
  [][/\ ReadForeignOpen => Leaving(there[idOf[Sent]])
     /\ DemuxOpen /\ here[idOf[Arrived]] # None => Leaving(here[idOf[Arrived]])]_idVars

\* No stream stays half open, whatever a CLOSE or a removal by id has hit: one that
\* lives on the relay and is unknown to the launcher ends there, and one that lives on
\* the launcher and is unknown to the relay ends here, unless the session does; provided WC3
\* closes what it is told has ended (session.go: pump, closeConn, the full queue; link.go:
\* closeStream, bridgeJoiner; stream.go: deliver).
HalfOpenHeals ==
  \A n \in Streams :
    /\ []<>(sock[n] = "open" /\ here[idOf[n]] # n => over)
    /\ []<>(owner[n] = "live" /\ there[idOf[n]] # n => over)

=============================================================================
