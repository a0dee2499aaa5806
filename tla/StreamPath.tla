----------------------------- MODULE StreamPath -----------------------------
(***************************************************************************)
(* One stream from end to end: WC3's socket on the launcher's machine, the *)
(* two copy loops of the gateway (internal/bnetgateway, a stream WC3       *)
(* opened) or of the joiner bridge (relaylink/link.go: bridgeJoiner), the  *)
(* stream with its inbox, pump and pipe (relaylink/stream.go), the tunnel, *)
(* the relayConn with its queue and writer and the pump of the session     *)
(* (relay/session.go), and the far peer: PvPGN, or a joiner.               *)
(*                                                                         *)
(* Data is chunks, numbered in the order they are read from a socket; a    *)
(* chunk fills one read, one DATA frame and one slot of a queue.  What a   *)
(* peer has written and nobody has read yet is left open: as long as the   *)
(* socket is read there may be more, also after the peer's FIN.  The id is *)
(* used once, and the tunnel is never congested (RelaySession has that).   *)
(***************************************************************************)
EXTENDS Naturals, Sequences

CONSTANTS Loads,      \* bound: pairs of numbers of chunks, from WC3 and from the far peer
          InboxCap,   \* inboxCap
          OutCap      \* connOutCap

ASSUME PathAssumption ==
  /\ Loads \subseteq Nat \X Nat
  /\ InboxCap \in Nat \ {0} /\ OutCap \in Nat \ {0}

VARIABLES
  bridged,  \* the launcher's end is bridgeJoiner, not the gateway
  wc3,      \* WC3: whether it sent FIN, whether it is gone altogether
  wc3Got,   \* the chunks WC3 received
  local,    \* the launcher's socket to WC3
  copyUp,   \* the loop WC3 -> stream
  copyDown, \* the loop stream -> WC3, and the chunk it holds
  upRead,   \* chunks copyUp has read
  closeSent,\* stream.sentClose is done
  closing,  \* stream.closeOnce: closed is closed "local"ly, then pw too: "done"
  inbox,    \* stream.inbox
  feeder,   \* stream.pump, and the chunk it holds
  reg,      \* the stream is in Link.streams
  up, down, \* frames in the tunnel
  tunUp,    \* the tunnel is up
  conn,     \* the relayConn is in Session.conns
  out,      \* relayConn.out
  writer,   \* relayConn.pumpOut, and the chunk it holds
  sock,     \* the relay's socket to the far peer; relayConn.closed goes with it
  pump,     \* Session.pump
  pumpRead, \* chunks pump has read
  far,      \* the far peer, like wc3
  farGot    \* the chunks the far peer received

wc3Side == <<bridged, wc3, wc3Got, local>>
copies == <<copyUp, copyDown, upRead, closeSent>>
strm == <<closing, inbox, feeder, reg>>
tun == <<up, down, tunUp>>
relay == <<conn, out, writer, sock, pump, pumpRead>>
farSide == <<far, farGot>>
vars == <<wc3Side, copies, strm, tun, relay, farSide>>

Close == 0   \* the CLOSE frame; a DATA frame is its chunk
Idle == [at |-> "select", chunk |-> 0]
Holding(where, chunk) == [at |-> where, chunk |-> chunk]
Peer == [fin |-> FALSE, gone |-> FALSE]

\* A gateway stream starts copying at once, a bridge has to dial WC3 first.
Init ==
  /\ bridged \in BOOLEAN
  /\ wc3 = Peer /\ wc3Got = <<>>
  /\ local = IF bridged THEN "none" ELSE "open"
  /\ copyUp = IF bridged THEN "none" ELSE "read"
  /\ copyDown = Holding(IF bridged THEN "dial" ELSE "read", 0)
  /\ upRead = 0 /\ closeSent = FALSE
  /\ closing = "no" /\ inbox = <<>> /\ feeder = Idle /\ reg = TRUE
  /\ up = <<>> /\ down = <<>> /\ tunUp = TRUE
  /\ conn = TRUE /\ out = <<>> /\ writer = Idle /\ sock = "open"
  /\ pump = "read" /\ pumpRead = 0
  /\ far = Peer /\ farGot = <<>>
-----------------------------------------------------------------------------
(* The peers, and the tunnel between launcher and relay. *)

WithinLoads(fromWC3, fromFar) ==
  \E load \in Loads : fromWC3 <= load[1] /\ fromFar <= load[2]

\* A shutdown of its write side only, or a close.
WC3Ends ==
  /\ local # "none" /\ ~wc3.gone
  /\ \E all \in BOOLEAN : wc3' = [wc3 EXCEPT !.fin = TRUE, !.gone = all]
  /\ wc3' # wc3
  /\ UNCHANGED <<bridged, wc3Got, local, copies, strm, tun, relay, farSide>>

FarEnds ==
  /\ ~far.gone
  /\ \E all \in BOOLEAN : far' = [far EXCEPT !.fin = TRUE, !.gone = all]
  /\ far' # far
  /\ UNCHANGED <<farGot, wc3Side, copies, strm, tun, relay>>

\* What was in it is lost, and every send fails from now on.
TunnelBreaks ==
  /\ tunUp /\ tunUp' = FALSE
  /\ up' = <<>> /\ down' = <<>>
  /\ UNCHANGED <<wc3Side, copies, strm, relay, farSide>>

SendUp(frame) ==
  up' = (IF tunUp THEN Append(up, frame) ELSE up) /\ UNCHANGED <<down, tunUp>>
SendDown(frame) ==
  down' = (IF tunUp THEN Append(down, frame) ELSE down) /\ UNCHANGED <<up, tunUp>>
-----------------------------------------------------------------------------
(* The stream: demux delivers to it, its pump feeds the pipe. *)

closed == closing # "no"       \* stream.closed is closed
pwClosed == closing = "done"   \* and the pipe as well

\* closeOnce: one caller shuts the stream down, another waits until it has.  Only
\* between the two steps of a local shutdown does demux go on delivering, so one
\* that demux makes is a single step.
ShutdownFromDemux == closing # "local" /\ closing' = "done"

DeliverBlocking(chunk) ==   \* mutant: a full inbox makes demux wait
  \/ Len(inbox) < InboxCap /\ inbox' = Append(inbox, chunk) /\ UNCHANGED closing
  \/ closed /\ UNCHANGED <<inbox, closing>>
\* The select of deliver: any ready case, the default when none is.
Deliver(chunk) ==
  \/ Len(inbox) < InboxCap /\ inbox' = Append(inbox, chunk) /\ UNCHANGED closing
  \/ closed /\ UNCHANGED <<inbox, closing>>
  \/ Len(inbox) = InboxCap /\ ~closed /\ closing' = "done" /\ UNCHANGED inbox

DemuxData ==
  /\ down # <<>> /\ Head(down) # Close
  /\ IF reg THEN Deliver(Head(down)) ELSE UNCHANGED <<inbox, closing>>
  /\ down' = Tail(down)
  /\ UNCHANGED <<wc3Side, copies, feeder, reg, up, tunUp, relay, farSide>>

\* closeStream.
DemuxClose ==
  /\ down # <<>> /\ Head(down) = Close
  /\ IF reg THEN ShutdownFromDemux ELSE UNCHANGED closing
  /\ reg' = FALSE
  /\ down' = Tail(down)
  /\ UNCHANGED <<wc3Side, copies, inbox, feeder, up, tunUp, relay, farSide>>

\* closeAll, when the tunnel is gone.
DemuxEnds ==
  /\ ~tunUp /\ reg
  /\ ShutdownFromDemux
  /\ reg' = FALSE
  /\ UNCHANGED <<wc3Side, copies, inbox, feeder, tun, relay, farSide>>

FeederPeeks ==   \* mutant: a chunk stays in the inbox while it is written
  /\ feeder.at = "select"
  /\ \/ inbox # <<>> /\ feeder' = Holding("write", Head(inbox))
     \/ closed /\ feeder' = Holding("ended", 0)
  /\ UNCHANGED <<wc3Side, copies, closing, inbox, reg, tun, relay, farSide>>
\* stream.pump: its select takes any ready case.
FeederTakes ==
  /\ feeder.at = "select"
  /\ \/ /\ inbox # <<>>
        /\ feeder' = Holding("write", Head(inbox))
        /\ inbox' = Tail(inbox)
     \/ /\ closed
        /\ feeder' = Holding("ended", 0)
        /\ UNCHANGED inbox
  /\ UNCHANGED <<wc3Side, copies, closing, reg, tun, relay, farSide>>

\* pw.Write meets pr.Read.
FeederHands ==
  /\ feeder.at = "write" /\ copyDown.at = "read" /\ ~pwClosed
  /\ copyDown' = Holding("write", feeder.chunk)
  /\ feeder' = Idle
  /\ UNCHANGED <<wc3Side, copyUp, upRead, closeSent, closing, inbox, reg, tun, relay,
                 farSide>>

FeederFails ==
  /\ feeder.at = "write" /\ pwClosed
  /\ feeder' = Holding("ended", 0)
  /\ UNCHANGED <<wc3Side, copies, closing, inbox, reg, tun, relay, farSide>>
-----------------------------------------------------------------------------
(* The copy loops of Proxy.handle and of bridgeJoiner. *)

\* bridgeJoiner dials WC3's game listener; on failure it closes the stream.
BridgeDials ==
  /\ copyDown.at = "dial"
  /\ \/ /\ copyDown' = Holding("read", 0) /\ copyUp' = "read" /\ local' = "open"
     \/ /\ copyDown' = Holding("bye", 0) /\ copyUp' = "ended" /\ UNCHANGED local
  /\ UNCHANGED <<bridged, wc3, wc3Got, upRead, closeSent, strm, tun, relay, farSide>>

CopyUpReads ==
  /\ copyUp = "read" /\ local # "closed" /\ WithinLoads(upRead + 1, pumpRead)
  /\ upRead' = upRead + 1
  /\ SendUp(upRead')
  /\ copyUp' = IF tunUp THEN "read" ELSE "bye"
  /\ UNCHANGED <<wc3Side, copyDown, closeSent, strm, relay, farSide>>

CopyUpEnds ==
  /\ copyUp = "read"
  /\ local = "closed" \/ wc3.fin
  /\ copyUp' = "bye"
  /\ UNCHANGED <<wc3Side, copyDown, upRead, closeSent, strm, tun, relay, farSide>>

\* WC3 reads its socket.
CopyDownWrites ==
  /\ copyDown.at = "write" /\ local = "open" /\ ~wc3.gone
  /\ wc3Got' = Append(wc3Got, copyDown.chunk)
  /\ copyDown' = Holding("read", 0)
  /\ UNCHANGED <<bridged, wc3, local, copyUp, upRead, closeSent, strm, tun, relay, farSide>>

\* The stream is at its end, or WC3's socket is.  The gateway half-closes the
\* socket and leaves it to copyUp to close the stream, the bridge closes both.
CopyDownEnds ==
  /\ \/ copyDown.at = "read" /\ pwClosed
     \/ copyDown.at = "write" /\ wc3.gone
  /\ IF bridged
     THEN copyDown' = Holding("bye", 0) /\ UNCHANGED local
     ELSE copyDown' = Holding("ended", 0) /\ local' = "halfClosed"
  /\ UNCHANGED <<bridged, wc3, wc3Got, copyUp, upRead, closeSent, strm, tun, relay, farSide>>

Loops == {"copyUp", "copyDown"}
LoopAt(loop) == IF loop = "copyUp" THEN copyUp ELSE copyDown.at
LoopGoes(loop, where) ==
  IF loop = "copyUp" THEN copyUp' = where /\ UNCHANGED copyDown
                     ELSE copyDown' = Holding(where, 0) /\ UNCHANGED copyUp
LoopDone(loop) == IF loop = "copyUp" THEN "ended" ELSE "release"

ShutOnly(loop) ==   \* mutant: Close sends no CLOSE
  /\ LoopAt(loop) = "bye"
  /\ LoopGoes(loop, "shut")
  /\ UNCHANGED <<wc3Side, upRead, closeSent, strm, tun, relay, farSide>>
\* stream.Close: CLOSE once, then shutdown: close(closed), and after it pw.Close.
SayBye(loop) ==
  /\ LoopAt(loop) = "bye"
  /\ IF closeSent THEN UNCHANGED tun ELSE SendUp(Close)
  /\ closeSent' = TRUE
  /\ LoopGoes(loop, "shut")
  /\ UNCHANGED <<wc3Side, upRead, strm, relay, farSide>>

ShutBegins(loop) ==
  /\ LoopAt(loop) = "shut"
  /\ \/ closing = "no" /\ closing' = "local" /\ LoopGoes(loop, "shutting")
     \/ closing = "done" /\ UNCHANGED closing /\ LoopGoes(loop, LoopDone(loop))
  /\ UNCHANGED <<wc3Side, upRead, closeSent, inbox, feeder, reg, tun, relay, farSide>>

ShutEnds(loop) ==
  /\ LoopAt(loop) = "shutting"
  /\ closing' = "done"
  /\ LoopGoes(loop, LoopDone(loop))
  /\ UNCHANGED <<wc3Side, upRead, closeSent, inbox, feeder, reg, tun, relay, farSide>>

\* bridgeJoiner's deferred calls: wc3.Close, then closeStream.
BridgeReturns ==
  /\ copyDown.at = "release"
  /\ LoopGoes("copyDown", "ended")
  /\ local' = IF local = "none" THEN local ELSE "closed"
  /\ reg' = FALSE
  /\ UNCHANGED <<bridged, wc3, wc3Got, upRead, closeSent, closing, inbox, feeder, tun, relay, farSide>>

\* handle, once both loops have ended; the stream was closed by copyUp.
HandleReturns ==
  /\ ~bridged /\ copyUp = "ended" /\ copyDown.at = "ended" /\ local # "closed"
  /\ local' = "closed"
  /\ UNCHANGED <<bridged, wc3, wc3Got, copies, strm, tun, relay, farSide>>
-----------------------------------------------------------------------------
(* The relay: readTunnel, the writer and the pump of the stream. *)

\* relayConn.deliver, and closeConn when it cannot queue.
RelayDeliverKeeping(chunk) ==   \* mutant: the chunk is dropped, not the stream
  \/ Len(out) < OutCap /\ out' = Append(out, chunk) /\ UNCHANGED <<conn, sock>>
  \/ Len(out) = OutCap /\ UNCHANGED <<out, conn, sock>>
RelayDeliver(chunk) ==
  \/ Len(out) < OutCap /\ out' = Append(out, chunk) /\ UNCHANGED <<conn, sock>>
  \/ /\ Len(out) = OutCap \/ sock = "closed"
     /\ conn' = FALSE /\ sock' = "closed" /\ UNCHANGED out

RelayData ==
  /\ up # <<>> /\ Head(up) # Close
  /\ IF conn THEN RelayDeliver(Head(up)) ELSE UNCHANGED <<out, conn, sock>>
  /\ up' = Tail(up)
  /\ UNCHANGED <<wc3Side, copies, strm, down, tunUp, writer, pump, pumpRead, farSide>>

\* closeConn: out of the map, and shut down unless somebody else took it out.
RelayClose ==
  /\ up # <<>> /\ Head(up) = Close
  /\ conn' = FALSE /\ sock' = IF conn THEN "closed" ELSE sock
  /\ up' = Tail(up)
  /\ UNCHANGED <<wc3Side, copies, strm, down, tunUp, out, writer, pump, pumpRead, farSide>>

\* closeAllConns, when the tunnel is gone.
RelayEnds ==
  /\ ~tunUp /\ conn
  /\ conn' = FALSE /\ sock' = "closed"
  /\ UNCHANGED <<wc3Side, copies, strm, tun, out, writer, pump, pumpRead, farSide>>

WriterTakes ==
  /\ writer.at = "select"
  /\ \/ /\ out # <<>>
        /\ writer' = Holding("write", Head(out))
        /\ out' = Tail(out)
     \/ /\ sock = "closed"
        /\ writer' = Holding("ended", 0)
        /\ UNCHANGED out
  /\ UNCHANGED <<wc3Side, copies, strm, tun, conn, sock, pump, pumpRead, farSide>>

WriterWrites ==
  /\ writer.at = "write" /\ sock = "open" /\ ~far.gone
  /\ farGot' = Append(farGot, writer.chunk)
  /\ writer' = Idle
  /\ UNCHANGED <<far, wc3Side, copies, strm, tun, conn, out, sock, pump, pumpRead>>

\* The socket is closed, the peer is gone or does not read before the deadline.
WriterFails ==
  /\ writer.at = "write"
  /\ sock' = "closed"
  /\ writer' = Holding("ended", 0)
  /\ UNCHANGED <<wc3Side, copies, strm, tun, conn, out, pump, pumpRead, farSide>>

PumpReads ==
  /\ pump = "read" /\ sock = "open" /\ WithinLoads(upRead, pumpRead + 1)
  /\ pumpRead' = pumpRead + 1
  /\ SendDown(pumpRead')
  /\ pump' = IF tunUp THEN "read" ELSE "bye"
  /\ UNCHANGED <<wc3Side, copies, strm, conn, out, writer, sock, farSide>>

PumpEnds ==
  /\ pump = "read"
  /\ sock = "closed" \/ far.fin
  /\ pump' = "bye"
  /\ UNCHANGED <<wc3Side, copies, strm, tun, conn, out, writer, sock, pumpRead, farSide>>

PumpSaysNothing ==   \* mutant: no CLOSE when the socket ends
  /\ pump = "bye" /\ pump' = "remove"
  /\ UNCHANGED <<wc3Side, copies, strm, tun, conn, out, writer, sock, pumpRead, farSide>>
PumpSaysBye ==
  /\ pump = "bye" /\ pump' = "remove"
  /\ SendDown(Close)
  /\ UNCHANGED <<wc3Side, copies, strm, conn, out, writer, sock, pumpRead, farSide>>

PumpRemoves ==
  /\ pump = "remove" /\ pump' = "ended"
  /\ conn' = FALSE /\ sock' = IF conn THEN "closed" ELSE sock
  /\ UNCHANGED <<wc3Side, copies, strm, tun, out, writer, pumpRead, farSide>>
-----------------------------------------------------------------------------
Demux == DemuxData \/ DemuxClose \/ DemuxEnds
Feeder == FeederTakes \/ FeederHands \/ FeederFails
Closer(loop) == SayBye(loop) \/ ShutBegins(loop) \/ ShutEnds(loop)
CopyUp == CopyUpReads \/ CopyUpEnds \/ Closer("copyUp")
CopyDown == BridgeDials \/ CopyDownEnds \/ Closer("copyDown") \/ BridgeReturns
RelayReader == RelayData \/ RelayClose \/ RelayEnds
Writer == WriterTakes \/ WriterWrites \/ WriterFails
Pump == PumpReads \/ PumpEnds \/ PumpSaysBye \/ PumpRemoves

Next ==
  \/ Demux \/ Feeder \/ CopyUp \/ CopyDown \/ CopyDownWrites \/ HandleReturns
  \/ RelayReader \/ Writer \/ Pump
  \/ WC3Ends \/ FarEnds \/ TunnelBreaks

Spec == Init /\ [][Next]_vars

\* Goroutines are scheduled.  Nothing is assumed of the peers: a write to WC3 has no
\* deadline and may block for ever, one to the far peer has one.
FairSpec ==
  /\ Spec
  /\ WF_vars(Demux) /\ WF_vars(Feeder) /\ WF_vars(CopyUp) /\ WF_vars(CopyDown)
  /\ WF_vars(HandleReturns) /\ WF_vars(RelayReader) /\ WF_vars(Writer) /\ WF_vars(Pump)
-----------------------------------------------------------------------------
(* Properties. *)

\* The variables have their types and the two queues their bounds.
TypeOK ==
  /\ {upRead, pumpRead} \subseteq Nat
  /\ {wc3.fin, wc3.gone, far.fin, far.gone, bridged} \subseteq BOOLEAN
  /\ local \in {"none", "open", "halfClosed", "closed"} /\ sock \in {"open", "closed"}
  /\ copyUp \in {"none", "read", "bye", "shut", "shutting", "ended"}
  /\ copyDown \in [at : {"dial", "read", "write", "bye", "shut", "shutting", "release",
                         "ended"}, chunk : 0..pumpRead]
  /\ {feeder.at, writer.at} \subseteq {"select", "write", "ended"}
  /\ {closeSent, reg, tunUp, conn} \subseteq BOOLEAN
  /\ closing \in {"no", "local", "done"}
  /\ pump \in {"read", "bye", "remove", "ended"}
  /\ Len(inbox) <= InboxCap /\ Len(out) <= OutCap

UpPipe == INSTANCE BytePipe WITH Gaps <- FALSE, sent <- upRead, got <- farGot
DownPipe == INSTANCE BytePipe WITH Gaps <- TRUE, sent <- pumpRead, got <- wc3Got

\* What the far peer receives is a prefix of what was read from WC3: a stream whose queue is
\* full or whose socket failed is dropped whole, never a chunk out of its middle
\* (session.go: deliver, and closeConn when it returns false).  What WC3 receives is in
\* order and nothing twice, through the inbox, the pipe and every way to shut the stream
\* down (stream.go).
Verbatim == UpPipe!Spec /\ DownPipe!Spec

\* Neither demux nor readTunnel is ever stuck on a stream, whatever its peer reads and
\* although nothing bounds a write to WC3: they can always take the next frame off the
\* tunnel (stream.go, session.go: deliver), but for the moment another goroutine needs
\* for the second step of its shutdown.
NeverStuck ==
  /\ down # <<>> /\ closing # "local" => ENABLED Demux
  /\ up # <<>> => ENABLED RelayReader

\* The end of either side ends the stream.  Once WC3 has closed its socket, everything
\* the stream held is given up at both ends: sockets, map entries and the goroutines.
\* Once the far peer has said its last word, or the tunnel is gone, the stream is
\* forgotten at both ends and WC3 is told, unless it has stopped reading.
EndsTogether ==
  /\ wc3.gone ~> /\ local = "closed" /\ ~reg /\ copyUp = "ended" /\ copyDown.at = "ended"
                 /\ sock = "closed" /\ ~conn /\ pump = "ended"
  /\ far.fin \/ ~tunUp ~> /\ pwClosed /\ ~reg /\ sock = "closed" /\ ~conn
                          /\ local # "open" \/ copyDown.at = "write"

=============================================================================
