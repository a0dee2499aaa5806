------------------------------ MODULE KeepAlive ------------------------------
(***************************************************************************)
(* The clocks of the tunnel: the launcher's ping ticker and read deadline  *)
(* (internal/relaylink/link.go: keepalive, demux), the relay's idle        *)
(* deadline and the dial of PvPGN that its read loop makes itself          *)
(* (internal/relay/session.go: readTunnel, openPvpgn).  Time is in units   *)
(* of the dial timeout, ten seconds.                                       *)
(*                                                                         *)
(* The network delivers at once.  The realm and the joiners are quiet, so  *)
(* PONG and the CLOSE of a refused stream are all the launcher hears.      *)
(***************************************************************************)
EXTENDS Naturals, Sequences, FiniteSets

CONSTANTS PingEvery,    \* timings.pingEvery
          ReadIdle,     \* timings.readIdle
          IdleTimeout,  \* idleTimeout
          DialTimeout,  \* the timeout of openPvpgn's dial
          Burst         \* streams WC3 may be opening at the same time

ASSUME ClocksAssumption ==
  /\ PingEvery \in Nat \ {0} /\ ReadIdle \in Nat \ {0} /\ IdleTimeout \in Nat \ {0}
  /\ DialTimeout \in Nat \ {0} /\ Burst \in Nat

VARIABLES sincePing,  \* time since the last tick of the launcher's ticker
          quiet,      \* time since the launcher's last frame
          idle,       \* time since readTunnel armed its deadline
          toRelay,    \* the frames it has not read
          dialing,    \* it is dialing PvPGN
          left,       \* the time this dial has left
          host, relay, \* "up", "gone" without a word, or "gaveUp" at a deadline
          goneFor     \* history: time since the last end that vanished did

vars == <<sincePing, quiet, idle, toRelay, dialing, left, host, relay, goneFor>>

Init ==
  /\ sincePing = 0 /\ quiet = 0 /\ idle = 0
  /\ toRelay = <<>> /\ dialing = FALSE /\ left = 0
  /\ host = "up" /\ relay = "up" /\ goneFor = 0

\* Who gives up closes the tunnel, and the other end sees that.
hostRuns == host = "up" /\ relay # "gaveUp"
relayRuns == relay = "up" /\ host # "gaveUp"
Opens(frames) == {i \in DOMAIN frames : frames[i] = "OPEN"}
Opening == Cardinality(Opens(toRelay)) + (IF dialing THEN 1 ELSE 0)
-----------------------------------------------------------------------------
(* The launcher. *)

OpenClientStream ==
  /\ hostRuns
  /\ Opening < Burst
  /\ toRelay' = Append(toRelay, "OPEN")
  /\ UNCHANGED <<sincePing, quiet, idle, dialing, left, host, relay, goneFor>>

PingRearms ==   \* mutant: a frame sent puts the read deadline off
  /\ hostRuns
  /\ sincePing = PingEvery
  /\ toRelay' = Append(toRelay, "PING")
  /\ sincePing' = 0 /\ quiet' = 0
  /\ UNCHANGED <<idle, dialing, left, host, relay, goneFor>>
Ping ==
  /\ hostRuns
  /\ sincePing = PingEvery
  /\ toRelay' = Append(toRelay, "PING")
  /\ sincePing' = 0
  /\ UNCHANGED <<quiet, idle, dialing, left, host, relay, goneFor>>

HostGivesUpIfSilent ==   \* mutant: no deadline while a stream is opening
  /\ hostRuns
  /\ quiet = ReadIdle /\ Opening = 0
  /\ host' = "gaveUp"
  /\ UNCHANGED <<sincePing, quiet, idle, toRelay, dialing, left, relay, goneFor>>

\* demux's read deadline.
HostGivesUp ==
  /\ hostRuns
  /\ quiet = ReadIdle
  /\ host' = "gaveUp"
  /\ UNCHANGED <<sincePing, quiet, idle, toRelay, dialing, left, relay, goneFor>>
-----------------------------------------------------------------------------
(* The relay. *)

readable == ~dialing /\ toRelay # <<>>

ReadPingMutely ==   \* mutant: no PONG
  /\ relayRuns
  /\ readable /\ Head(toRelay) = "PING"
  /\ toRelay' = Tail(toRelay)
  /\ idle' = 0
  /\ UNCHANGED <<sincePing, quiet, dialing, left, host, relay, goneFor>>

\* The PONG arrives at once.
ReadPing ==
  /\ relayRuns
  /\ readable /\ Head(toRelay) = "PING"
  /\ toRelay' = Tail(toRelay)
  /\ quiet' = 0 /\ idle' = 0
  /\ UNCHANGED <<sincePing, dialing, left, host, relay, goneFor>>

\* The loop does not read on before the dial is over.
ReadOpen ==
  /\ relayRuns
  /\ readable /\ Head(toRelay) = "OPEN"
  /\ toRelay' = Tail(toRelay)
  /\ dialing' = TRUE /\ left' = DialTimeout
  /\ UNCHANGED <<sincePing, quiet, idle, host, relay, goneFor>>

\* Nothing is sent on success, and the realm speaks only when it is spoken to.
DialOK ==
  /\ relayRuns
  /\ dialing
  /\ dialing' = FALSE /\ left' = 0 /\ idle' = 0
  /\ UNCHANGED <<sincePing, quiet, toRelay, host, relay, goneFor>>

\* openPvpgn sends a CLOSE.
DialFails ==
  /\ relayRuns
  /\ dialing
  /\ dialing' = FALSE /\ left' = 0 /\ idle' = 0
  /\ quiet' = 0
  /\ UNCHANGED <<sincePing, toRelay, host, relay, goneFor>>

RelayGivesUp ==
  /\ relayRuns
  /\ idle = IdleTimeout /\ ~dialing /\ toRelay = <<>>
  /\ relay' = "gaveUp"
  /\ UNCHANGED <<sincePing, quiet, idle, toRelay, dialing, left, host, goneFor>>
-----------------------------------------------------------------------------
\* A machine, or the path to it, goes away without a FIN or RST.
HostVanishes ==
  /\ hostRuns
  /\ host' = "gone" /\ goneFor' = 0
  /\ UNCHANGED <<sincePing, quiet, idle, toRelay, dialing, left, relay>>

RelayVanishes ==
  /\ relayRuns
  /\ relay' = "gone" /\ goneFor' = 0
  /\ UNCHANGED <<sincePing, quiet, idle, toRelay, dialing, left, host>>

\* Time passes when nothing is due: no ping, no frame to read, no deadline.  The
\* relay's deadline is only looked at in a read, so it rests during a dial.
hostWaits == hostRuns => sincePing < PingEvery /\ quiet < ReadIdle
relayWaits ==
  relayRuns => ~readable /\ (IF dialing THEN left > 0 ELSE idle < IdleTimeout)

Tick ==
  /\ hostRuns \/ relayRuns
  /\ hostWaits /\ relayWaits
  /\ IF hostRuns THEN sincePing' = sincePing + 1 /\ quiet' = quiet + 1
                 ELSE UNCHANGED <<sincePing, quiet>>
  /\ left' = IF relayRuns /\ dialing THEN left - 1 ELSE left
  /\ idle' = IF relayRuns /\ ~dialing THEN idle + 1 ELSE idle
  /\ goneFor' = IF "gone" \in {host, relay} THEN goneFor + 1 ELSE goneFor
  /\ UNCHANGED <<toRelay, dialing, host, relay>>

Next ==
  \/ OpenClientStream \/ Ping \/ HostGivesUp
  \/ ReadPing \/ ReadOpen \/ DialOK \/ DialFails \/ RelayGivesUp
  \/ HostVanishes \/ RelayVanishes
  \/ Tick

Spec == Init /\ [][Next]_vars

\* Time passes, deadlines expire, frames are read and dials end.
ClocksFairness ==
  /\ WF_vars(Tick) /\ WF_vars(Ping) /\ WF_vars(HostGivesUp)
  /\ WF_vars(ReadPing \/ ReadOpen) /\ WF_vars(DialOK \/ DialFails) /\ WF_vars(RelayGivesUp)
-----------------------------------------------------------------------------
(* Properties. *)

\* The variables have their types and the clocks stay within their deadlines; at most
\* Burst streams are being opened (link.go, session.go: the timings).
TypeOK ==
  /\ sincePing \in 0..PingEvery /\ quiet \in 0..ReadIdle /\ idle \in 0..IdleTimeout
  /\ toRelay \in Seq({"PING", "OPEN"}) /\ Opening <= Burst
  /\ dialing \in BOOLEAN /\ left \in 0..DialTimeout
  /\ host \in {"up", "gone", "gaveUp"} /\ relay \in {"up", "gone", "gaveUp"}
  /\ goneFor \in Nat

\* "A tunnel that has produced no frame for readIdle is dead, not quiet": the launcher gives
\* up none but a relay that is gone (link.go: timings).
SilentIsDead == host = "gaveUp" => relay = "gone"

\* Neither end gives up a peer that is alive: the launcher not a relay whose PONGs wait
\* behind the dials of the streams WC3 is opening, as long as a ping interval and a dial
\* per opening stream fit in readIdle; the relay not a launcher whose PINGs wait there as
\* well (link.go: pingEvery, readIdle; session.go: idleTimeout, the dial in the read loop).
NoFalseDeath ==
  /\ SilentIsDead
  /\ relay = "gaveUp" => host = "gone"

\* An end that vanished does not hold the other for long: the launcher for its read
\* deadline, the relay, and with it the port, for the idle deadline and a dial for each
\* stream that was being opened (session.go: idleTimeout, so that a dead session
\* "cannot hold its pool port + session slot forever"; the dial in the read loop).
NoticedInTime ==
  /\ relay = "gone" /\ hostRuns => goneFor <= ReadIdle
  /\ host = "gone" /\ relayRuns => goneFor <= IdleTimeout + DialTimeout * Burst

\* A relay that vanished is noticed by the launcher, and a launcher that vanished by
\* the relay, whatever either was doing (link.go: demux; session.go: readTunnel).
VanishingNoticed ==
  /\ []<>(relay = "gone" => host # "up")
  /\ []<>(host = "gone" => relay # "up")

=============================================================================
