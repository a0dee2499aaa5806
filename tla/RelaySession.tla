---------------------------- MODULE RelaySession ----------------------------
(***************************************************************************)
(* One relay session that is up (internal/relay/session.go): the goroutine *)
(* in Session.Run, the tunnel reader, the joiner accept loop, the teardown *)
(* goroutine and one pump per stream, with the two locks they share: the   *)
(* stream map (each critical section is one step) and sendMu, which a      *)
(* writer keeps while the host does not read.                              *)
(*                                                                         *)
(* Stream ids are used once: the launcher counts its odd ids up and so     *)
(* does the accept loop its even ones, and here neither wraps.  The bytes  *)
(* of a stream are left to the modules of the data path.                   *)
(***************************************************************************)
EXTENDS Integers, FiniteSets, Sequences

CONSTANTS NClients,    \* bound: streams the launcher opens, ids 1, 3, ...
          NJoiners,    \* bound: joiners admitted, ids 2, 4, ...
          NStreams,    \* bound: streams in all
          MaxClients,  \* maxClientStreams
          MaxJoiners   \* maxJoinersPerGame

ASSUME SizesAssumption ==
  {NClients, NJoiners, NStreams, MaxClients, MaxJoiners} \subseteq Nat

Clients == {2 * i - 1 : i \in 1..NClients}
Joiners == {2 * i : i \in 1..NJoiners}
Ids == Clients \cup Joiners

VARIABLES run,         \* Run: waiting for the loops, or at a deferred call
          reader,      \* readTunnel: where it is, and on which stream
          acceptor,    \* acceptJoiners: where it is, and on which stream
          teardown,    \* the teardown goroutine
          pump,        \* the pump of each stream
          cancelled,   \* the session's context
          lnOpen,      \* the public listener
          portHeld,    \* the port is allocated
          tunOpen,     \* the tunnel can be read and written
          sendMu,      \* the writer blocked on the tunnel under sendMu
          conns,       \* the ids in Session.conns
          done,        \* Session.done
          doomed,      \* closeAllConns' snapshot
          sock,        \* the socket of each stream
          lastFrame,   \* the last frame sent to the host on each stream
          opened, joined,  \* the launcher's and the accept loop's id counters
          stalled,     \* the host reads nothing more
          gone         \* the host sends nothing more

goroutines == <<run, reader, acceptor, teardown, pump>>
streams == <<conns, done, doomed, sock>>
host == <<opened, joined, stalled, gone>>
vars == <<goroutines, cancelled, lnOpen, portHeld, tunOpen, sendMu, streams,
          lastFrame, host>>

At(where, id) == [at |-> where, id |-> id]
Nobody == At("nobody", 0)
Reader == At("reader", 0)
Acceptor == At("acceptor", 0)
Pump(id) == At("pump", id)

Init ==
  /\ run = "wait"
  /\ reader = At("read", 0)
  /\ acceptor = At("accept", 0)
  /\ teardown = "wait"
  /\ pump = [id \in Ids |-> "none"]
  /\ cancelled = FALSE
  /\ lnOpen = TRUE
  /\ portHeld = TRUE
  /\ tunOpen = TRUE
  /\ sendMu = Nobody
  /\ conns = {}
  /\ done = FALSE
  /\ doomed = {}
  /\ sock = [id \in Ids |-> "none"]
  /\ lastFrame = [id \in Ids |-> "none"]
  /\ opened = 0
  /\ joined = 0
  /\ stalled = FALSE
  /\ gone = FALSE
-----------------------------------------------------------------------------
(* Session.send: one frame under sendMu.  While the host reads, lock, write *)
(* and unlock are one step; otherwise the writer keeps the lock until the   *)
(* write deadline, or the tunnel being closed, makes the write fail.        *)

SendOK(id, frame) ==
  /\ sendMu = Nobody /\ tunOpen /\ ~stalled
  /\ lastFrame' = IF id = 0 THEN lastFrame ELSE [lastFrame EXCEPT ![id] = frame]
  /\ UNCHANGED <<tunOpen, sendMu>>

SendBlocks(g) ==
  /\ sendMu = Nobody /\ tunOpen /\ stalled
  /\ sendMu' = g
  /\ UNCHANGED <<goroutines, cancelled, lnOpen, portHeld, tunOpen, streams,
                 lastFrame, host>>

SendNeverTimesOut(g) ==   \* mutant: no write deadline
  /\ sendMu \in {g, Nobody} /\ ~tunOpen
  /\ sendMu' = Nobody
  /\ UNCHANGED <<tunOpen, lastFrame>>
\* A write that failed leaves the tunnel desynced, so send closes it.
SendFails(g) ==
  /\ sendMu = g \/ (sendMu = Nobody /\ ~tunOpen)
  /\ tunOpen' = FALSE
  /\ sendMu' = Nobody
  /\ UNCHANGED lastFrame

\* Every caller goes on to its next step knowing whether send failed.
SendEnds(g, id, frame) == SendOK(id, frame) \/ SendFails(g)

quiet == <<run, teardown, lnOpen, portHeld, host>>
wire == <<tunOpen, sendMu, lastFrame>>

CloseConn(id) ==
  /\ conns' = conns \ {id}
  /\ sock' = IF id \in conns THEN [sock EXCEPT ![id] = "closed"] ELSE sock
  /\ UNCHANGED <<done, doomed>>
-----------------------------------------------------------------------------
(* readTunnel: one frame at a time from the host. *)

AtCap(kind, cap) == Cardinality(conns \cap kind) >= cap

\* The bound counts the streams opened and a joiner about to be admitted; a stream over
\* its cap, which comes to nothing, is not bound by it.
MoreStreams(kind, cap) ==
  \/ opened + joined + (IF acceptor.at = "admit" THEN 1 ELSE 0) < NStreams
  \/ AtCap(kind, cap)

Reading == reader.at = "read" /\ tunOpen /\ ~gone
ReaderStep(where, id) ==
  reader' = At(where, id) /\ UNCHANGED <<run, acceptor, teardown>>

\* The loop returns, and the goroutine's deferred cancel runs.
ReaderEnds ==
  /\ ReaderStep("ended", 0)
  /\ cancelled' = TRUE
  /\ UNCHANGED <<pump, lnOpen, portHeld, streams, host>>

\* OPEN on a fresh odd id: openPvpgn counts the client streams and dials, or
\* answers CLOSE when there are too many.
TooManyClientsLate == AtCap(Clients, MaxClients + 1)   \* mutant: off by one
TooManyClients == AtCap(Clients, MaxClients)

ReadOpen ==
  /\ Reading
  /\ opened < NClients /\ MoreStreams(Clients, MaxClients)
  /\ opened' = opened + 1
  /\ ReaderStep(IF TooManyClients THEN "refuse" ELSE "dial", 2 * opened' - 1)
  /\ UNCHANGED <<pump, cancelled, lnOpen, portHeld, wire, streams, joined,
                 stalled, gone>>

\* OPEN on an even id or on a live one is not the launcher's to send.
ReadForeignOpen ==
  /\ Reading
  /\ ReaderEnds
  /\ UNCHANGED wire

\* The dial of pvpgn, synchronous in the read loop, succeeds or fails; it fails
\* at the latest when its ten seconds are over or the session is cancelled.
DialOK ==
  /\ reader.at = "dial"
  /\ sock' = [sock EXCEPT ![reader.id] = "open"]
  /\ ReaderStep("add", reader.id)
  /\ UNCHANGED <<pump, cancelled, lnOpen, portHeld, wire, conns, done, doomed, host>>

DialFails ==
  /\ reader.at = "dial"
  /\ ReaderStep("refuse", reader.id)
  /\ UNCHANGED <<pump, cancelled, lnOpen, portHeld, wire, streams, host>>

AddConnAnyway ==   \* mutant: done is not looked at
  /\ reader.at = "add"
  /\ conns' = conns \cup {reader.id}
  /\ pump' = [pump EXCEPT ![reader.id] = "read"]
  /\ ReaderStep("read", 0)
  /\ UNCHANGED <<cancelled, lnOpen, portHeld, wire, sock, done, doomed, host>>
\* addConn: a dial that outlived the session must not leave its socket behind.
AddConn ==
  /\ reader.at = "add"
  /\ IF done
     THEN /\ sock' = [sock EXCEPT ![reader.id] = "closed"]
          /\ UNCHANGED <<conns, pump>>
     ELSE /\ conns' = conns \cup {reader.id}
          /\ pump' = [pump EXCEPT ![reader.id] = "read"]
          /\ UNCHANGED sock
  /\ ReaderStep("read", 0)
  /\ UNCHANGED <<cancelled, lnOpen, portHeld, wire, done, doomed, host>>

\* CLOSE for a stream that was not opened; its failure is ignored.
RefuseOpen ==
  /\ reader.at = "refuse"
  /\ SendEnds(Reader, reader.id, "CLOSE")
  /\ ReaderStep("read", 0)
  /\ UNCHANGED <<pump, cancelled, lnOpen, portHeld, streams, host>>

\* DATA that deliver cannot queue, because the queue is full or the stream is
\* done, shuts the stream down; DATA that it can changes nothing here.
ReadData(id) ==
  /\ Reading
  /\ id \in conns
  /\ sock' = [sock EXCEPT ![id] = "closed"]
  /\ ReaderStep("drop", id)
  /\ UNCHANGED <<pump, cancelled, lnOpen, portHeld, wire, conns, done, doomed, host>>

DropConn ==
  /\ reader.at = "drop"
  /\ CloseConn(reader.id)
  /\ ReaderStep("read", 0)
  /\ UNCHANGED <<pump, cancelled, lnOpen, portHeld, wire, host>>

ReadClose(id) ==
  /\ Reading
  /\ CloseConn(id)
  /\ ReaderStep("read", 0)
  /\ UNCHANGED <<pump, cancelled, lnOpen, portHeld, wire, host>>

ReadPing ==
  /\ Reading
  /\ ReaderStep("pong", 0)
  /\ UNCHANGED <<pump, cancelled, lnOpen, portHeld, wire, streams, host>>

SendPong ==
  /\ reader.at = "pong"
  /\ \/ /\ SendOK(0, "PONG")
        /\ ReaderStep("read", 0)
        /\ UNCHANGED <<pump, cancelled, lnOpen, portHeld, streams, host>>
     \/ SendFails(Reader) /\ ReaderEnds

ReadGameOver ==
  /\ Reading
  /\ ReaderEnds
  /\ UNCHANGED wire

\* The tunnel is closed, by either side, or the idle deadline fires.
ReadFails ==
  /\ reader.at = "read"
  /\ ~tunOpen \/ gone
  /\ ReaderEnds
  /\ UNCHANGED wire
-----------------------------------------------------------------------------
(* acceptJoiners. *)

AcceptorStep(where, id) ==
  acceptor' = At(where, id) /\ UNCHANGED <<run, reader, teardown>>

AcceptorEnds == AcceptorStep("ended", 0) /\ cancelled' = TRUE

TooManyJoiners == AtCap(Joiners, MaxJoiners)
AcceptJoiner ==
  /\ acceptor.at = "accept"
  /\ lnOpen
  /\ joined < NJoiners /\ MoreStreams(Joiners, MaxJoiners)
  /\ AcceptorStep("admit", 0)
  /\ UNCHANGED <<pump, cancelled, lnOpen, portHeld, wire, streams, host>>

\* Under the lock: nothing is added to a session that is torn down or full of
\* joiners, and the socket is closed; otherwise the joiner gets the next id.

AdmitJoiner ==
  /\ acceptor.at = "admit"
  /\ LET id == 2 * (joined + 1) IN
     \/ /\ done
        /\ AcceptorEnds
        /\ UNCHANGED <<conns, sock, joined>>
     \/ /\ ~done /\ TooManyJoiners
        /\ AcceptorStep("accept", 0)
        /\ UNCHANGED <<cancelled, conns, sock, joined>>
     \/ /\ ~done /\ ~TooManyJoiners
        /\ conns' = conns \cup {id}
        /\ sock' = [sock EXCEPT ![id] = "open"]
        /\ joined' = joined + 1
        /\ AcceptorStep("announce", id)
        /\ UNCHANGED cancelled
  /\ UNCHANGED <<pump, lnOpen, portHeld, wire, done, doomed, opened, stalled, gone>>

AnnounceSilently ==   \* mutant: the pump starts although no OPEN went out
  /\ acceptor.at = "announce"
  /\ pump' = [pump EXCEPT ![acceptor.id] = "read"]
  /\ AcceptorStep("accept", 0)
  /\ UNCHANGED <<cancelled, lnOpen, portHeld, wire, streams, host>>
\* OPEN goes out before the joiner's pump starts.
Announce ==
  /\ acceptor.at = "announce"
  /\ \/ /\ SendOK(acceptor.id, "OPEN")
        /\ pump' = [pump EXCEPT ![acceptor.id] = "read"]
        /\ AcceptorStep("accept", 0)
     \/ /\ SendFails(Acceptor)
        /\ AcceptorStep("undo", acceptor.id)
        /\ UNCHANGED pump
  /\ UNCHANGED <<cancelled, lnOpen, portHeld, streams, host>>

UndoJoiner ==
  /\ acceptor.at = "undo"
  /\ CloseConn(acceptor.id)
  /\ AcceptorEnds
  /\ UNCHANGED <<pump, lnOpen, portHeld, wire, host>>

\* Accept fails once the listener is closed; it may fail at any time.
AcceptFails ==
  /\ acceptor.at = "accept"
  /\ AcceptorEnds
  /\ UNCHANGED <<pump, lnOpen, portHeld, wire, streams, host>>
-----------------------------------------------------------------------------
(* pump: socket to tunnel, then CLOSE, then closeConn. *)

PumpStep(id, where) ==
  pump' = [pump EXCEPT ![id] = where] /\ UNCHANGED <<run, reader, acceptor, teardown>>

PumpReads(id) ==
  /\ pump[id] = "read"
  /\ sock[id] = "open"
  /\ PumpStep(id, "data")
  /\ UNCHANGED <<cancelled, lnOpen, portHeld, wire, streams, host>>

PumpReadFailsMutely(id) ==   \* mutant: no CLOSE when the socket ends
  /\ pump[id] = "read"
  /\ PumpStep(id, "remove")
  /\ UNCHANGED <<cancelled, lnOpen, portHeld, wire, streams, host>>
\* The peer hung up, or the socket was shut down under the pump.
PumpReadFails(id) ==
  /\ pump[id] = "read"
  /\ PumpStep(id, "bye")
  /\ UNCHANGED <<cancelled, lnOpen, portHeld, wire, streams, host>>

PumpSends(id) ==
  /\ pump[id] = "data"
  /\ \/ SendOK(id, "DATA") /\ PumpStep(id, "read")
     \/ SendFails(Pump(id)) /\ PumpStep(id, "bye")
  /\ UNCHANGED <<cancelled, lnOpen, portHeld, streams, host>>

PumpSaysBye(id) ==
  /\ pump[id] = "bye"
  /\ SendEnds(Pump(id), id, "CLOSE")
  /\ PumpStep(id, "remove")
  /\ UNCHANGED <<cancelled, lnOpen, portHeld, streams, host>>

PumpRemoves(id) ==
  /\ pump[id] = "remove"
  /\ CloseConn(id)
  /\ PumpStep(id, "none")
  /\ UNCHANGED <<cancelled, lnOpen, portHeld, wire, host>>
-----------------------------------------------------------------------------
(* The end: the teardown goroutine, and Run once both loops have ended. *)

TeardownStep(from, to) ==
  /\ teardown = from
  /\ teardown' = to
  /\ UNCHANGED <<run, reader, acceptor, pump, cancelled, portHeld, sendMu,
                 lastFrame, host>>

TeardownWakes ==
  cancelled /\ TeardownStep("wait", "closeLn") /\ UNCHANGED <<lnOpen, tunOpen, streams>>

TeardownClosesLn ==
  TeardownStep("closeLn", "closeTun") /\ lnOpen' = FALSE /\ UNCHANGED <<tunOpen, streams>>

TeardownClosesTun ==
  TeardownStep("closeTun", "closeAll") /\ tunOpen' = FALSE /\ UNCHANGED <<lnOpen, streams>>

\* closeAllConns, under the lock ...
TeardownTakesAll ==
  /\ TeardownStep("closeAll", "shutdown")
  /\ done' = TRUE
  /\ doomed' = conns
  /\ conns' = {}
  /\ UNCHANGED <<lnOpen, tunOpen, sock>>

\* ... and after it, one socket at a time.
TeardownShutsOne(id) ==
  /\ id \in doomed
  /\ TeardownStep("shutdown", "shutdown")
  /\ sock' = [sock EXCEPT ![id] = "closed"]
  /\ doomed' = doomed \ {id}
  /\ UNCHANGED <<lnOpen, tunOpen, conns, done>>

TeardownEnds ==
  doomed = {} /\ TeardownStep("shutdown", "ended") /\ UNCHANGED <<lnOpen, tunOpen, streams>>

RunStep(from, to) ==
  /\ run = from
  /\ run' = to
  /\ UNCHANGED <<reader, acceptor, teardown, pump, sendMu, lastFrame, streams, host>>

RunWakesEarly ==   \* mutant: Run waits for the reader only
  /\ reader.at = "ended"
  /\ RunStep("wait", "closeLn")
  /\ cancelled' = TRUE
  /\ UNCHANGED <<lnOpen, portHeld, tunOpen>>
\* wg.Wait is over; the deferred calls follow, the last registered first.
RunWakes ==
  /\ reader.at = "ended" /\ acceptor.at = "ended"
  /\ RunStep("wait", "closeLn")
  /\ cancelled' = TRUE
  /\ UNCHANGED <<lnOpen, portHeld, tunOpen>>

RunSkipsLn ==   \* mutant: Release is deferred after ln.Close, so it runs first
  RunStep("closeLn", "release") /\ UNCHANGED <<cancelled, lnOpen, portHeld, tunOpen>>
RunClosesLn ==
  RunStep("closeLn", "release") /\ lnOpen' = FALSE /\ UNCHANGED <<cancelled, portHeld, tunOpen>>

RunReleases ==
  RunStep("release", "closeTun") /\ portHeld' = FALSE /\ UNCHANGED <<cancelled, lnOpen, tunOpen>>

RunClosesTun ==
  RunStep("closeTun", "returned") /\ tunOpen' = FALSE /\ UNCHANGED <<cancelled, lnOpen, portHeld>>
-----------------------------------------------------------------------------
(* What the host, the peers and the daemon around the session do. *)

internal == <<goroutines, lnOpen, portHeld, sendMu, lastFrame>>

HostStalls ==
  /\ ~stalled /\ stalled' = TRUE
  /\ UNCHANGED <<internal, cancelled, tunOpen, streams, opened, joined, gone>>

HostFallsSilent ==
  /\ ~gone /\ gone' = TRUE
  /\ UNCHANGED <<internal, cancelled, tunOpen, streams, opened, joined, stalled>>

TunnelBreaks ==
  /\ tunOpen /\ tunOpen' = FALSE
  /\ UNCHANGED <<internal, cancelled, streams, host>>

\* The stream's writer fails or times out, and shuts its stream down.
WriterFails(id) ==
  /\ sock[id] = "open" /\ sock' = [sock EXCEPT ![id] = "closed"]
  /\ UNCHANGED <<internal, cancelled, tunOpen, conns, done, doomed, host>>

\* The daemon's context is cancelled, or a panic was contained.
Cancel ==
  /\ ~cancelled /\ cancelled' = TRUE
  /\ UNCHANGED <<internal, tunOpen, streams, host>>
-----------------------------------------------------------------------------
Waiting(g) ==
  CASE g = Reader   -> reader.at \in {"pong", "refuse"}
    [] g = Acceptor -> acceptor.at = "announce"
    [] OTHER        -> pump[g.id] \in {"data", "bye"}

Writers == {Reader, Acceptor} \cup {Pump(id) : id \in Ids}
Blocked == \E g \in Writers : Waiting(g) /\ SendBlocks(g)

ReaderWorks ==
  \/ DialOK \/ DialFails \/ AddConn \/ RefuseOpen \/ DropConn \/ SendPong \/ ReadFails
AcceptorWorks == AdmitJoiner \/ Announce \/ UndoJoiner \/ (~lnOpen /\ AcceptFails)
PumpWorks(id) ==
  \/ PumpSends(id) \/ PumpSaysBye(id) \/ PumpRemoves(id)
  \/ (sock[id] = "closed" /\ PumpReadFails(id))
TeardownWorks ==
  \/ TeardownWakes \/ TeardownClosesLn \/ TeardownClosesTun \/ TeardownTakesAll
  \/ TeardownEnds \/ \E id \in Ids : TeardownShutsOne(id)
RunWorks == RunWakes \/ RunClosesLn \/ RunReleases \/ RunClosesTun

HostSends ==
  \/ ReadOpen \/ ReadForeignOpen \/ ReadPing \/ ReadGameOver
  \/ \E id \in Ids : ReadData(id) \/ ReadClose(id)

Next ==
  \/ ReaderWorks \/ AcceptorWorks \/ TeardownWorks \/ RunWorks \/ Blocked
  \/ \E id \in Ids : PumpWorks(id) \/ PumpReads(id) \/ PumpReadFails(id) \/ WriterFails(id)
  \/ HostSends \/ AcceptJoiner \/ AcceptFails
  \/ HostStalls \/ HostFallsSilent \/ TunnelBreaks \/ Cancel

Spec == Init /\ [][Next]_vars

\* Goroutines are scheduled; dials, writes and idle reads end at their deadlines.
\* The launcher, as long as it sends at all, pings every 30 seconds (link.go).
FairSpec ==
  /\ Spec
  /\ WF_vars(ReaderWorks) /\ WF_vars(AcceptorWorks) /\ WF_vars(TeardownWorks)
  /\ WF_vars(RunWorks) /\ WF_vars(Blocked)
  /\ \A id \in Ids : WF_vars(PumpWorks(id))
  /\ WF_vars(ReadPing)
-----------------------------------------------------------------------------
(* Properties. *)

ReaderPlaces == {"read", "dial", "add", "refuse", "drop", "pong", "ended"}
AcceptorPlaces == {"accept", "admit", "announce", "undo", "ended"}
PumpPlaces == {"none", "read", "data", "bye", "remove"}
TeardownPlaces == {"wait", "closeLn", "closeTun", "closeAll", "shutdown", "ended"}
RunPlaces == {"wait", "closeLn", "release", "closeTun", "returned"}

Flags == {cancelled, lnOpen, portHeld, tunOpen, done, stalled, gone} \subseteq BOOLEAN
Types ==
  /\ Flags
  /\ run \in RunPlaces /\ teardown \in TeardownPlaces
  /\ reader \in [at : ReaderPlaces, id : Ids \cup {0}]
  /\ acceptor \in [at : AcceptorPlaces, id : Ids \cup {0}]
  /\ pump \in [Ids -> PumpPlaces]
  /\ sendMu \in Writers \cup {Nobody}
  /\ conns \in SUBSET Ids /\ doomed \in SUBSET Ids
  /\ sock \in [Ids -> {"none", "open", "closed"}]
  /\ lastFrame \in [Ids -> {"none", "OPEN", "DATA", "CLOSE"}]
  /\ opened \in 0..NClients /\ joined \in 0..NJoiners

WithinCaps ==
  /\ Cardinality(conns \cap Clients) <= MaxClients
  /\ Cardinality(conns \cap Joiners) <= MaxJoiners

\* The variables have their types, and the number of live streams of either kind
\* stays within its cap: the joiner cap is checked and the joiner registered under
\* one lock, while the client cap is checked before the dial and the stream
\* registered after it, which only holds because one goroutine opens all of them.
TypeOK == Types /\ WithinCaps

\* Every open socket is one that somebody is bound to close: it is registered, or
\* in the teardown's snapshot, or just dialed and about to meet addConn.  Nothing
\* is registered once the teardown has taken its snapshot, however late a dial
\* returns or a joiner is accepted (session.go: done, addConn, acceptJoiners,
\* closeAllConns).
NoOrphanSocket ==
  /\ \A id \in Ids :
       sock[id] = "open" => id \in conns \cup doomed \/ reader = At("add", id)
  /\ done => conns = {}

\* When the port goes back to the pool nobody listens on it any more and no
\* goroutine of this session can accept or announce another joiner on it
\* (session.go: wg.Wait before the deferred calls, ln.Close before Release).
PortGivenBackQuietly ==
  ~portHeld => ~lnOpen /\ reader.at = "ended" /\ acceptor.at = "ended"

\* What the host sees of a stream: a joiner is announced by OPEN before its first
\* byte, a stream it opened itself is not, and nothing follows a CLOSE, although
\* the pumps, the reader and the accept loop all write to the tunnel.
NextFrames(id, frame) ==
  CASE frame = "none"  -> IF id \in Joiners THEN {"OPEN"} ELSE {"DATA", "CLOSE"}
    [] frame = "OPEN"  -> {"DATA", "CLOSE"}
    [] frame = "DATA"  -> {"DATA", "CLOSE"}
    [] frame = "CLOSE" -> {}
FramesInOrder ==
  [][\A id \in Ids : lastFrame'[id] # lastFrame[id] =>
                       lastFrame'[id] \in NextFrames(id, lastFrame[id])]_lastFrame

\* A session whose context is cancelled, for whatever reason, comes to nothing: Run
\* returns, the teardown goroutine and every pump end, every socket is closed.  Nobody
\* waits for ever on sendMu, on Accept, on a read or on a dial.  The same for one whose
\* host stops sending, or only reading: some write to it fails, at the latest that of
\* a PONG, and closes the tunnel under the reader (session.go: tunWriteTimeout,
\* idleTimeout, the teardown goroutine).
WindsUp ==
  cancelled \/ stalled \/ gone ~>
    /\ run = "returned" /\ ~portHeld /\ teardown = "ended"
    /\ \A id \in Ids : sock[id] # "open" /\ pump[id] = "none"

\* The host always hears of the end of a stream, or loses the tunnel: no stream is
\* left half open on the launcher's side when its socket here is gone.
HostToldOfEnd ==
  \A id \in Ids : sock[id] = "closed" ~> lastFrame[id] = "CLOSE" \/ ~tunOpen

\* Seen from the daemon, this is a session as RelayServer has it.
stage ==
  CASE run = "wait"     -> "up"
    [] run = "closeLn"  -> "closeLn"
    [] run = "release"  -> "freePort"
    [] run = "closeTun" -> "closeTun"
    [] run = "returned" -> "freeSlot"
Server ==
  INSTANCE RelayServer WITH
    Conns <- {1}, Sources <- {1}, SourceOf <- [c \in {1} |-> 1],
    Lo <- 6200, Hi <- 6200, MaxPerIP <- 4, MaxTotal <- 80,
    TLSConfigured <- TRUE, RequireTLS <- TRUE, TokenSet <- TRUE, RequireAuth <- TRUE,
    pc <- [c \in {1} |-> stage],
    port <- [c \in {1} |-> IF portHeld THEN 6200 ELSE 0],
    lnOpen <- IF lnOpen THEN {1} ELSE {},
    free <- IF portHeld THEN <<>> ELSE <<6200>>,
    used <- IF portHeld THEN {6200} ELSE {},
    perIP <- [s \in {1} |-> 1],
    total <- 1,
    silent <- IF gone THEN {1} ELSE {}

\* Each step of the session's goroutines is, for the daemon, one that RelayServer
\* allows a session that is up, or none: in particular the listener may close
\* early, by the teardown, but the port is never freed before Run's turn.
FitsServer == [][Server!Next]_(Server!vars)

=============================================================================
