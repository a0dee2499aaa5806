-------------------------------- MODULE Link --------------------------------
(***************************************************************************)
(* The launcher's end of the tunnel once Dial has returned it: ServeHost   *)
(* with the gateway it runs (internal/relaylink/host.go,                   *)
(* internal/bnetgateway/gateway.go), the Link with its stream map, send    *)
(* mutex, demux and keepalive (relaylink/link.go), one handler per WC3     *)
(* connection and one bridge per joiner.                                   *)
(*                                                                         *)
(* What a stream carries and how its two copy loops end each other is in   *)
(* StreamPath.  Ids are used once: client c has 2c - 1, and the relay      *)
(* opens each even id once.                                                *)
(***************************************************************************)
EXTENDS Naturals, FiniteSets

CONSTANTS NConns,     \* bound: WC3's connections to the gateway
          NJoiners,   \* bound: joiner streams the relay opens
          NStreams,   \* bound: both together, but for a joiner over the cap
          MaxJoiners  \* maxJoinerStreams

ASSUME LinkAssumption == {NConns, NJoiners, NStreams, MaxJoiners} \subseteq Nat

Conns == 1..NConns
Stream(c) == 2 * c - 1
JoinerIds == {2 * j : j \in 1..NJoiners}
Ids == {Stream(c) : c \in Conns} \cup JoinerIds

VARIABLES serve,     \* ServeHost
          perr,      \* what Proxy.ListenAndServe returned
          result,    \* what ServeHost returns
          ctx,       \* the caller's context is cancelled
          cancelled, \* sctx is cancelled by itself
          watch,     \* ServeHost's goroutine that waits for Done
          gate,      \* the gateway's listener is open
          handle,    \* Proxy.handle of each connection: dial, then client -> upstream
          copyDown,  \* its upstream -> client loop
          demux,     \* demux, and the stream it deals with
          keepalive,
          bridge,    \* bridgeJoiner of each joiner stream, and its stream -> WC3 loop
          replies,   \* its WC3 -> stream loop
          said,      \* the joiner streams whose sentClose is done
          streams,   \* the ids in Link.streams
          shut,      \* the streams that are shut down
          doomed,    \* closeAll's snapshot
          tunOpen,   \* the tunnel can be read and written
          done,      \* Link.done is closed
          sendMu,    \* the writer blocked on the tunnel under sendMu
          stalled,   \* the relay reads nothing more
          silent     \* the relay sends nothing more

serving == <<serve, perr, result, ctx, cancelled, watch, gate>>
table == <<streams, shut, doomed>>
tunnel == <<tunOpen, sendMu>>
relay == <<stalled, silent>>
bridges == <<bridge, replies, said>>
vars == <<serving, handle, copyDown, demux, keepalive, bridges, table, tunnel, done, relay>>

At(where, id) == [at |-> where, id |-> id]
Nobody == At("nobody", 0)
Handler(c) == At("handler", c)
Bridger(j) == At("bridger", j)
Replier(j) == At("replier", j)
Demuxer == At("demux", 0)
Pinger == At("pinger", 0)
Server == At("server", 0)

Begun == {Stream(c) : c \in {d \in Conns : handle[d] # "none"}}
         \cup {j \in JoinerIds : bridge[j] # "none"}
MoreStreams == Cardinality(Begun) < NStreams

Init ==
  /\ serve = "accept" /\ perr = "none" /\ result = "none"
  /\ ctx = FALSE /\ cancelled = FALSE /\ watch = "wait" /\ gate = TRUE
  /\ handle = [c \in Conns |-> "none"] /\ copyDown = [c \in Conns |-> "none"]
  /\ demux = At("read", 0) /\ keepalive = "wait"
  /\ bridge = [j \in JoinerIds |-> "none"] /\ replies = [j \in JoinerIds |-> "none"]
  /\ said = {}
  /\ streams = {} /\ shut = {} /\ doomed = {}
  /\ tunOpen = TRUE /\ done = FALSE /\ sendMu = Nobody
  /\ stalled = FALSE /\ silent = FALSE
-----------------------------------------------------------------------------
(* Link.send: one frame under sendMu.  While the relay reads, lock, write   *)
(* and unlock are one step; otherwise the writer keeps the lock until the   *)
(* write deadline, or the tunnel being closed, makes the write fail.        *)

SendOK == sendMu = Nobody /\ tunOpen /\ ~stalled /\ UNCHANGED tunnel

\* A write that failed leaves the tunnel desynced, so send closes it.
SendFails(g) ==
  /\ sendMu = g \/ (sendMu = Nobody /\ ~tunOpen)
  /\ tunOpen' = FALSE
  /\ sendMu' = Nobody

SendEnds(g) == SendOK \/ SendFails(g)

SendBlocks(g) ==
  /\ sendMu = Nobody /\ tunOpen /\ stalled
  /\ sendMu' = g
  /\ UNCHANGED <<serving, handle, copyDown, demux, keepalive, bridges, table, tunOpen,
                 done, relay>>

CloseStreamOnly(id) ==   \* mutant: the stream leaves the map without being shut down
  streams' = streams \ {id} /\ UNCHANGED <<shut, doomed>>
CloseStream(id) ==
  /\ streams' = streams \ {id}
  /\ shut' = IF id \in streams THEN shut \cup {id} ELSE shut
  /\ UNCHANGED doomed
-----------------------------------------------------------------------------
(* Proxy: one handler per connection. *)

HandleGoes(c, where) ==
  handle' = [handle EXCEPT ![c] = where] /\ UNCHANGED <<serving, demux, keepalive, bridges>>

\* Accept, and the first look of OpenClientStream at done.
WC3Connects(c) ==
  /\ serve = "accept" /\ gate
  /\ handle[c] = "none" /\ MoreStreams
  /\ HandleGoes(c, "look")
  /\ UNCHANGED <<copyDown, table, tunnel, done, relay>>

LookAtDone(c) ==
  /\ handle[c] = "look"
  /\ HandleGoes(c, IF done THEN "ended" ELSE "register")
  /\ UNCHANGED <<copyDown, table, tunnel, done, relay>>

Register(c) ==
  /\ handle[c] = "register"
  /\ streams' = streams \cup {Stream(c)}
  /\ HandleGoes(c, "open")
  /\ UNCHANGED <<copyDown, shut, doomed, tunnel, done, relay>>

Open(c) ==
  /\ handle[c] = "open"
  /\ \/ /\ SendOK
        /\ HandleGoes(c, "copy")
        /\ copyDown' = [copyDown EXCEPT ![c] = "copy"]
     \/ SendFails(Handler(c)) /\ HandleGoes(c, "undo") /\ UNCHANGED copyDown
  /\ UNCHANGED <<table, done, relay>>

Undo(c) ==
  /\ handle[c] = "undo"
  /\ CloseStream(Stream(c))
  /\ HandleGoes(c, "ended")
  /\ UNCHANGED <<copyDown, tunnel, done, relay>>

\* client -> upstream: WC3 sends something, or closes.
WC3Speaks(c) ==
  /\ handle[c] = "copy"
  /\ HandleGoes(c, "data")
  /\ UNCHANGED <<copyDown, table, tunnel, done, relay>>

SendData(c) ==
  /\ handle[c] = "data"
  /\ \/ SendOK /\ HandleGoes(c, "copy")
     \/ SendFails(Handler(c)) /\ HandleGoes(c, "bye")
  /\ UNCHANGED <<copyDown, table, done, relay>>

WC3Leaves(c) ==
  /\ handle[c] = "copy"
  /\ HandleGoes(c, "bye")
  /\ UNCHANGED <<copyDown, table, tunnel, done, relay>>

SayByeOnly(c) ==   \* mutant: Close sends CLOSE and leaves the stream as it is
  /\ handle[c] = "bye"
  /\ SendEnds(Handler(c))
  /\ HandleGoes(c, "wait")
  /\ UNCHANGED <<copyDown, table, done, relay>>
\* halfClose(up) is stream.Close: CLOSE to the relay, then shutdown.
SayBye(c) ==
  /\ handle[c] = "bye"
  /\ SendEnds(Handler(c))
  /\ shut' = shut \cup {Stream(c)}
  /\ HandleGoes(c, "wait")
  /\ UNCHANGED <<copyDown, streams, doomed, done, relay>>

\* upstream -> client: io.Copy reads what demux has delivered, until the stream is shut
\* down, and writes it to WC3.  That write has no deadline, and only WC3 ends it.
CopyGoes(c, where) ==
  /\ copyDown' = [copyDown EXCEPT ![c] = where]
  /\ UNCHANGED <<serving, handle, demux, keepalive, bridges, table, tunnel, done, relay>>

CopyReads(c) ==
  /\ copyDown[c] = "copy" /\ Stream(c) \notin shut /\ demux.at # "ended"
  /\ CopyGoes(c, "write")

\* WC3 reads what is written to it, or has closed the connection.
WC3Takes(c) ==
  /\ copyDown[c] = "write"
  /\ \E where \in {"copy", "ended"} : CopyGoes(c, where)

\* The loop ends with the stream; WC3 is told by a FIN.
TellWC3(c) == copyDown[c] = "copy" /\ Stream(c) \in shut /\ CopyGoes(c, "ended")

HandleReturns(c) ==
  /\ handle[c] = "wait" /\ copyDown[c] = "ended"
  /\ HandleGoes(c, "ended")
  /\ UNCHANGED <<copyDown, table, tunnel, done, relay>>
-----------------------------------------------------------------------------
(* demux. *)

Reading == demux.at = "read" /\ tunOpen /\ ~silent
DemuxGoes(where, id) ==
  demux' = At(where, id) /\ UNCHANGED <<serving, handle, copyDown, keepalive>>

TooManyJoiners == Cardinality(streams \cap JoinerIds) >= MaxJoiners

\* acceptJoiner; an OPEN on an odd, taken or zero id is ignored.  The relay opens its ids
\* in order.
ReadOpen(j) ==
  /\ Reading
  /\ bridge[j] = "none" /\ \A k \in JoinerIds : k < j => bridge[k] # "none"
  /\ MoreStreams \/ Cardinality(streams \cap JoinerIds) = MaxJoiners
  /\ IF TooManyJoiners
     THEN DemuxGoes("refuse", j) /\ UNCHANGED <<streams, bridge>>
     ELSE /\ streams' = streams \cup {j}
          /\ bridge' = [bridge EXCEPT ![j] = "dial"]
          /\ DemuxGoes("read", 0)
  /\ UNCHANGED <<replies, said, shut, doomed, tunnel, done, relay>>

\* The refused joiner's CLOSE; its failure is ignored, the next read will fail.
RefuseJoiner ==
  /\ demux.at = "refuse"
  /\ SendEnds(Demuxer)
  /\ DemuxGoes("read", 0)
  /\ UNCHANGED <<bridges, table, done, relay>>

\* DATA that finds the inbox full shuts the stream down; other DATA is what the copy
\* loops may read.
ReadData(id) ==
  /\ Reading
  /\ id \in streams
  /\ shut' = shut \cup {id}
  /\ DemuxGoes("read", 0)
  /\ UNCHANGED <<bridges, streams, doomed, tunnel, done, relay>>

ReadClose(id) ==
  /\ Reading
  /\ CloseStream(id)
  /\ DemuxGoes("read", 0)
  /\ UNCHANGED <<bridges, tunnel, done, relay>>

ReadPing ==
  /\ Reading
  /\ DemuxGoes("pong", 0)
  /\ UNCHANGED <<bridges, table, tunnel, done, relay>>

SendPong ==
  /\ demux.at = "pong"
  /\ \/ SendOK /\ DemuxGoes("read", 0)
     \/ SendFails(Demuxer) /\ DemuxGoes("closeAll", 0)
  /\ UNCHANGED <<bridges, table, done, relay>>

ReadFailsIfClosed ==   \* mutant: no read deadline
  /\ demux.at = "read" /\ ~tunOpen
  /\ DemuxGoes("closeAll", 0)
  /\ UNCHANGED <<bridges, table, tunnel, done, relay>>
\* The tunnel is closed, or has been silent for readIdle.
ReadFails ==
  /\ demux.at = "read"
  /\ ~tunOpen \/ silent
  /\ DemuxGoes("closeAll", 0)
  /\ UNCHANGED <<bridges, table, tunnel, done, relay>>

\* closeAll: the snapshot under the lock, the streams one by one, the tunnel, done.
TakeAll ==
  /\ demux.at = "closeAll"
  /\ doomed' = streams /\ streams' = {}
  /\ DemuxGoes("shut", 0)
  /\ UNCHANGED <<bridges, shut, tunnel, done, relay>>

ShutOne(id) ==
  /\ demux.at = "shut" /\ id \in doomed
  /\ doomed' = doomed \ {id} /\ shut' = shut \cup {id}
  /\ DemuxGoes("shut", 0)
  /\ UNCHANGED <<bridges, streams, tunnel, done, relay>>

CloseTun ==
  /\ demux.at = "shut" /\ doomed = {}
  /\ tunOpen' = FALSE
  /\ DemuxGoes("done", 0)
  /\ UNCHANGED <<bridges, table, sendMu, done, relay>>

CloseDone ==
  /\ demux.at = "done"
  /\ done' = TRUE
  /\ DemuxGoes("ended", 0)
  /\ UNCHANGED <<bridges, table, tunnel, relay>>
-----------------------------------------------------------------------------
(* keepalive and the joiner bridges. *)

PingerGoes(where) ==
  keepalive' = where /\ UNCHANGED <<serving, handle, copyDown, demux, bridges, table, done, relay>>

Tick == keepalive = "wait" /\ ~done /\ PingerGoes("send") /\ UNCHANGED tunnel
Ping ==
  /\ keepalive = "send"
  /\ \/ SendOK /\ PingerGoes("wait")
     \/ SendFails(Pinger) /\ PingerGoes("ended")
PingerEnds == keepalive = "wait" /\ done /\ PingerGoes("ended") /\ UNCHANGED tunnel

BridgeGoes(j, where) ==
  /\ bridge' = [bridge EXCEPT ![j] = where]
  /\ UNCHANGED <<serving, handle, copyDown, demux, keepalive, done, relay>>
RepliesGo(j, where) ==
  /\ replies' = [replies EXCEPT ![j] = where]
  /\ UNCHANGED <<serving, handle, copyDown, demux, keepalive, bridge, done, relay>>

DialWC3(j) ==
  /\ bridge[j] = "dial"
  /\ \/ BridgeGoes(j, "copy") /\ replies' = [replies EXCEPT ![j] = "read"]
     \/ BridgeGoes(j, "bye") /\ UNCHANGED replies
  /\ UNCHANGED <<said, table, tunnel>>

\* stream -> WC3: io.Copy once more, and the write has no deadline either.
BridgeReads(j) ==
  /\ bridge[j] = "copy" /\ j \notin shut
  /\ BridgeGoes(j, "write")
  /\ UNCHANGED <<replies, said, table, tunnel>>

\* The game reads what is written to it, or has closed the connection.
GameTakes(j) ==
  /\ bridge[j] = "write"
  /\ \E where \in {"copy", "bye"} : BridgeGoes(j, where)
  /\ UNCHANGED <<replies, said, table, tunnel>>

BridgeReadsEnd(j) ==
  /\ bridge[j] = "copy" /\ j \in shut
  /\ BridgeGoes(j, "bye")
  /\ UNCHANGED <<replies, said, table, tunnel>>

\* stream.Close, by whichever loop ends first: the second one waits until the first has
\* sent CLOSE.
CloseJoiner(j, g) ==
  /\ IF j \in said THEN UNCHANGED tunnel ELSE SendEnds(g)
  /\ said' = said \cup {j} /\ shut' = shut \cup {j}
  /\ UNCHANGED <<streams, doomed>>

BridgeSaysBye(j) ==
  /\ bridge[j] = "bye"
  /\ CloseJoiner(j, Bridger(j))
  /\ BridgeGoes(j, "close") /\ UNCHANGED replies

\* The deferred wc3.Close and closeStream.
BridgeCloses(j) ==
  /\ bridge[j] = "close"
  /\ CloseStream(j)
  /\ BridgeGoes(j, "ended")
  /\ UNCHANGED <<replies, said, tunnel>>

\* The game answers the joiner.
GameSpeaks(j) ==
  /\ replies[j] = "read" /\ bridge[j] # "ended"
  /\ RepliesGo(j, "data")
  /\ UNCHANGED <<said, table, tunnel>>

ReplySends(j) ==
  /\ replies[j] = "data"
  /\ \/ SendOK /\ RepliesGo(j, "read")
     \/ SendFails(Replier(j)) /\ RepliesGo(j, "bye")
  /\ UNCHANGED <<said, table>>

\* The game has closed the connection, or the bridge has.
RepliesEnd(j) ==
  /\ replies[j] = "read"
  /\ RepliesGo(j, "bye")
  /\ UNCHANGED <<said, table, tunnel>>

RepliesSayBye(j) ==
  /\ replies[j] = "bye"
  /\ CloseJoiner(j, Replier(j))
  /\ RepliesGo(j, "ended")
-----------------------------------------------------------------------------
(* ServeHost. *)

sctx == ctx \/ cancelled
network == <<handle, copyDown, demux, keepalive, bridges, table, done, relay>>

WatcherWakesEarly ==   \* mutant: it watches the tunnel, not Done
  /\ watch = "wait"
  /\ ~tunOpen \/ sctx
  /\ watch' = "ended" /\ cancelled' = TRUE
  /\ UNCHANGED <<serve, perr, result, ctx, gate, network, tunnel>>
WatcherWakes ==
  /\ watch = "wait"
  /\ done \/ sctx
  /\ watch' = "ended"
  /\ cancelled' = (cancelled \/ done)
  /\ UNCHANGED <<serve, perr, result, ctx, gate, network, tunnel>>

\* The proxy's goroutine that unblocks Accept.
CloseGate ==
  /\ sctx /\ gate
  /\ gate' = FALSE
  /\ UNCHANGED <<serve, perr, result, ctx, cancelled, watch, network, tunnel>>

\* Accept fails because the gate is closed, or by itself.
AcceptFails ==
  /\ serve = "accept"
  /\ perr' = IF sctx THEN "cancelled" ELSE "accept"
  /\ serve' = "result" /\ gate' = FALSE
  /\ UNCHANGED <<result, ctx, cancelled, watch, network, tunnel>>

\* What ServeHost returns, and its deferred cancel.
Decide ==
  /\ serve = "result"
  /\ result' = IF ctx THEN "ctx" ELSE IF done THEN "lost" ELSE perr
  /\ cancelled' = TRUE
  /\ serve' = "sayOver"
  /\ UNCHANGED <<perr, ctx, watch, gate, network, tunnel>>

\* GameOver, deferred: the frame, then the tunnel.
SayGameOver ==
  /\ serve = "sayOver"
  /\ SendEnds(Server)
  /\ serve' = "closeTun"
  /\ UNCHANGED <<perr, result, ctx, cancelled, watch, gate, network>>

Return ==
  /\ serve = "closeTun"
  /\ tunOpen' = FALSE
  /\ serve' = "returned"
  /\ UNCHANGED <<perr, result, ctx, cancelled, watch, gate, network, sendMu>>
-----------------------------------------------------------------------------
(* The caller and the relay. *)

internal == <<serve, perr, result, cancelled, watch, gate, handle, copyDown, demux,
              keepalive, bridges, table, done>>

CallerCancels == ~ctx /\ ctx' = TRUE /\ UNCHANGED <<internal, tunnel, relay>>
TunnelBreaks == tunOpen /\ tunOpen' = FALSE /\ UNCHANGED <<internal, ctx, sendMu, relay>>
RelayStalls ==
  ~stalled /\ stalled' = TRUE /\ UNCHANGED <<internal, ctx, tunnel, silent>>
RelayFallsSilent ==
  ~silent /\ silent' = TRUE /\ UNCHANGED <<internal, ctx, tunnel, stalled>>

Writing ==
  {Handler(c) : c \in {d \in Conns : handle[d] \in {"open", "data", "bye"}}}
  \cup {Bridger(j) : j \in {k \in JoinerIds \ said : bridge[k] = "bye"}}
  \cup {Replier(j) : j \in {k \in JoinerIds : replies[k] = "data"}
                           \cup {k \in JoinerIds \ said : replies[k] = "bye"}}
  \cup (IF demux.at \in {"refuse", "pong"} THEN {Demuxer} ELSE {})
  \cup (IF keepalive = "send" THEN {Pinger} ELSE {})
  \cup (IF serve = "sayOver" THEN {Server} ELSE {})
Blocked == \E g \in Writing : SendBlocks(g)

HandlerWorks(c) ==
  \/ LookAtDone(c) \/ Register(c) \/ Open(c) \/ Undo(c) \/ SendData(c) \/ SayBye(c)
  \/ HandleReturns(c)
DemuxWorks ==
  \/ RefuseJoiner \/ SendPong \/ ReadFails \/ TakeAll \/ CloseTun \/ CloseDone
  \/ \E id \in Ids : ShutOne(id)
PingerWorks == Tick \/ Ping \/ PingerEnds
BridgeWorks(j) ==
  DialWC3(j) \/ BridgeReadsEnd(j) \/ BridgeSaysBye(j) \/ BridgeCloses(j)
RepliesWork(j) ==
  \/ ReplySends(j) \/ RepliesSayBye(j)
  \/ (bridge[j] = "ended" /\ RepliesEnd(j))
ServerWorks == (~gate /\ AcceptFails) \/ Decide \/ SayGameOver \/ Return
WC3Acts(c) == WC3Speaks(c) \/ WC3Leaves(c)
RelaySends ==
  \/ \E j \in JoinerIds : ReadOpen(j)
  \/ \E id \in Ids : ReadData(id) \/ ReadClose(id)
  \/ ReadPing

Next ==
  \/ \E c \in Conns :
       \/ WC3Connects(c) \/ HandlerWorks(c) \/ WC3Acts(c)
       \/ CopyReads(c) \/ WC3Takes(c) \/ TellWC3(c)
  \/ \E j \in JoinerIds :
       \/ BridgeWorks(j) \/ BridgeReads(j) \/ GameTakes(j)
       \/ RepliesWork(j) \/ GameSpeaks(j) \/ RepliesEnd(j)
  \/ DemuxWorks \/ PingerWorks \/ RelaySends \/ Blocked
  \/ ServerWorks \/ AcceptFails \/ WatcherWakes \/ CloseGate
  \/ CallerCancels \/ TunnelBreaks \/ RelayStalls \/ RelayFallsSilent

Spec == Init /\ [][Next]_vars

\* Goroutines are scheduled, the ticker ticks, deadlines expire, dials return.  Nothing is
\* assumed of WC3: it may leave a write to it blocked for ever.
FairSpec ==
  /\ Spec
  /\ \A c \in Conns : WF_vars(HandlerWorks(c)) /\ WF_vars(TellWC3(c))
  /\ \A j \in JoinerIds : WF_vars(BridgeWorks(j)) /\ WF_vars(RepliesWork(j))
  /\ WF_vars(DemuxWorks) /\ WF_vars(PingerWorks) /\ WF_vars(Blocked)
  /\ WF_vars(ServerWorks) /\ WF_vars(WatcherWakes) /\ WF_vars(CloseGate)

\* Two assumptions about WC3: it reads what is written to it, or closes the connection ...
ReadingSpec ==
  /\ FairSpec
  /\ \A c \in Conns : WF_vars(WC3Takes(c))
  /\ \A j \in JoinerIds : WF_vars(GameTakes(j))

\* ... and does not stay on a connection to the gateway without ever sending or closing.
WC3Spec == ReadingSpec /\ \A c \in Conns : WF_vars(WC3Acts(c))
-----------------------------------------------------------------------------
(* Properties. *)

\* The variables have their types and the joiner streams their cap: check and
\* registration are under one lock, and only demux registers joiners.
TypeOK ==
  /\ serve \in {"accept", "result", "sayOver", "closeTun", "returned"}
  /\ perr \in {"none", "cancelled", "accept"}
  /\ {ctx, cancelled, gate, tunOpen, done, stalled, silent} \subseteq BOOLEAN
  /\ watch \in {"wait", "ended"} /\ keepalive \in {"wait", "send", "ended"}
  /\ handle \in [Conns -> {"none", "look", "register", "open", "undo", "copy", "data",
                           "bye", "wait", "ended"}]
  /\ copyDown \in [Conns -> {"none", "copy", "write", "ended"}]
  /\ demux \in [at : {"read", "refuse", "pong", "closeAll", "shut", "done", "ended"},
                id : Ids \cup {0}]
  /\ bridge \in [JoinerIds -> {"none", "dial", "copy", "write", "bye", "close", "ended"}]
  /\ replies \in [JoinerIds -> {"none", "read", "data", "bye", "ended"}]
  /\ said \subseteq JoinerIds
  /\ sendMu = Nobody \/ sendMu \in Writing
  /\ streams \subseteq Ids /\ shut \subseteq Ids /\ doomed \subseteq Ids
  /\ Cardinality(streams \cap JoinerIds) <= MaxJoiners

\* A stream with a loop waiting on it can be found by whoever has to end it: it is
\* shut down already, registered, or in closeAll's snapshot.  This is the joiners'
\* half, and that of the clients as long as closeAll has not run (link.go:
\* acceptJoiner, closeAll, closeStream).
NoLostStream ==
  LET findable == shut \cup streams \cup doomed IN
  /\ \A j \in JoinerIds :
       bridge[j] \in {"dial", "copy", "write"} \/ replies[j] \in {"read", "data"} => j \in findable
  /\ demux.at \in {"read", "refuse", "pong", "closeAll"} =>
       \A c \in Conns : copyDown[c] \in {"copy", "write"} => Stream(c) \in findable

\* ServeHost tells its caller why it stopped: a context error only when the caller
\* cancelled, the loss of the tunnel as such, never the cancellation of its own
\* context by which it stops the gateway (host.go: ErrTunnelLost).
LossReported ==
  /\ result # "cancelled"
  /\ result = "ctx" => ctx
  /\ result = "lost" => done /\ ~tunOpen /\ perr # "none"

\* When the caller cancels, the tunnel is gone, or the relay stops reading or sending,
\* everything ends: the ping cannot be written or the read deadline passes, ServeHost
\* returns, the gate and the tunnel are closed, demux, keepalive and the bridges end,
\* even if some of them were blocked on a relay that does not read; but for a bridge that
\* is writing to a game that does not read (link.go: timings.write, readIdle, closeAll,
\* bridgeJoiner; host.go).
BridgeOver(j) == bridge[j] \in {"none", "ended"} /\ replies[j] \in {"none", "ended"}
ServeEnds ==
  ctx \/ done \/ stalled \/ silent ~>
    /\ serve = "returned" /\ ~gate /\ ~tunOpen /\ done /\ watch = "ended"
    /\ demux.at = "ended" /\ keepalive = "ended"
    /\ \A j \in JoinerIds : BridgeOver(j) \/ bridge[j] = "write"

\* Once the Link is gone every connection of WC3 is released, those to the gateway and those
\* of the bridges, provided WC3 reads what it is sent or closes, and on a connection to the
\* gateway sends or closes: its handler finds the tunnel closed (gateway.go: handle; link.go:
\* closeAll, bridgeJoiner).
WC3Released ==
  done ~> /\ \A c \in Conns : handle[c] \in {"none", "ended"}
          /\ \A j \in JoinerIds : BridgeOver(j)

\* demux "ends, and takes the Link with it" (link.go): WC3 is told on every
\* connection that its stream is gone, also when WC3 is only listening and reads all it is
\* sent.
WC3Told ==
  \A c \in Conns : done /\ copyDown[c] = "copy" ~> copyDown[c] = "ended"

=============================================================================
