------------------------------ MODULE LinkProofs ------------------------------
(***************************************************************************)
(* For any number of connections, joiners and any cap: the types of Link   *)
(* with the cap on joiner streams and who may hold the send mutex, that no *)
(* stream with a loop waiting on it is lost, and what ServeHost returns.   *)
(***************************************************************************)
EXTENDS Link, FiniteSetTheorems, TLAPS

\* Where demux has not taken the streams yet, there is no snapshot, and a stream that is
\* being opened can be found as well as one that is open; nothing answers a joiner before
\* WC3 has been dialled.
Findable == shut \cup streams \cup doomed
Found ==
  /\ demux.at # "shut" => doomed = {}
  /\ \A j \in JoinerIds :
       bridge[j] \in {"dial", "copy", "write"} \/ replies[j] \in {"read", "data"} => j \in Findable
  /\ \A j \in JoinerIds : bridge[j] \in {"none", "dial"} => replies[j] = "none"
  /\ demux.at \in {"read", "refuse", "pong", "closeAll"} =>
       \A c \in Conns :
         handle[c] = "open" \/ copyDown[c] \in {"copy", "write"} => Stream(c) \in Findable

\* Done comes after the tunnel's end, and until ServeHost has decided its own context
\* is cancelled by the watcher alone.
Reported ==
  /\ demux.at \in {"done", "ended"} => ~tunOpen
  /\ done => ~tunOpen
  /\ serve # "accept" => perr # "none"
  /\ serve \in {"accept", "result"} /\ cancelled => done
  /\ serve = "result" /\ perr = "cancelled" => ctx \/ done
  /\ LossReported

IInv == TypeOK /\ Found /\ Reported
-----------------------------------------------------------------------------
(* The steps, by what they leave as it is. *)

Lists ==
  /\ serve \in {"accept", "result", "sayOver", "closeTun", "returned"}
  /\ perr \in {"none", "cancelled", "accept"}
  /\ watch \in {"wait", "ended"} /\ keepalive \in {"wait", "send", "ended"}
  /\ handle \in [Conns -> {"none", "look", "register", "open", "undo", "copy", "data",
                           "bye", "wait", "ended"}]
  /\ copyDown \in [Conns -> {"none", "copy", "write", "ended"}]
  /\ demux \in [at : {"read", "refuse", "pong", "closeAll", "shut", "done", "ended"},
                id : Ids \cup {0}]
  /\ bridge \in [JoinerIds -> {"none", "dial", "copy", "write", "bye", "close", "ended"}]
  /\ replies \in [JoinerIds -> {"none", "read", "data", "bye", "ended"}]
  /\ said \subseteq JoinerIds
  /\ streams \subseteq Ids /\ shut \subseteq Ids /\ doomed \subseteq Ids
Flags == {ctx, cancelled, gate, tunOpen, done, stalled, silent} \subseteq BOOLEAN
Holder == sendMu = Nobody \/ sendMu \in Writing
Few == Cardinality(streams \cap JoinerIds) <= MaxJoiners

\* A step registers a joiner only below the cap.
Admits ==
  \/ streams' \cap JoinerIds \subseteq streams
  \/ /\ Cardinality(streams \cap JoinerIds) < MaxJoiners
     /\ \E j \in JoinerIds : streams' = streams \cup {j}

\* A writer that holds the mutex stays where it is until its write has ended, and the
\* CLOSE of a joiner stream that is being sent is not yet done.
WritersWait ==
  /\ \A c \in Conns : handle[c] \in {"open", "data", "bye"} => handle'[c] = handle[c]
  /\ said' = said
  /\ \A j \in JoinerIds : replies[j] = "data" => replies'[j] = replies[j]
  /\ \A j \in JoinerIds \ said :
       /\ bridge[j] = "bye" => bridge'[j] = bridge[j]
       /\ replies[j] = "bye" => replies'[j] = replies[j]
  /\ demux.at \in {"refuse", "pong"} => demux' = demux
  /\ keepalive = "send" => keepalive' = keepalive
  /\ serve = "sayOver" => serve' = serve
Locks ==
  \/ sendMu' = Nobody
  \/ WritersWait /\ (sendMu' = sendMu \/ sendMu' \in Writing)

\* The ids of WC3's streams are odd, those of the joiners even.
LEMMA IdsApart ==
  /\ \A c \in Conns : Stream(c) \in Ids /\ Stream(c) \notin JoinerIds
  /\ JoinerIds \subseteq Ids
BY LinkAssumption DEF LinkAssumption, Conns, Stream, JoinerIds, Ids

\* The joiner streams can be counted.
LEMMA Countable ==
  /\ MaxJoiners \in Nat /\ IsFiniteSet(JoinerIds)
  /\ \A S : IsFiniteSet(S \cap JoinerIds) /\ Cardinality(S \cap JoinerIds) \in Nat
<1>1. NJoiners \in Nat /\ MaxJoiners \in Nat
  BY LinkAssumption DEF LinkAssumption
<1>2. JoinerIds \subseteq 0..2 * NJoiners
  BY <1>1 DEF JoinerIds
<1>3. IsFiniteSet(0..2 * NJoiners)
  BY <1>1, FS_Interval
<1>4. IsFiniteSet(JoinerIds)
  BY <1>2, <1>3, FS_Subset
<1>5. ASSUME NEW S PROVE IsFiniteSet(S \cap JoinerIds) /\ Cardinality(S \cap JoinerIds) \in Nat
  <2>1. S \cap JoinerIds \in SUBSET JoinerIds
    OBVIOUS
  <2>2. IsFiniteSet(S \cap JoinerIds)
    BY <1>4, <2>1, FS_Subset
  <2> QED
    BY <2>2, FS_CardinalityType
<1> QED
  BY <1>1, <1>4, <1>5

\* What every step keeps.
Held == Lists' /\ Admits /\ Locks /\ Found'

\* What the caller and the relay do without the launcher.
World == CallerCancels \/ TunnelBreaks \/ RelayStalls \/ RelayFallsSilent

\* The loop that writes to WC3.
LoopMoves(c) == CopyReads(c) \/ WC3Takes(c) \/ TellWC3(c)

\* What a connection's handler does, WC3 on it, and that loop.
LEMMA HandlerHolds ==
  ASSUME Lists, Found, NEW c \in Conns, HandlerWorks(c) \/ WC3Connects(c) \/ WC3Acts(c) \/ LoopMoves(c)
  PROVE  Held
<1> USE IdsApart DEF Held, Lists, Admits, Locks, WritersWait, Found, Findable,
       CloseStream, SendOK, SendFails, SendEnds, serving, table, tunnel, relay, bridges, HandleGoes,
       CopyGoes
<1>1. CASE LookAtDone(c)
  BY <1>1 DEF LookAtDone
<1>2. CASE Register(c)
  BY <1>2 DEF Register
<1>3. CASE Open(c)
  BY <1>3 DEF Open
<1>4. CASE Undo(c)
  BY <1>4 DEF Undo
<1>5. CASE SendData(c)
  BY <1>5 DEF SendData
<1>6. CASE SayBye(c)
  BY <1>6 DEF SayBye
<1>7. CASE HandleReturns(c)
  BY <1>7 DEF HandleReturns
<1>8. CASE WC3Connects(c)
  BY <1>8 DEF WC3Connects
<1>9. CASE WC3Speaks(c)
  BY <1>9 DEF WC3Speaks
<1>10. CASE WC3Leaves(c)
  BY <1>10 DEF WC3Leaves
<1>11. CASE LoopMoves(c)
  BY <1>11 DEF LoopMoves, CopyReads, WC3Takes, TellWC3
<1> QED
  BY <1>1, <1>2, <1>3, <1>4, <1>5, <1>6, <1>7, <1>8, <1>9, <1>10, <1>11 DEF HandlerWorks, WC3Acts

\* A bridge in both its loops, and the game on its side.
BridgeMoves(j) ==
  \/ BridgeWorks(j) \/ BridgeReads(j) \/ GameTakes(j)
  \/ RepliesWork(j) \/ GameSpeaks(j) \/ RepliesEnd(j)

\* What the bridge of a joiner does.
LEMMA BridgeHolds ==
  ASSUME Lists, Found, NEW j \in JoinerIds, BridgeMoves(j)
  PROVE  Held
<1> USE IdsApart DEF Held, Lists, Admits, Locks, WritersWait, Found, Findable,
       CloseStream, SendOK, SendFails, SendEnds, serving, table, tunnel, relay, BridgeGoes,
       RepliesGo, CloseJoiner
<1>1. CASE DialWC3(j)
  BY <1>1 DEF DialWC3
<1>2. CASE BridgeReads(j) \/ GameTakes(j) \/ BridgeReadsEnd(j)
  BY <1>2 DEF BridgeReads, GameTakes, BridgeReadsEnd
<1>3. CASE BridgeSaysBye(j)
  BY <1>3 DEF BridgeSaysBye
<1>4. CASE BridgeCloses(j)
  BY <1>4 DEF BridgeCloses
<1>5. CASE GameSpeaks(j) \/ RepliesEnd(j)
  BY <1>5 DEF GameSpeaks, RepliesEnd
<1>6. CASE ReplySends(j)
  BY <1>6 DEF ReplySends
<1>7. CASE RepliesSayBye(j)
  BY <1>7 DEF RepliesSayBye
<1> QED
  BY <1>1, <1>2, <1>3, <1>4, <1>5, <1>6, <1>7 DEF BridgeMoves, BridgeWorks, RepliesWork

\* What demux does by itself, to the end of closeAll.
LEMMA DemuxHolds ==
  ASSUME Lists, Found, DemuxWorks
  PROVE  Held
<1> USE IdsApart DEF Held, Lists, Admits, Locks, WritersWait, Found, Findable,
       CloseStream, SendOK, SendFails, SendEnds, serving, table, tunnel, relay, bridges, DemuxGoes,
       At
<1>1. CASE RefuseJoiner
  BY <1>1 DEF RefuseJoiner
<1>2. CASE SendPong
  BY <1>2 DEF SendPong
<1>3. CASE ReadFails
  BY <1>3 DEF ReadFails
<1>4. CASE TakeAll
  BY <1>4 DEF TakeAll
<1>5. CASE CloseTun
  BY <1>5 DEF CloseTun
<1>6. CASE CloseDone
  BY <1>6 DEF CloseDone
<1>7. CASE \E id \in Ids : ShutOne(id)
  BY <1>7 DEF ShutOne
<1> QED
  BY <1>1, <1>2, <1>3, <1>4, <1>5, <1>6, <1>7 DEF DemuxWorks

\* What the relay makes demux do.
LEMMA RelayHolds ==
  ASSUME Lists, Found, RelaySends
  PROVE  Held
<1> USE IdsApart DEF Held, Lists, Admits, Locks, WritersWait, Found, Findable,
       CloseStream, SendOK, SendFails, SendEnds, serving, table, tunnel, relay, bridges, DemuxGoes,
       At
<1>1. CASE \E j \in JoinerIds : ReadOpen(j)
  <2>1. PICK j \in JoinerIds : ReadOpen(j)
    BY <1>1
  <2>2. CASE TooManyJoiners
    BY <2>1, <2>2 DEF ReadOpen, Reading
  <2>3. CASE ~TooManyJoiners
    <3>1. Cardinality(streams \cap JoinerIds) < MaxJoiners
      BY <2>3, Countable DEF TooManyJoiners
    <3> QED
      BY <2>1, <2>3, <3>1 DEF ReadOpen, Reading
  <2> QED
    BY <2>2, <2>3
<1>2. CASE \E id \in Ids : ReadData(id)
  BY <1>2 DEF ReadData, Reading
<1>3. CASE \E id \in Ids : ReadClose(id)
  BY <1>3 DEF ReadClose, Reading
<1>4. CASE ReadPing
  BY <1>4 DEF ReadPing, Reading
<1> QED
  BY <1>1, <1>2, <1>3, <1>4 DEF RelaySends

\* ServeHost, the keepalive, the caller and the relay's own failures.
LEMMA ServerHolds ==
  ASSUME Lists, Found, ServerWorks \/ AcceptFails \/ WatcherWakes \/ CloseGate \/ PingerWorks \/ Blocked \/ World
  PROVE  Held
<1> USE IdsApart DEF Held, Lists, Admits, Locks, WritersWait, Found, Findable,
       CloseStream, SendOK, SendFails, SendEnds, serving, table, tunnel, relay, bridges,
       PingerGoes, network, internal
<1>1. CASE AcceptFails
  BY <1>1 DEF AcceptFails
<1>2. CASE Decide
  BY <1>2 DEF Decide
<1>3. CASE SayGameOver
  BY <1>3 DEF SayGameOver
<1>4. CASE Return
  BY <1>4 DEF Return
<1>5. CASE WatcherWakes
  BY <1>5 DEF WatcherWakes
<1>6. CASE CloseGate
  BY <1>6 DEF CloseGate
<1>7. CASE Tick
  BY <1>7 DEF Tick
<1>8. CASE Ping
  BY <1>8 DEF Ping
<1>9. CASE PingerEnds
  BY <1>9 DEF PingerEnds
<1>10. CASE Blocked
  BY <1>10 DEF Blocked, SendBlocks
<1>11. CASE World
  BY <1>11 DEF World, CallerCancels, TunnelBreaks, RelayStalls, RelayFallsSilent
<1> QED
  BY <1>1, <1>2, <1>3, <1>4, <1>5, <1>6, <1>7, <1>8, <1>9, <1>10, <1>11 DEF ServerWorks, PingerWorks
-----------------------------------------------------------------------------
(* The inductive invariant. *)

\* Every step is one of those.
LEMMA NextHolds ==
  ASSUME Lists, Found, Next
  PROVE  Held
<1>1. ASSUME NEW c \in Conns, WC3Connects(c) \/ HandlerWorks(c) \/ WC3Acts(c) \/ LoopMoves(c)
      PROVE  Held
  BY <1>1, HandlerHolds
<1>2. ASSUME NEW j \in JoinerIds, BridgeMoves(j)
      PROVE  Held
  BY <1>2, BridgeHolds
<1>3. CASE DemuxWorks
  BY <1>3, DemuxHolds
<1>4. CASE RelaySends
  BY <1>4, RelayHolds
<1>5. CASE \/ PingerWorks \/ Blocked \/ ServerWorks \/ AcceptFails \/ WatcherWakes \/ CloseGate
           \/ CallerCancels \/ TunnelBreaks \/ RelayStalls \/ RelayFallsSilent
  BY <1>5, ServerHolds DEF World
<1> QED
  BY <1>1, <1>2, <1>3, <1>4, <1>5 DEF Next, LoopMoves, BridgeMoves

\* The mutex passes only from a writer whose write has ended.
LEMMA HolderKept ==
  ASSUME Lists, Holder, Lists', Locks
  PROVE  Holder'
<1>1. CASE sendMu' = Nobody
  BY <1>1 DEF Holder
<1>2. CASE WritersWait /\ (sendMu' = sendMu \/ sendMu' \in Writing)
  <2>1. ASSUME NEW c \in Conns, handle[c] \in {"open", "data", "bye"}
        PROVE  handle'[c] \in {"open", "data", "bye"}
    BY <1>2, <2>1 DEF WritersWait
  <2>2. /\ said' = said
        /\ \A j \in JoinerIds : replies[j] = "data" => replies'[j] = "data"
        /\ \A j \in JoinerIds \ said : bridge[j] = "bye" => bridge'[j] = "bye"
        /\ \A j \in JoinerIds \ said : replies[j] = "bye" => replies'[j] = "bye"
    BY <1>2 DEF WritersWait
  <2>3. /\ demux.at \in {"refuse", "pong"} => demux'.at \in {"refuse", "pong"}
        /\ keepalive = "send" => keepalive' = "send"
        /\ serve = "sayOver" => serve' = "sayOver"
    BY <1>2 DEF WritersWait
  <2>4. Writing \subseteq Writing'
    BY <2>1, <2>2, <2>3 DEF Writing
  <2> QED
    BY <1>2, <2>4 DEF Holder
<1> QED
  BY <1>1, <1>2 DEF Locks

\* A registration below the cap stays at the cap.
LEMMA FewKept ==
  ASSUME Few, Admits
  PROVE  Few'
<1>1. CASE streams' \cap JoinerIds \subseteq streams
  <2>1. IsFiniteSet(streams \cap JoinerIds) /\ Cardinality(streams \cap JoinerIds) \in Nat
    BY Countable
  <2>2. streams' \cap JoinerIds \in SUBSET (streams \cap JoinerIds)
    BY <1>1
  <2>3. Cardinality(streams' \cap JoinerIds) <= Cardinality(streams \cap JoinerIds)
    BY <2>1, <2>2, FS_Subset
  <2> QED
    BY <2>1, <2>3, Countable DEF Few
<1>2. ASSUME NEW j \in JoinerIds, Cardinality(streams \cap JoinerIds) < MaxJoiners,
             streams' = streams \cup {j}
      PROVE  Few'
  <2>1. streams' \cap JoinerIds = (streams \cap JoinerIds) \cup {j}
    BY <1>2
  <2>2. IsFiniteSet(streams \cap JoinerIds) /\ Cardinality(streams \cap JoinerIds) \in Nat
    BY Countable
  <2>3. Cardinality(streams' \cap JoinerIds)
          \in {Cardinality(streams \cap JoinerIds), Cardinality(streams \cap JoinerIds) + 1}
    BY <2>1, <2>2, FS_AddElement
  <2> QED
    BY <1>2, <2>2, <2>3, Countable DEF Few
<1> QED
  BY <1>1, <1>2 DEF Admits
-----------------------------------------------------------------------------
(* What ServeHost reports. *)

\* A step outside ServeHost and the last of closeAll: the tunnel may close.
Quiet ==
  /\ UNCHANGED <<serve, perr, result, ctx, cancelled, gate, done, stalled, silent>>
  /\ tunOpen' = tunOpen \/ tunOpen' = FALSE
  /\ demux' = demux \/ demux'.at \notin {"done", "ended"} \/ tunOpen' = FALSE

\* The connections', the bridges' and the relay's steps are of that kind.
LEMMA StreamsQuiet ==
  ASSUME \/ \E c \in Conns : WC3Connects(c) \/ HandlerWorks(c) \/ WC3Acts(c) \/ LoopMoves(c)
         \/ \E j \in JoinerIds : BridgeMoves(j)
         \/ RelaySends \/ PingerWorks \/ Blocked
  PROVE  Quiet
<1> USE DEF Quiet, SendOK, SendFails, SendEnds, serving, tunnel, relay
<1>1. ASSUME NEW c \in Conns, WC3Connects(c) \/ HandlerWorks(c) \/ WC3Acts(c) \/ LoopMoves(c)
      PROVE  Quiet
  BY <1>1 DEF HandlerWorks, WC3Acts, HandleGoes, WC3Connects, LookAtDone, Register, Open, Undo,
       WC3Speaks, SendData, WC3Leaves, SayBye, HandleReturns, LoopMoves, CopyGoes,
       CopyReads, WC3Takes, TellWC3
<1>2. ASSUME NEW j \in JoinerIds, BridgeMoves(j)
      PROVE  Quiet
  BY <1>2 DEF BridgeMoves, BridgeWorks, RepliesWork, BridgeGoes, RepliesGo, CloseJoiner,
       DialWC3, BridgeReads, GameTakes, BridgeReadsEnd, BridgeSaysBye, BridgeCloses,
       GameSpeaks, RepliesEnd, ReplySends, RepliesSayBye
<1>3. CASE RelaySends
  BY <1>3 DEF RelaySends, DemuxGoes, At, ReadOpen, ReadData, ReadClose, ReadPing
<1>4. CASE PingerWorks \/ Blocked
  BY <1>4 DEF PingerWorks, PingerGoes, Tick, Ping, PingerEnds, Blocked, SendBlocks
<1> QED
  BY <1>1, <1>2, <1>3, <1>4

\* So are demux's own but for the last.
LEMMA DemuxQuiet ==
  ASSUME DemuxWorks
  PROVE  Quiet \/ CloseDone
<1> USE DEF Quiet, SendOK, SendFails, SendEnds, serving, tunnel, relay, DemuxGoes, At
<1>1. CASE RefuseJoiner \/ SendPong \/ ReadFails
  BY <1>1 DEF RefuseJoiner, SendPong, ReadFails
<1>2. CASE TakeAll \/ CloseTun \/ \E id \in Ids : ShutOne(id)
  BY <1>2 DEF TakeAll, CloseTun, ShutOne
<1> QED
  BY <1>1, <1>2 DEF DemuxWorks

\* Such a step leaves the report true.
LEMMA QuietReports ==
  ASSUME Reported, Quiet
  PROVE  Reported'
BY DEF Reported, LossReported, Quiet

\* So does a step of ServeHost, of the last of closeAll, or of the world.
LEMMA ServeReports ==
  ASSUME Lists, Reported,
         \/ ServerWorks \/ AcceptFails \/ WatcherWakes \/ CloseGate \/ CloseDone
         \/ World
  PROVE  Reported'
<1> USE DEF Reported, LossReported, sctx, network, tunnel, relay, serving, table
<1>1. CASE AcceptFails
  BY <1>1 DEF AcceptFails
<1>2. CASE Decide
  BY <1>2 DEF Decide, Lists
<1>3. CASE SayGameOver
  BY <1>3 DEF SayGameOver, SendEnds, SendOK, SendFails
<1>4. CASE Return
  BY <1>4 DEF Return
<1>5. CASE WatcherWakes
  BY <1>5 DEF WatcherWakes
<1>6. CASE CloseGate
  BY <1>6 DEF CloseGate
<1>7. CASE CloseDone
  BY <1>7 DEF CloseDone, DemuxGoes, At
<1>8. CASE World
  BY <1>8 DEF World, CallerCancels, TunnelBreaks, RelayStalls, RelayFallsSilent, internal
<1> QED
  BY <1>1, <1>2, <1>3, <1>4, <1>5, <1>6, <1>7, <1>8 DEF ServerWorks

\* The flags stay flags.
LEMMA FlagsKept ==
  ASSUME Flags, Next
  PROVE  Flags'
<1>1. CASE Quiet
  BY <1>1, Zenon DEF Flags, Quiet
<1>2. CASE ServerWorks \/ AcceptFails \/ CloseGate
  BY <1>2, Zenon DEF Flags, ServerWorks, AcceptFails, CloseGate, Decide, SayGameOver, Return,
       SendEnds, SendOK, SendFails, network, tunnel, relay
<1>3. CASE WatcherWakes
  BY <1>3, Zenon DEF Flags, WatcherWakes, network, tunnel, relay
<1>4. CASE CloseDone
  BY <1>4, Zenon DEF Flags, CloseDone, DemuxGoes, serving, table, tunnel, relay
<1>5. CASE World
  BY <1>5, Zenon DEF Flags, World, CallerCancels, TunnelBreaks, RelayStalls, RelayFallsSilent,
       internal, tunnel, relay
<1> QED
  BY <1>1, <1>2, <1>3, <1>4, <1>5, StreamsQuiet, DemuxQuiet DEF Next, World, LoopMoves,
       BridgeMoves

\* The parts of the type invariant.
LEMMA TypeParts ==
  /\ TypeOK <=> Lists /\ Flags /\ Holder /\ Few
  /\ TypeOK' <=> Lists' /\ Flags' /\ Holder' /\ Few'
BY DEF TypeOK, Lists, Flags, Holder, Few

\* The inductive invariant holds at first ...
LEMMA InitInv == Init => IInv
<1> SUFFICES ASSUME Init PROVE IInv
  OBVIOUS
<1>1. Lists
  BY DEF Init, Lists, At
<1>2. Flags
  BY Zenon DEF Init, Flags
<1>3. Holder
  BY DEF Init, Holder
<1>4. Few
  <2>1. streams \cap JoinerIds = {}
    BY DEF Init
  <2> QED
    BY <2>1, Countable, FS_EmptySet DEF Few
<1>5. Found
  BY DEF Init, Found, At
<1>6. Reported
  BY DEF Init, Reported, LossReported, At
<1> QED
  BY <1>1, <1>2, <1>3, <1>4, <1>5, <1>6, TypeParts DEF IInv

\* ... and every step keeps it ...
LEMMA NextInv ==
  ASSUME IInv, [Next]_vars
  PROVE  IInv'
<1>1. Lists /\ Flags /\ Holder /\ Few /\ Found /\ Reported
  BY TypeParts DEF IInv
<1>2. CASE Next
  <2>1. Lists' /\ Admits /\ Locks /\ Found'
    BY <1>1, <1>2, NextHolds DEF Held
  <2>2. Holder' /\ Few'
    BY <1>1, <2>1, HolderKept, FewKept
  <2>3. Flags'
    BY <1>1, <1>2, FlagsKept
  <2>4. Reported'
    BY <1>1, <1>2, StreamsQuiet, DemuxQuiet, QuietReports, ServeReports
       DEF Next, World, LoopMoves, BridgeMoves
  <2> QED
    BY <2>1, <2>2, <2>3, <2>4, TypeParts DEF IInv
<1>3. CASE UNCHANGED vars
  <2> USE <1>3 DEF vars, serving, table, tunnel, relay, bridges
  <2>1. Lists'
    BY <1>1 DEF Lists
  <2>2. Flags'
    BY <1>1, Zenon DEF Flags
  <2>3. Holder' /\ Few'
    BY <1>1 DEF Holder, Few, Writing
  <2>4. Found' /\ Reported'
    BY <1>1 DEF Found, Findable, Reported, LossReported
  <2> QED
    BY <2>1, <2>2, <2>3, <2>4, TypeParts DEF IInv
<1> QED
  BY <1>2, <1>3

\* ... so it holds always.
LEMMA InvAlways == Spec => []IInv
BY InitInv, NextInv, PTL DEF Spec
-----------------------------------------------------------------------------
(* The theorems. *)

\* The variables have their types, the joiner streams never exceed the cap, and the send
\* mutex is held by nobody or by a goroutine that is writing a frame (link.go:
\* acceptJoiner, send).
THEOREM TypeCorrect == Spec => []TypeOK
BY InvAlways, PTL DEF IInv

\* No stream with a loop waiting on it is lost to whoever has to end it, whatever the
\* order of accepts, CLOSE frames, undone opens and closeAll (link.go: closeAll).
THEOREM StreamsFound == Spec => []NoLostStream
<1>1. IInv => NoLostStream
  BY DEF IInv, Found, Findable, NoLostStream
<1> QED
  BY <1>1, InvAlways, PTL

\* ServeHost reports the caller's cancellation and the loss of the tunnel as what they
\* are, and never its own cancellation (host.go: ErrTunnelLost).
THEOREM LossTold == Spec => []LossReported
<1>1. IInv => LossReported
  BY DEF IInv, Reported
<1> QED
  BY <1>1, InvAlways, PTL
=============================================================================
