------------------------- MODULE RelaySessionProofs -------------------------
(***************************************************************************)
(* For every number of streams and every cap: the invariants of a relay    *)
(* session that is up hold, and the frames of each stream are in order.    *)
(***************************************************************************)
EXTENDS RelaySession, FiniteSetTheorems, TLAPS

\* The stream the reader is opening is the last one counted, and nobody else has
\* touched it; the same for the joiner the accept loop is announcing.
OpeningIsFresh ==
  reader.at \in {"dial", "add", "refuse"} =>
    /\ opened \in 1..NClients /\ reader.id = 2 * opened - 1
    /\ pump[reader.id] = "none" /\ lastFrame[reader.id] = "none"
JoinerIsFresh ==
  /\ acceptor.at = "admit" => joined < NJoiners
  /\ acceptor.at = "announce" =>
       /\ joined \in 1..NJoiners /\ acceptor.id = 2 * joined
       /\ pump[acceptor.id] = "none" /\ lastFrame[acceptor.id] = "none"

\* Ids that were not given out yet are untouched.
LaterIdsUntouched ==
  /\ \A n \in 1..NClients : n > opened =>
       pump[2 * n - 1] = "none" /\ lastFrame[2 * n - 1] = "none"
  /\ \A n \in 1..NJoiners : n > joined =>
       pump[2 * n] = "none" /\ lastFrame[2 * n] = "none"

\* A pump that may still send has not said CLOSE, and its joiner was announced.
PumpsMaySend ==
  \A id \in Ids : pump[id] \in {"read", "data", "bye"} =>
    lastFrame[id] # "CLOSE" /\ (id \in Joiners => lastFrame[id] # "none")
ClientsNotAnnounced == \A id \in Clients : lastFrame[id] # "OPEN"

\* The cap on client streams was seen with room for the one being dialed.
RoomForDialed ==
  reader.at \in {"dial", "add"} => Cardinality(conns \cap Clients) < MaxClients

\* The snapshot exists only while the teardown works it off.
SnapshotInUse == teardown # "shutdown" => doomed = {}

\* Run reaches its deferred calls after both loops, and works them off in order.
RunInOrder ==
  /\ run # "wait" => reader.at = "ended" /\ acceptor.at = "ended"
  /\ run \notin {"wait", "closeLn"} => ~lnOpen
  /\ ~portHeld => run \notin {"wait", "closeLn", "release"}

FreshIds == OpeningIsFresh /\ JoinerIsFresh /\ LaterIdsUntouched
Frames == PumpsMaySend /\ ClientsNotAnnounced
IInv ==
  /\ TypeOK /\ RoomForDialed
  /\ FreshIds /\ Frames
  /\ NoOrphanSocket /\ SnapshotInUse
  /\ RunInOrder
-----------------------------------------------------------------------------
(* Ids and caps. *)

\* Odd and even ids, and 0 for the control stream.
LEMMA IdsParted ==
  /\ \A n \in 1..NClients : 2 * n - 1 \in Clients
  /\ \A n \in 1..NJoiners : 2 * n \in Joiners
  /\ \A id \in Clients : \E n \in 1..NClients : id = 2 * n - 1
  /\ \A id \in Joiners : \E n \in 1..NJoiners : id = 2 * n
  /\ Clients \cap Joiners = {} /\ 0 \notin Ids
  /\ NClients \in Nat /\ NJoiners \in Nat /\ MaxClients \in Nat /\ MaxJoiners \in Nat
<1>1. NClients \in Nat /\ NJoiners \in Nat /\ MaxClients \in Nat /\ MaxJoiners \in Nat
  BY SizesAssumption DEF SizesAssumption
<1>2. \A id \in Clients : \E n \in 1..NClients : id = 2 * n - 1
  BY DEF Clients
<1>3. \A id \in Joiners : \E n \in 1..NJoiners : id = 2 * n
  BY DEF Joiners
<1>4. \A n \in 1..NClients, m \in 1..NJoiners : 2 * n - 1 # 2 * m
  BY <1>1
<1>5. Clients \cap Joiners = {}
  BY <1>2, <1>3, <1>4
<1>6. 0 \notin Ids
  BY <1>1, <1>2, <1>3 DEF Ids
<1> QED
  BY <1>1, <1>2, <1>3, <1>5, <1>6 DEF Clients, Joiners

\* The counters stay within the ids they count.
LEMMA NextIds ==
  /\ \A n \in 0..NClients : n < NClients => n + 1 \in 1..NClients /\ 2 * (n + 1) - 1 \in Clients
  /\ \A n \in 0..NJoiners : n < NJoiners => n + 1 \in 1..NJoiners /\ 2 * (n + 1) \in Joiners
<1>1. /\ \A n \in 0..NClients : n < NClients => n + 1 \in 1..NClients
      /\ \A n \in 0..NJoiners : n < NJoiners => n + 1 \in 1..NJoiners
  BY IdsParted
<1> QED
  BY <1>1, IdsParted

\* There are finitely many ids of either kind.
LEMMA IdsFinite == IsFiniteSet(Clients) /\ IsFiniteSet(Joiners)
<1> DEFINE f == [n \in 1..NClients |-> 2 * n - 1]
           g == [n \in 1..NJoiners |-> 2 * n]
<1>1. NClients \in Int /\ NJoiners \in Int /\ 1 \in Int
  BY IdsParted
<1>2. f \in Surjection(1..NClients, Clients)
  <2>1. f \in [1..NClients -> Clients]
    BY DEF Clients
  <2>2. \A id \in Clients : \E n \in 1..NClients : f[n] = id
    BY DEF Clients
  <2> QED
    BY <2>1, <2>2 DEF Surjection
<1>3. g \in Surjection(1..NJoiners, Joiners)
  <2>1. g \in [1..NJoiners -> Joiners]
    BY DEF Joiners
  <2>2. \A id \in Joiners : \E n \in 1..NJoiners : g[n] = id
    BY DEF Joiners
  <2> QED
    BY <2>1, <2>2 DEF Surjection
<1>4. IsFiniteSet(1..NClients) /\ IsFiniteSet(1..NJoiners)
  BY <1>1, FS_Interval
<1> QED
  BY <1>2, <1>3, <1>4, FS_Surjection

\* The streams of a kind are counted by a number, which grows by at most one with a
\* stream, and does not grow with one removed.
LEMMA LiveStreams ==
  ASSUME NEW S \in SUBSET Ids, NEW T \in SUBSET Ids, NEW id,
         NEW kind \in {Clients, Joiners}
  PROVE  /\ Cardinality(S \cap kind) \in Nat
         /\ T \subseteq S => Cardinality(T \cap kind) <= Cardinality(S \cap kind)
         /\ Cardinality((S \cup {id}) \cap kind) <= Cardinality(S \cap kind) + 1
         /\ id \notin kind => (S \cup {id}) \cap kind = S \cap kind
<1>1. IsFiniteSet(kind)
  BY IdsFinite
<1>2. IsFiniteSet(S \cap kind) /\ Cardinality(S \cap kind) \in Nat
  BY <1>1, FS_Subset, FS_CardinalityType
<1>3. T \subseteq S => Cardinality(T \cap kind) <= Cardinality(S \cap kind)
  BY <1>2, FS_Subset
<1>4. CASE id \in kind
  <2>1. (S \cup {id}) \cap kind = (S \cap kind) \cup {id}
    BY <1>4
  <2>2. Cardinality((S \cap kind) \cup {id}) <= Cardinality(S \cap kind) + 1
    BY <1>2, FS_AddElement
  <2> QED
    BY <1>2, <1>3, <1>4, <2>1, <2>2
<1>5. CASE id \notin kind
  <2>1. (S \cup {id}) \cap kind = S \cap kind
    BY <1>5
  <2> QED
    BY <1>2, <1>3, <2>1
<1> QED
  BY <1>4, <1>5
-----------------------------------------------------------------------------
(* Types. *)

\* The reader opens client streams and the accept loop admits joiners.
LEMMA OpeningIds ==
  /\ OpeningIsFresh /\ reader.at \in {"dial", "add", "refuse"} =>
       reader.id \in Clients /\ reader.id \in Ids /\ reader.id \notin Joiners
  /\ JoinerIsFresh /\ acceptor.at = "announce" =>
       acceptor.id \in Joiners /\ acceptor.id \in Ids /\ acceptor.id \notin Clients
BY IdsParted DEF OpeningIsFresh, JoinerIsFresh, Ids

\* What is a BOOLEAN stays one.
LEMMA FlagsStep == Flags /\ [Next]_vars => Flags'
<1> SUFFICES ASSUME Flags, [Next]_vars PROVE Flags'
  OBVIOUS
<1> USE DEF Flags, wire, streams, host
<1>1. CASE UNCHANGED vars
  BY <1>1, Zenon DEF vars
<1>2. CASE ReaderWorks
  <2>1. CASE SendPong \/ ReadFails
    BY <2>1, Zenon DEF SendPong, SendOK, SendFails, ReadFails, ReaderEnds
  <2>2. CASE DialOK \/ DialFails \/ AddConn \/ RefuseOpen \/ DropConn
    BY <2>2, Zenon DEF DialOK, DialFails, AddConn, RefuseOpen, DropConn, CloseConn,
         SendEnds, SendOK, SendFails
  <2> QED
    BY <1>2, <2>1, <2>2 DEF ReaderWorks
<1>3. CASE AcceptorWorks \/ AcceptJoiner \/ AcceptFails
  <2>1. CASE AdmitJoiner \/ UndoJoiner
    BY <2>1, Zenon DEF AdmitJoiner, AcceptorStep, AcceptorEnds, UndoJoiner, CloseConn
  <2>2. CASE Announce \/ AcceptFails \/ AcceptJoiner
    BY <2>2, Zenon DEF Announce, SendOK, SendFails, AcceptFails, AcceptorEnds, AcceptJoiner
  <2> QED
    BY <1>3, <2>1, <2>2 DEF AcceptorWorks
<1>4. CASE TeardownWorks
  BY <1>4, Zenon DEF TeardownWorks, TeardownWakes, TeardownClosesLn, TeardownClosesTun,
       TeardownTakesAll, TeardownEnds, TeardownShutsOne, TeardownStep
<1>5. CASE RunWorks
  BY <1>5, Zenon DEF RunWorks, RunWakes, RunClosesLn, RunReleases, RunClosesTun, RunStep
<1>6. CASE Blocked
  BY <1>6, Zenon DEF Blocked, SendBlocks
<1>7. ASSUME NEW id \in Ids,
             PumpWorks(id) \/ PumpReads(id) \/ PumpReadFails(id) \/ WriterFails(id)
      PROVE  Flags'
  <2>1. CASE PumpSends(id) \/ PumpSaysBye(id)
    BY <2>1, Zenon DEF PumpSends, PumpSaysBye, SendEnds, SendOK, SendFails
  <2>2. CASE PumpReads(id) \/ PumpReadFails(id) \/ PumpRemoves(id) \/ WriterFails(id)
    BY <2>2, Zenon DEF PumpReads, PumpReadFails, PumpRemoves, CloseConn, WriterFails,
         internal
  <2> QED
    BY <1>7, <2>1, <2>2 DEF PumpWorks
<1>8. CASE HostSends
  <2>1. CASE ReadOpen \/ ReadPing
    BY <2>1, Zenon DEF ReadOpen, ReadPing
  <2>2. CASE ReadForeignOpen \/ ReadGameOver
    BY <2>2, Zenon DEF ReadForeignOpen, ReadGameOver, ReaderEnds
  <2>3. ASSUME NEW id \in Ids, ReadData(id) \/ ReadClose(id) PROVE Flags'
    BY <2>3, Zenon DEF ReadData, ReadClose, CloseConn
  <2> QED
    BY <1>8, <2>1, <2>2, <2>3 DEF HostSends
<1>9. CASE HostStalls \/ HostFallsSilent \/ TunnelBreaks \/ Cancel
  BY <1>9, Zenon DEF HostStalls, HostFallsSilent, TunnelBreaks, Cancel, internal
<1> QED
  BY <1>1, <1>2, <1>3, <1>4, <1>5, <1>6, <1>7, <1>8, <1>9 DEF Next

\* Every step keeps the types; that ids are fresh bounds the streams.
LEMMA TypesStep == Types /\ FreshIds /\ [Next]_vars => Types'
<1> SUFFICES ASSUME Types, FreshIds, [Next]_vars, Flags' PROVE Types'
  BY FlagsStep DEF Types
<1> USE DEF Types, ReaderPlaces, AcceptorPlaces, PumpPlaces, TeardownPlaces,
       RunPlaces, At, SendOK, SendFails, SendEnds
<1>1. CASE UNCHANGED vars
  BY <1>1 DEF vars, goroutines, streams, host, Writers, Nobody
<1>2. CASE ReaderWorks
  <2>1. CASE DialOK \/ DialFails \/ AddConn \/ DropConn
    <3>1. reader.at = "add" => reader.id \in Ids
      BY OpeningIds DEF FreshIds
    <3> QED
      BY <2>1, <3>1 DEF DialOK, DialFails, AddConn, DropConn, ReaderStep, CloseConn, wire,
           streams, host
  <2>2. CASE RefuseOpen
    BY <2>2 DEF RefuseOpen, ReaderStep, streams, host, Nobody
  <2>3. CASE SendPong \/ ReadFails
    BY <2>3 DEF SendPong, ReadFails, ReaderEnds, ReaderStep, wire, streams, host, Nobody
  <2> QED
    BY <1>2, <2>1, <2>2, <2>3 DEF ReaderWorks
<1>3. CASE AcceptorWorks \/ AcceptJoiner \/ AcceptFails
  <2>1. CASE AdmitJoiner
    <3>1. joined + 1 \in 0..NJoiners /\ 2 * (joined + 1) \in Ids
      <4>1. joined \in 0..NJoiners /\ joined < NJoiners
        BY <2>1 DEF AdmitJoiner, FreshIds, JoinerIsFresh
      <4>2. joined + 1 \in 1..NJoiners /\ 2 * (joined + 1) \in Joiners
        BY <4>1, NextIds
      <4> QED
        BY <4>2 DEF Ids
    <3> QED
      BY <2>1, <3>1 DEF AdmitJoiner, AcceptorStep, AcceptorEnds, wire
  <2>2. CASE Announce \/ UndoJoiner \/ AcceptFails \/ AcceptJoiner
    BY <2>2 DEF Announce, UndoJoiner, AcceptFails, AcceptJoiner, AcceptorStep,
         AcceptorEnds, CloseConn, wire, streams, host, Nobody
  <2> QED
    BY <1>3, <2>1, <2>2 DEF AcceptorWorks
<1>4. CASE TeardownWorks
  BY <1>4 DEF TeardownWorks, TeardownWakes, TeardownClosesLn, TeardownClosesTun,
       TeardownTakesAll, TeardownEnds, TeardownShutsOne, TeardownStep, streams, host
<1>5. CASE RunWorks
  BY <1>5 DEF RunWorks, RunWakes, RunClosesLn, RunReleases, RunClosesTun, RunStep,
       streams, host
<1>6. CASE Blocked
  BY <1>6 DEF Blocked, SendBlocks, goroutines, streams, host
<1>7. ASSUME NEW id \in Ids,
             PumpWorks(id) \/ PumpReads(id) \/ PumpReadFails(id) \/ WriterFails(id)
      PROVE  Types'
  BY <1>7 DEF PumpWorks, PumpReads, PumpReadFails, PumpSends, PumpSaysBye, PumpRemoves,
       PumpStep, WriterFails, CloseConn, wire, streams, host, internal, goroutines, Nobody
<1>8. CASE HostSends
  <2>1. CASE ReadOpen
    <3>1. opened' \in 0..NClients /\ 2 * opened' - 1 \in Ids
      <4>1. opened \in 0..NClients /\ opened < NClients /\ opened' = opened + 1
        BY <2>1 DEF ReadOpen
      <4>2. opened' \in 1..NClients /\ 2 * opened' - 1 \in Clients
        BY <4>1, NextIds
      <4> QED
        BY <4>2 DEF Ids
    <3> QED
      BY <2>1, <3>1 DEF ReadOpen, ReaderStep, wire, streams
  <2>2. CASE ReadForeignOpen \/ ReadPing \/ ReadGameOver
    BY <2>2 DEF ReadForeignOpen, ReadPing, ReadGameOver, ReaderEnds, ReaderStep, wire,
         streams, host
  <2>3. ASSUME NEW id \in Ids, ReadData(id) \/ ReadClose(id) PROVE Types'
    BY <2>3 DEF ReadData, ReadClose, ReaderStep, CloseConn, wire, host
  <2> QED
    BY <1>8, <2>1, <2>2, <2>3 DEF HostSends
<1>9. CASE HostStalls \/ HostFallsSilent \/ TunnelBreaks \/ Cancel
  BY <1>9 DEF HostStalls, HostFallsSilent, TunnelBreaks, Cancel, internal, goroutines,
       streams, host
<1> QED
  BY <1>1, <1>2, <1>3, <1>4, <1>5, <1>6, <1>7, <1>8, <1>9 DEF Next
-----------------------------------------------------------------------------
(* Caps. *)

\* Two steps register a stream, and two begin or go on with the dial of one.
LEMMA ConnsGrow == [Next]_vars => conns' \subseteq conns \/ AddConn \/ AdmitJoiner
<1> USE DEF CloseConn, streams
<1>1. ReaderWorks => conns' \subseteq conns \/ AddConn
  BY DEF ReaderWorks, DialOK, DialFails, RefuseOpen, DropConn, SendPong, ReadFails, ReaderEnds
<1>2. AcceptorWorks \/ AcceptJoiner \/ AcceptFails => conns' \subseteq conns \/ AdmitJoiner
  BY DEF AcceptorWorks, Announce, UndoJoiner, AcceptFails, AcceptJoiner
<1>3. TeardownWorks \/ RunWorks => conns' \subseteq conns
  BY DEF TeardownWorks, TeardownWakes, TeardownClosesLn, TeardownClosesTun, TeardownTakesAll,
       TeardownEnds, TeardownShutsOne, RunWorks, RunWakes, RunClosesLn, RunReleases,
       RunClosesTun, RunStep
<1>4. ASSUME NEW id \in Ids,
             PumpWorks(id) \/ PumpReads(id) \/ PumpReadFails(id) \/ WriterFails(id)
      PROVE  conns' \subseteq conns
  BY <1>4 DEF PumpWorks, PumpReads, PumpReadFails, PumpSends, PumpSaysBye, PumpRemoves,
       WriterFails
<1>5. HostSends => conns' \subseteq conns
  BY DEF HostSends, ReadOpen, ReadForeignOpen, ReadPing, ReadGameOver, ReadData, ReadClose,
       ReaderEnds
<1>6. Blocked \/ HostStalls \/ HostFallsSilent \/ TunnelBreaks \/ Cancel \/ UNCHANGED vars
        => conns' = conns
  BY DEF Blocked, SendBlocks, HostStalls, HostFallsSilent, TunnelBreaks, Cancel, vars
<1> QED
  BY <1>1, <1>2, <1>3, <1>4, <1>5, <1>6 DEF Next

\* A dial of the game server begins with an OPEN that passed the cap, and nowhere else.
LEMMA DialsBegin ==
  [Next]_vars => reader' = reader \/ reader'.at \notin {"dial", "add"} \/ ReadOpen \/ DialOK
<1> USE DEF At, ReaderStep
<1>1. ReaderWorks => reader'.at \notin {"dial", "add"} \/ DialOK
  BY DEF ReaderWorks, DialFails, AddConn, RefuseOpen, DropConn, SendPong, ReadFails, ReaderEnds
<1>2. AcceptorWorks \/ AcceptJoiner \/ AcceptFails => reader' = reader
  BY DEF AcceptorWorks, AdmitJoiner, Announce, UndoJoiner, AcceptFails, AcceptJoiner,
       AcceptorStep, AcceptorEnds
<1>3. TeardownWorks \/ RunWorks => reader' = reader
  BY DEF TeardownWorks, TeardownWakes, TeardownClosesLn, TeardownClosesTun, TeardownTakesAll,
       TeardownEnds, TeardownShutsOne, TeardownStep, RunWorks, RunWakes, RunClosesLn,
       RunReleases, RunClosesTun, RunStep
<1>4. ASSUME NEW id \in Ids,
             PumpWorks(id) \/ PumpReads(id) \/ PumpReadFails(id) \/ WriterFails(id)
      PROVE  reader' = reader
  BY <1>4 DEF PumpWorks, PumpReads, PumpReadFails, PumpSends, PumpSaysBye, PumpRemoves,
       PumpStep, WriterFails, internal, goroutines
<1>5. HostSends => reader'.at \notin {"dial", "add"} \/ ReadOpen
  BY DEF HostSends, ReadForeignOpen, ReadPing, ReadGameOver, ReadData, ReadClose, ReaderEnds
<1>6. Blocked \/ HostStalls \/ HostFallsSilent \/ TunnelBreaks \/ Cancel \/ UNCHANGED vars
        => reader' = reader
  BY DEF Blocked, SendBlocks, HostStalls, HostFallsSilent, TunnelBreaks, Cancel, internal,
       goroutines, vars
<1> QED
  BY <1>1, <1>2, <1>3, <1>4, <1>5, <1>6 DEF Next

\* The joiner cap is looked at where a joiner is registered; the client cap before the
\* dial, and nobody but the reader, which waits for the dial, adds a client stream.
LEMMA CapsStep ==
  TypeOK /\ RoomForDialed /\ FreshIds /\ [Next]_vars => WithinCaps' /\ RoomForDialed'
<1> SUFFICES ASSUME TypeOK, RoomForDialed, FreshIds, [Next]_vars, Types'
             PROVE  WithinCaps' /\ RoomForDialed'
  BY TypesStep DEF TypeOK
<1> DEFINE C(S) == Cardinality(S \cap Clients)
           J(S) == Cardinality(S \cap Joiners)
<1>0. conns \in SUBSET Ids /\ conns' \in SUBSET Ids
  BY DEF TypeOK, Types
<1>1. /\ C(conns) \in Nat /\ C(conns') \in Nat /\ J(conns) \in Nat /\ J(conns') \in Nat
      /\ MaxClients \in Nat /\ MaxJoiners \in Nat
  BY <1>0, LiveStreams, IdsParted
<1>2. C(conns) <= MaxClients /\ J(conns) <= MaxJoiners
  BY DEF TypeOK, WithinCaps
<1>3. CASE conns' \subseteq conns
  <2>1. C(conns') <= C(conns) /\ J(conns') <= J(conns)
    BY <1>0, <1>3, LiveStreams
  <2>2. WithinCaps'
    BY <1>1, <1>2, <2>1 DEF WithinCaps
  <2>3. CASE reader' = reader \/ reader'.at \notin {"dial", "add"} \/ DialOK
    <3>1. reader'.at \in {"dial", "add"} => reader.at \in {"dial", "add"}
      BY <2>3 DEF DialOK
    <3>2. reader'.at \in {"dial", "add"} => C(conns) < MaxClients
      BY <3>1 DEF RoomForDialed
    <3> QED
      BY <1>1, <2>1, <2>2, <3>2 DEF RoomForDialed
  <2>4. CASE ReadOpen
    <3>1. reader'.at = "dial" => C(conns) < MaxClients
      BY <1>1, <2>4 DEF ReadOpen, ReaderStep, At, TooManyClients, AtCap
    <3>2. reader'.at # "add"
      BY <2>4 DEF ReadOpen, ReaderStep, At
    <3> QED
      BY <1>1, <2>1, <2>2, <3>1, <3>2 DEF RoomForDialed
  <2> QED
    BY <2>2, <2>3, <2>4, DialsBegin
<1>4. CASE AddConn
  <2>1. reader.at = "add" /\ reader'.at = "read"
    BY <1>4 DEF AddConn, ReaderStep, At
  <2>2. C(conns) < MaxClients /\ reader.id \notin Joiners
    BY <2>1, OpeningIds DEF RoomForDialed, FreshIds
  <2>3. conns' \in {conns, conns \cup {reader.id}}
    BY <1>4 DEF AddConn
  <2>4. C(conns') <= C(conns) + 1 /\ J(conns') <= J(conns)
    <3>1. CASE conns' = conns
      BY <1>1, <3>1
    <3>2. CASE conns' = conns \cup {reader.id}
      <4>1. C(conns \cup {reader.id}) <= C(conns) + 1
        BY <1>0, LiveStreams
      <4>2. (conns \cup {reader.id}) \cap Joiners = conns \cap Joiners
        BY <2>2
      <4> QED
        BY <1>1, <3>2, <4>1, <4>2
    <3> QED
      BY <2>3, <3>1, <3>2
  <2> QED
    BY <1>1, <1>2, <2>1, <2>2, <2>4 DEF WithinCaps, RoomForDialed
<1>5. CASE AdmitJoiner /\ ~(conns' \subseteq conns)
  <2>1. conns' = conns \cup {2 * (joined + 1)} /\ J(conns) < MaxJoiners
    BY <1>1, <1>5 DEF AdmitJoiner, TooManyJoiners, AtCap
  <2>2. 2 * (joined + 1) \in Joiners /\ 2 * (joined + 1) \notin Clients
    <3>1. joined \in 0..NJoiners /\ joined < NJoiners
      BY <1>5 DEF AdmitJoiner, FreshIds, JoinerIsFresh, TypeOK, Types
    <3>2. 2 * (joined + 1) \in Joiners
      BY <3>1, NextIds
    <3> QED
      BY <3>2, IdsParted
  <2>3. C(conns') = C(conns) /\ J(conns') <= J(conns) + 1
    BY <1>0, <2>1, <2>2, LiveStreams
  <2>4. reader' = reader
    BY <1>5 DEF AdmitJoiner, AcceptorStep, AcceptorEnds
  <2> QED
    BY <1>1, <1>2, <2>1, <2>3, <2>4 DEF WithinCaps, RoomForDialed
<1> QED
  BY <1>3, <1>4, <1>5, ConnsGrow
-----------------------------------------------------------------------------
(* Ids and frames. *)

\* What the reader, the accept loop and the pumps say and count is theirs alone.
said == <<reader, acceptor, pump, lastFrame, opened, joined>>
Elsewhere ==
  \/ TeardownWorks \/ RunWorks \/ Blocked
  \/ \E id \in Ids : WriterFails(id)
  \/ HostStalls \/ HostFallsSilent \/ TunnelBreaks \/ Cancel
  \/ UNCHANGED vars

\* The teardown, Run's return and the environment say nothing on any stream.
LEMMA ElsewhereSilent == Elsewhere => UNCHANGED said
<1>1. TeardownWorks => UNCHANGED said
  BY DEF TeardownWorks, TeardownWakes, TeardownClosesLn, TeardownClosesTun, TeardownTakesAll,
       TeardownEnds, TeardownShutsOne, TeardownStep, host, said
<1>2. RunWorks => UNCHANGED said
  BY DEF RunWorks, RunWakes, RunClosesLn, RunReleases, RunClosesTun, RunStep, host, said
<1>3. Blocked => UNCHANGED said
  BY DEF Blocked, SendBlocks, goroutines, host, said
<1>4. (\E id \in Ids : WriterFails(id)) => UNCHANGED said
  BY DEF WriterFails, internal, goroutines, host, said
<1>5. HostStalls \/ HostFallsSilent \/ TunnelBreaks \/ Cancel => UNCHANGED said
  BY DEF HostStalls, HostFallsSilent, TunnelBreaks, Cancel, internal, goroutines, host, said
<1>6. UNCHANGED vars => UNCHANGED said
  BY DEF vars, goroutines, host, said
<1> QED
  BY <1>1, <1>2, <1>3, <1>4, <1>5, <1>6 DEF Elsewhere

\* The n-th id of either kind is an id.
LEMMA LaterIds ==
  /\ \A n \in 1..NClients : 2 * n - 1 \in Ids
  /\ \A n \in 1..NJoiners : 2 * n \in Ids
BY IdsParted DEF Ids

\* The reader takes the next id of the launcher's and spoils no later one.
LEMMA ReaderKeepsFresh ==
  Types /\ FreshIds /\ (ReaderWorks \/ HostSends) => FreshIds'
<1> SUFFICES ASSUME Types, FreshIds, ReaderWorks \/ HostSends PROVE FreshIds'
  OBVIOUS
<1> USE DEF FreshIds, OpeningIsFresh, JoinerIsFresh, LaterIdsUntouched
<1>0. /\ pump \in [Ids -> PumpPlaces] /\ lastFrame \in [Ids -> {"none", "OPEN", "DATA", "CLOSE"}]
      /\ opened \in 0..NClients /\ joined \in 0..NJoiners
      /\ NClients \in Nat /\ NJoiners \in Nat
  BY IdsParted DEF Types
<1>1. ASSUME UNCHANGED <<acceptor, pump, lastFrame, opened, joined>>,
             \/ reader'.at \notin {"dial", "add", "refuse"}
             \/ reader.at = "dial" /\ reader'.id = reader.id
      PROVE  FreshIds'
  BY <1>1
<1>2. CASE DialOK \/ DialFails \/ DropConn \/ ReadFails
  BY <1>1, <1>2 DEF DialOK, DialFails, DropConn, ReadFails, ReaderEnds, ReaderStep, At, wire, host
<1>3. CASE SendPong
  BY <1>1, <1>3 DEF SendPong, SendOK, SendFails, ReaderEnds, ReaderStep, At, host
<1>4. CASE AddConn \/ RefuseOpen
  <2>1. /\ opened \in 1..NClients /\ reader.id = 2 * opened - 1
        /\ reader.id \in Clients /\ reader.id \in Ids
    BY <1>4, OpeningIds DEF AddConn, RefuseOpen
  <2>2. /\ UNCHANGED <<acceptor, opened, joined>> /\ reader'.at = "read"
        /\ \A id \in Ids : id # reader.id => pump'[id] = pump[id] /\ lastFrame'[id] = lastFrame[id]
    BY <1>0, <1>4, <2>1 DEF AddConn, RefuseOpen, SendEnds, SendOK, SendFails, ReaderStep, At,
         wire, host
  <2>3. \A n \in 1..NClients : n > opened => 2 * n - 1 # reader.id
    BY <1>0, <2>1
  <2>4. \A n \in 1..NJoiners : 2 * n # reader.id
    BY <2>1, IdsParted
  <2>5. LaterIdsUntouched'
    BY <2>2, <2>3, <2>4, LaterIds
  <2>6. JoinerIsFresh'
    BY <2>2, <2>4, LaterIds
  <2> QED
    BY <2>2, <2>5, <2>6
<1>5. CASE ReadOpen
  <2>1. /\ opened' = opened + 1 /\ opened < NClients
        /\ reader'.id = 2 * opened' - 1 /\ UNCHANGED <<acceptor, pump, lastFrame, joined>>
    BY <1>5 DEF ReadOpen, ReaderStep, At, wire
  <2>2. opened' \in 1..NClients /\ opened' > opened
    BY <1>0, <2>1
  <2>3. OpeningIsFresh'
    BY <2>1, <2>2
  <2>4. \A n \in 1..NClients : n > opened' => n > opened
    BY <1>0, <2>1
  <2>5. LaterIdsUntouched'
    BY <2>1, <2>4
  <2> QED
    BY <2>1, <2>3, <2>5
<1>6. CASE ReadForeignOpen \/ ReadPing \/ ReadGameOver
  BY <1>1, <1>6 DEF ReadForeignOpen, ReadPing, ReadGameOver, ReaderEnds, ReaderStep, At, wire, host
<1>7. ASSUME NEW id \in Ids, ReadData(id) \/ ReadClose(id) PROVE FreshIds'
  BY <1>1, <1>7 DEF ReadData, ReadClose, ReaderStep, At, wire, host
<1> QED
  BY <1>2, <1>3, <1>4, <1>5, <1>6, <1>7 DEF ReaderWorks, HostSends

\* The accept loop takes the next joiner id and spoils no later one.
LEMMA AcceptorKeepsFresh ==
  Types /\ FreshIds /\ (AcceptorWorks \/ AcceptJoiner \/ AcceptFails) => FreshIds'
<1> SUFFICES ASSUME Types, FreshIds, AcceptorWorks \/ AcceptJoiner \/ AcceptFails
             PROVE  FreshIds'
  OBVIOUS
<1> USE DEF FreshIds, OpeningIsFresh, JoinerIsFresh, LaterIdsUntouched
<1>0. /\ pump \in [Ids -> PumpPlaces] /\ lastFrame \in [Ids -> {"none", "OPEN", "DATA", "CLOSE"}]
      /\ opened \in 0..NClients /\ joined \in 0..NJoiners
      /\ NClients \in Nat /\ NJoiners \in Nat
  BY IdsParted DEF Types
<1>1. ASSUME UNCHANGED <<reader, pump, lastFrame, opened, joined>>,
             acceptor'.at # "announce", acceptor'.at = "admit" => joined < NJoiners
      PROVE  FreshIds'
  BY <1>1
<1>2. CASE AcceptJoiner \/ AcceptFails
  BY <1>1, <1>2 DEF AcceptJoiner, AcceptFails, AcceptorStep, AcceptorEnds, At, wire, host
<1>3. CASE UndoJoiner
  BY <1>1, <1>3 DEF UndoJoiner, AcceptorStep, AcceptorEnds, At, wire, host
<1>4. CASE AdmitJoiner
  <2>1. UNCHANGED <<reader, pump, lastFrame, opened>> /\ joined < NJoiners
    BY <1>4 DEF AdmitJoiner, AcceptorStep, AcceptorEnds, wire
  <2>2. CASE joined' = joined
    <3>1. joined' # joined + 1
      BY <1>0, <2>2
    <3> QED
      BY <1>1, <1>4, <2>1, <2>2, <3>1 DEF AdmitJoiner, AcceptorStep, AcceptorEnds, At
  <2>3. CASE joined' = joined + 1 /\ acceptor'.at = "announce" /\ acceptor'.id = 2 * (joined + 1)
    <3>1. joined' \in 1..NJoiners /\ joined' > joined
      BY <1>0, <2>1, <2>3
    <3>2. \A n \in 1..NJoiners : n > joined' => n > joined
      BY <1>0, <2>3
    <3>3. JoinerIsFresh'
      BY <2>1, <2>3, <3>1
    <3> QED
      BY <2>1, <3>2, <3>3
  <2> QED
    BY <1>4, <2>2, <2>3 DEF AdmitJoiner, AcceptorStep, At
<1>5. CASE Announce
  <2>1. /\ joined \in 1..NJoiners /\ acceptor.id = 2 * joined
        /\ acceptor.id \in Joiners /\ acceptor.id \notin Clients
    BY <1>5, OpeningIds DEF Announce
  <2>2. /\ UNCHANGED <<reader, opened, joined>> /\ acceptor'.at \in {"accept", "undo"}
        /\ \A id \in Ids : id # acceptor.id => pump'[id] = pump[id] /\ lastFrame'[id] = lastFrame[id]
    BY <1>0, <1>5 DEF Announce, SendOK, SendFails, AcceptorStep, At, host
  <2>3. \A n \in 1..NJoiners : n > joined => 2 * n # acceptor.id
    BY <1>0, <2>1
  <2>4. \A n \in 1..NClients : 2 * n - 1 # acceptor.id
    BY <2>1, IdsParted
  <2>5. LaterIdsUntouched'
    BY <2>2, <2>3, <2>4, LaterIds
  <2>6. OpeningIsFresh'
    BY <2>2, <2>4, LaterIds
  <2> QED
    BY <2>2, <2>5, <2>6
<1> QED
  BY <1>2, <1>3, <1>4, <1>5 DEF AcceptorWorks

\* A pump is that of an id in use already.
LEMMA PumpsKeepFresh ==
  ASSUME Types, FreshIds, NEW id \in Ids,
         PumpWorks(id) \/ PumpReads(id) \/ PumpReadFails(id)
  PROVE  FreshIds'
<1>1. /\ pump \in [Ids -> PumpPlaces] /\ lastFrame \in [Ids -> {"none", "OPEN", "DATA", "CLOSE"}]
  BY DEF Types
<1>2. UNCHANGED <<reader, acceptor, opened, joined>> /\ pump[id] # "none"
  BY DEF PumpWorks, PumpReads, PumpReadFails, PumpSends, PumpSaysBye, PumpRemoves, PumpStep, host
<1>3. \A other \in Ids : other # id => pump'[other] = pump[other] /\ lastFrame'[other] = lastFrame[other]
  BY <1>1 DEF PumpWorks, PumpReads, PumpReadFails, PumpSends, PumpSaysBye, PumpRemoves, PumpStep,
       SendEnds, SendOK, SendFails, wire
<1>4. OpeningIsFresh' /\ JoinerIsFresh'
  BY <1>2, <1>3, OpeningIds DEF FreshIds, OpeningIsFresh, JoinerIsFresh
<1>5. LaterIdsUntouched'
  BY <1>2, <1>3, LaterIds DEF FreshIds, LaterIdsUntouched
<1> QED
  BY <1>4, <1>5 DEF FreshIds

\* Every step leaves the ids to come untouched.
LEMMA FreshStep == Types /\ FreshIds /\ [Next]_vars => FreshIds'
<1>1. FreshIds /\ UNCHANGED said => FreshIds'
  BY DEF FreshIds, OpeningIsFresh, JoinerIsFresh, LaterIdsUntouched, said
<1> QED
  BY <1>1, ElsewhereSilent, ReaderKeepsFresh, AcceptorKeepsFresh, PumpsKeepFresh
     DEF Next, Elsewhere

\* Whoever writes on a stream: which frame, and when.
InOrder(id) ==
  lastFrame'[id] # lastFrame[id] => lastFrame'[id] \in NextFrames(id, lastFrame[id])
FrameSteps == Frames' /\ \A id \in Ids : InOrder(id)

\* What may follow what on a stream.
LEMMA NextFramesIs ==
  \A id \in Ids :
    /\ id \in Joiners => NextFrames(id, "none") = {"OPEN"}
    /\ id \notin Joiners => NextFrames(id, "none") = {"DATA", "CLOSE"}
    /\ NextFrames(id, "OPEN") = {"DATA", "CLOSE"} /\ NextFrames(id, "DATA") = {"DATA", "CLOSE"}
BY DEF NextFrames

\* One step writes on one stream at most, and moves the pump of that stream at most.
LEMMA OneFrame ==
  ASSUME Types, Frames, NEW id \in Ids,
         \A other \in Ids : other # id =>
           pump'[other] = pump[other] /\ lastFrame'[other] = lastFrame[other],
         \/ lastFrame'[id] = lastFrame[id]
         \/ lastFrame'[id] \in NextFrames(id, lastFrame[id]),
         id \in Clients => lastFrame'[id] # "OPEN",
         pump'[id] \in {"read", "data", "bye"} =>
           lastFrame'[id] # "CLOSE" /\ (id \in Joiners => lastFrame'[id] # "none")
  PROVE  FrameSteps
BY DEF FrameSteps, Frames, PumpsMaySend, ClientsNotAnnounced, InOrder, Ids

\* Every step writes the right frame on each stream.
LEMMA FramesStep == Types /\ FreshIds /\ Frames /\ [Next]_vars => FrameSteps
<1> SUFFICES ASSUME Types, FreshIds, Frames, [Next]_vars PROVE FrameSteps
  OBVIOUS
<1>0. pump \in [Ids -> PumpPlaces] /\ lastFrame \in [Ids -> {"none", "OPEN", "DATA", "CLOSE"}]
  BY DEF Types
<1>1. ASSUME UNCHANGED <<pump, lastFrame>> PROVE FrameSteps
  BY <1>1 DEF FrameSteps, Frames, PumpsMaySend, ClientsNotAnnounced, InOrder
<1>2. CASE Elsewhere
  BY <1>1, <1>2, ElsewhereSilent DEF said
<1>3. CASE DialOK \/ DialFails \/ DropConn \/ ReadFails \/ SendPong
  BY <1>1, <1>3 DEF DialOK, DialFails, DropConn, ReadFails, SendPong, SendOK, SendFails,
       ReaderEnds, wire
<1>4. CASE HostSends
  BY <1>1, <1>4 DEF HostSends, ReadOpen, ReadForeignOpen, ReadPing, ReadGameOver, ReadData,
       ReadClose, ReaderEnds, wire
<1>5. CASE AddConn \/ RefuseOpen
  <2>1. /\ reader.id \in Clients /\ reader.id \in Ids /\ reader.id \notin Joiners
        /\ pump[reader.id] = "none" /\ lastFrame[reader.id] = "none"
    BY <1>5, OpeningIds DEF AddConn, RefuseOpen, FreshIds, OpeningIsFresh
  <2>2. \A other \in Ids : other # reader.id =>
          pump'[other] = pump[other] /\ lastFrame'[other] = lastFrame[other]
    BY <1>0, <1>5 DEF AddConn, RefuseOpen, SendEnds, SendOK, SendFails, wire
  <2>3. /\ lastFrame'[reader.id] \in {"none", "CLOSE"}
        /\ lastFrame'[reader.id] = "CLOSE" => pump'[reader.id] = "none"
    BY <1>0, <1>5, <2>1 DEF AddConn, RefuseOpen, SendEnds, SendOK, SendFails, wire
  <2> QED
    BY <2>1, <2>2, <2>3, NextFramesIs, OneFrame
<1>6. CASE AdmitJoiner \/ UndoJoiner \/ AcceptFails \/ AcceptJoiner
  BY <1>1, <1>6 DEF AdmitJoiner, UndoJoiner, AcceptFails, AcceptJoiner, wire
<1>7. CASE Announce
  <2>1. /\ acceptor.id \in Joiners /\ acceptor.id \in Ids /\ acceptor.id \notin Clients
        /\ pump[acceptor.id] = "none" /\ lastFrame[acceptor.id] = "none"
    BY <1>7, OpeningIds DEF Announce, FreshIds, JoinerIsFresh
  <2>2. \A other \in Ids : other # acceptor.id =>
          pump'[other] = pump[other] /\ lastFrame'[other] = lastFrame[other]
    BY <1>0, <1>7 DEF Announce, SendOK, SendFails
  <2>3. \/ lastFrame'[acceptor.id] = "OPEN"
        \/ lastFrame'[acceptor.id] = "none" /\ pump'[acceptor.id] = "none"
    BY <1>0, <1>7, <2>1, IdsParted DEF Announce, SendOK, SendFails
  <2> QED
    BY <2>1, <2>2, <2>3, NextFramesIs, OneFrame
<1>8. ASSUME NEW id \in Ids, PumpWorks(id) \/ PumpReads(id) \/ PumpReadFails(id)
      PROVE  FrameSteps
  <2>1. \A other \in Ids : other # id =>
          pump'[other] = pump[other] /\ lastFrame'[other] = lastFrame[other]
    BY <1>0, <1>8 DEF PumpWorks, PumpReads, PumpReadFails, PumpSends, PumpSaysBye, PumpRemoves,
         PumpStep, SendEnds, SendOK, SendFails, wire
  <2>2. CASE PumpReads(id) \/ PumpReadFails(id) \/ PumpRemoves(id)
    <3>1. /\ lastFrame' = lastFrame
          /\ pump'[id] \in {"data", "bye"} => pump[id] = "read"
          /\ pump'[id] # "read"
      BY <1>0, <2>2 DEF PumpReads, PumpReadFails, PumpRemoves, PumpStep, wire
    <3> QED
      BY <2>1, <3>1, OneFrame DEF Frames, PumpsMaySend, ClientsNotAnnounced
  <2>3. CASE PumpSends(id) \/ PumpSaysBye(id)
    <3>1. /\ pump[id] \in {"data", "bye"}
          /\ \/ lastFrame' = lastFrame
             \/ lastFrame'[id] = "DATA" /\ pump'[id] = "read"
             \/ lastFrame'[id] = "CLOSE" /\ pump'[id] = "remove"
      BY <1>0, <2>3, IdsParted DEF PumpSends, PumpSaysBye, PumpStep, SendEnds, SendOK, SendFails
    <3>2. lastFrame[id] # "CLOSE" /\ (id \in Joiners => lastFrame[id] # "none")
      BY <3>1 DEF Frames, PumpsMaySend
    <3>3. {"DATA", "CLOSE"} = NextFrames(id, lastFrame[id])
      BY <1>0, <3>2, NextFramesIs
    <3>4. id \in Clients => lastFrame[id] # "OPEN"
      BY DEF Frames, ClientsNotAnnounced
    <3> QED
      BY <2>1, <3>1, <3>2, <3>3, <3>4, OneFrame
  <2> QED
    BY <1>8, <2>2, <2>3 DEF PumpWorks
<1> QED
  BY <1>2, <1>3, <1>4, <1>5, <1>6, <1>7, <1>8
     DEF Next, Elsewhere, ReaderWorks, AcceptorWorks
-----------------------------------------------------------------------------
(* Sockets and the end. *)

\* Who closes a stream's place in the map closes its socket.
LEMMA CloseConnKeeps ==
  ASSUME Types, NoOrphanSocket, NEW id, CloseConn(id), reader.at # "add" \/ reader' = reader
  PROVE  NoOrphanSocket'
BY DEF Types, NoOrphanSocket, CloseConn, At

\* Every step leaves each socket with an owner that will close it.
LEMMA SocketsStep ==
  Types /\ FreshIds /\ NoOrphanSocket /\ SnapshotInUse /\ [Next]_vars
    => NoOrphanSocket' /\ SnapshotInUse'
<1> SUFFICES ASSUME Types, FreshIds, NoOrphanSocket, SnapshotInUse, [Next]_vars
             PROVE  NoOrphanSocket' /\ SnapshotInUse'
  OBVIOUS
<1>0. sock \in [Ids -> {"none", "open", "closed"}] /\ conns \subseteq Ids /\ doomed \subseteq Ids
  BY DEF Types
<1>1. ASSUME UNCHANGED <<teardown, doomed>> PROVE SnapshotInUse'
  BY <1>1 DEF SnapshotInUse
<1>2. ASSUME UNCHANGED streams, reader' = reader \/ reader.at # "add"
      PROVE  NoOrphanSocket'
  BY <1>2 DEF NoOrphanSocket, streams, At
<1>3. ASSUME NEW id \in Ids, sock' = [sock EXCEPT ![id] = "closed"],
             UNCHANGED <<conns, done, doomed>>, reader' = reader \/ reader.at # "add"
      PROVE  NoOrphanSocket'
  BY <1>0, <1>3 DEF NoOrphanSocket, At
<1>4. CASE ReaderWorks
  <2>1. CASE DialOK
    BY <1>0, <1>1, <2>1 DEF DialOK, ReaderStep, NoOrphanSocket, At
  <2>2. CASE AddConn
    BY <1>0, <1>1, <2>2 DEF AddConn, ReaderStep, NoOrphanSocket, At
  <2>3. CASE DropConn
    BY <1>1, <2>3, CloseConnKeeps DEF DropConn, ReaderStep, CloseConn
  <2>4. CASE DialFails \/ RefuseOpen \/ SendPong \/ ReadFails
    BY <1>1, <1>2, <2>4 DEF DialFails, RefuseOpen, SendPong, ReadFails, ReaderEnds, ReaderStep,
         streams
  <2> QED
    BY <1>4, <2>1, <2>2, <2>3, <2>4 DEF ReaderWorks
<1>5. CASE AcceptorWorks \/ AcceptJoiner \/ AcceptFails
  <2>1. CASE AdmitJoiner
    <3>1. UNCHANGED <<teardown, doomed, reader>>
      BY <2>1 DEF AdmitJoiner, AcceptorStep, AcceptorEnds
    <3>2. CASE UNCHANGED <<conns, sock>>
      BY <1>1, <1>2, <2>1, <3>1, <3>2 DEF AdmitJoiner, streams
    <3>3. CASE /\ ~done /\ conns' = conns \cup {2 * (joined + 1)}
               /\ sock' = [sock EXCEPT ![2 * (joined + 1)] = "open"]
      BY <1>0, <1>1, <2>1, <3>1, <3>3 DEF AdmitJoiner, NoOrphanSocket
    <3> QED
      BY <2>1, <3>2, <3>3 DEF AdmitJoiner
  <2>2. CASE UndoJoiner
    BY <1>1, <2>2, CloseConnKeeps DEF UndoJoiner, AcceptorStep, AcceptorEnds, CloseConn
  <2>3. CASE Announce \/ AcceptFails \/ AcceptJoiner
    BY <1>1, <1>2, <2>3 DEF Announce, AcceptFails, AcceptJoiner, AcceptorStep, AcceptorEnds,
         streams
  <2> QED
    BY <1>5, <2>1, <2>2, <2>3 DEF AcceptorWorks
<1>6. CASE TeardownWorks
  <2>1. CASE TeardownTakesAll
    BY <2>1 DEF TeardownTakesAll, TeardownStep, NoOrphanSocket, SnapshotInUse, At
  <2>2. ASSUME NEW id \in Ids, TeardownShutsOne(id)
        PROVE  NoOrphanSocket' /\ SnapshotInUse'
    BY <1>0, <2>2 DEF TeardownShutsOne, TeardownStep, NoOrphanSocket, SnapshotInUse
  <2>3. CASE TeardownWakes \/ TeardownClosesLn \/ TeardownClosesTun \/ TeardownEnds
    BY <1>2, <2>3 DEF TeardownWakes, TeardownClosesLn, TeardownClosesTun, TeardownEnds,
         TeardownStep, SnapshotInUse, streams
  <2> QED
    BY <1>6, <2>1, <2>2, <2>3 DEF TeardownWorks
<1>7. CASE RunWorks
  BY <1>1, <1>2, <1>7 DEF RunWorks, RunWakes, RunClosesLn, RunReleases, RunClosesTun, RunStep,
       streams
<1>8. CASE Blocked \/ HostStalls \/ HostFallsSilent \/ TunnelBreaks \/ Cancel \/ UNCHANGED vars
  BY <1>1, <1>2, <1>8 DEF Blocked, SendBlocks, HostStalls, HostFallsSilent, TunnelBreaks, Cancel,
       internal, goroutines, streams, vars
<1>9. ASSUME NEW id \in Ids,
             PumpWorks(id) \/ PumpReads(id) \/ PumpReadFails(id) \/ WriterFails(id)
      PROVE  NoOrphanSocket' /\ SnapshotInUse'
  <2>1. CASE PumpRemoves(id)
    BY <1>1, <2>1, CloseConnKeeps DEF PumpRemoves, PumpStep, CloseConn
  <2>2. CASE WriterFails(id)
    BY <1>1, <1>3, <2>2 DEF WriterFails, internal, goroutines
  <2>3. CASE PumpReads(id) \/ PumpReadFails(id) \/ PumpSends(id) \/ PumpSaysBye(id)
    BY <1>1, <1>2, <2>3 DEF PumpReads, PumpReadFails, PumpSends, PumpSaysBye, PumpStep, streams
  <2> QED
    BY <1>9, <2>1, <2>2, <2>3 DEF PumpWorks
<1>10. CASE HostSends
  <2>1. CASE ReadOpen \/ ReadForeignOpen \/ ReadPing \/ ReadGameOver
    BY <1>1, <1>2, <2>1 DEF ReadOpen, ReadForeignOpen, ReadPing, ReadGameOver, Reading,
         ReaderEnds, ReaderStep, streams
  <2>2. ASSUME NEW id \in Ids, ReadData(id)
        PROVE  NoOrphanSocket' /\ SnapshotInUse'
    BY <1>1, <1>3, <2>2 DEF ReadData, Reading, ReaderStep
  <2>3. ASSUME NEW id \in Ids, ReadClose(id)
        PROVE  NoOrphanSocket' /\ SnapshotInUse'
    BY <1>1, <2>3, CloseConnKeeps DEF ReadClose, Reading, ReaderStep, CloseConn
  <2> QED
    BY <1>10, <2>1, <2>2, <2>3 DEF HostSends
<1> QED
  BY <1>4, <1>5, <1>6, <1>7, <1>8, <1>9, <1>10 DEF Next

\* A loop that has ended stays ended and a closed listener closed.
LEMMA EndsLast ==
  [Next]_vars => /\ reader.at = "ended" => reader' = reader
                 /\ acceptor.at = "ended" => acceptor' = acceptor
                 /\ ~lnOpen => ~lnOpen'
                 /\ UNCHANGED <<run, portHeld>> \/ RunWorks
<1>1. ReaderWorks \/ HostSends =>
        reader.at # "ended" /\ UNCHANGED <<acceptor, lnOpen, run, portHeld>>
  BY DEF ReaderWorks, DialOK, DialFails, AddConn, RefuseOpen, DropConn, SendPong, ReadFails,
       HostSends, ReadOpen, ReadForeignOpen, ReadPing, ReadGameOver, ReadData, ReadClose, Reading,
       ReaderEnds, ReaderStep
<1>2. AcceptorWorks \/ AcceptJoiner \/ AcceptFails =>
        acceptor.at # "ended" /\ UNCHANGED <<reader, lnOpen, run, portHeld>>
  BY DEF AcceptorWorks, AdmitJoiner, Announce, UndoJoiner, AcceptFails, AcceptJoiner,
       AcceptorStep, AcceptorEnds
<1>3. TeardownWorks => UNCHANGED <<reader, acceptor, run, portHeld>> /\ (~lnOpen => ~lnOpen')
  BY DEF TeardownWorks, TeardownWakes, TeardownClosesLn, TeardownClosesTun, TeardownTakesAll,
       TeardownEnds, TeardownShutsOne, TeardownStep
<1>4. RunWorks => UNCHANGED <<reader, acceptor>> /\ (~lnOpen => ~lnOpen')
  BY DEF RunWorks, RunWakes, RunClosesLn, RunReleases, RunClosesTun, RunStep
<1>5. ASSUME NEW id \in Ids,
             PumpWorks(id) \/ PumpReads(id) \/ PumpReadFails(id) \/ WriterFails(id)
      PROVE  UNCHANGED <<reader, acceptor, lnOpen, run, portHeld>>
  BY <1>5 DEF PumpWorks, PumpReads, PumpReadFails, PumpSends, PumpSaysBye, PumpRemoves, PumpStep,
       WriterFails, internal, goroutines
<1>6. Blocked \/ HostStalls \/ HostFallsSilent \/ TunnelBreaks \/ Cancel \/ UNCHANGED vars
        => UNCHANGED <<reader, acceptor, lnOpen, run, portHeld>>
  BY DEF Blocked, SendBlocks, HostStalls, HostFallsSilent, TunnelBreaks, Cancel, internal,
       goroutines, vars
<1> QED
  BY <1>1, <1>2, <1>3, <1>4, <1>5, <1>6 DEF Next

\* Run's deferred calls come in their order, and nothing else takes the port.
LEMMA RunStepsInOrder == RunInOrder /\ [Next]_vars => RunInOrder'
<1> SUFFICES ASSUME RunInOrder, [Next]_vars PROVE RunInOrder'
  OBVIOUS
<1>1. CASE RunWorks
  BY <1>1, EndsLast DEF RunInOrder, RunWorks, RunWakes, RunClosesLn, RunReleases, RunClosesTun,
       RunStep
<1>2. CASE UNCHANGED <<run, portHeld>>
  BY <1>2, EndsLast DEF RunInOrder
<1> QED
  BY <1>1, <1>2, EndsLast
-----------------------------------------------------------------------------
(* Theorems. *)

\* A session starts without a stream, and with its port.
LEMMA InitInvariant == Init => IInv
<1> SUFFICES ASSUME Init PROVE IInv
  OBVIOUS
<1>1. Flags
  BY Zenon DEF Init, Flags
<1>2. NClients \in Nat /\ NJoiners \in Nat /\ MaxClients \in Nat /\ MaxJoiners \in Nat
  BY IdsParted
<1>3. Types
  BY <1>1, <1>2 DEF Types, Init, At, ReaderPlaces, AcceptorPlaces, PumpPlaces, TeardownPlaces,
       RunPlaces
<1>4. WithinCaps
  <2>1. conns \cap Clients = {} /\ conns \cap Joiners = {}
    BY DEF Init
  <2> QED
    BY <1>2, <2>1, FS_EmptySet DEF WithinCaps
<1>5. FreshIds /\ RoomForDialed
  BY LaterIds DEF Init, At, FreshIds, OpeningIsFresh, JoinerIsFresh, LaterIdsUntouched, RoomForDialed
<1>6. Frames
  BY DEF Init, Frames, PumpsMaySend, ClientsNotAnnounced, Ids
<1>7. NoOrphanSocket /\ SnapshotInUse /\ RunInOrder
  BY DEF Init, NoOrphanSocket, SnapshotInUse, RunInOrder
<1> QED
  BY <1>3, <1>4, <1>5, <1>6, <1>7 DEF IInv, TypeOK

\* Every step keeps the inductive invariant.
LEMMA NextInvariant == IInv /\ [Next]_vars => IInv'
<1> SUFFICES ASSUME IInv, [Next]_vars PROVE IInv'
  OBVIOUS
<1>1. Types' /\ FreshIds'
  BY TypesStep, FreshStep DEF IInv, TypeOK
<1>2. WithinCaps' /\ RoomForDialed'
  BY CapsStep DEF IInv
<1>3. Frames'
  BY FramesStep DEF IInv, TypeOK, FrameSteps
<1>4. NoOrphanSocket' /\ SnapshotInUse'
  BY SocketsStep DEF IInv, TypeOK
<1>5. RunInOrder'
  BY RunStepsInOrder DEF IInv
<1> QED
  BY <1>1, <1>2, <1>3, <1>4, <1>5 DEF IInv, TypeOK

\* The inductive invariant of a session that is up.
LEMMA Inductive == Spec => []IInv
BY InitInvariant, NextInvariant, PTL DEF Spec

\* The variables keep their types and the caps on live streams are never exceeded,
\* although the client cap is read before a dial and the stream registered after it.
THEOREM TypeCorrect == Spec => []TypeOK
<1>1. IInv => TypeOK
  BY DEF IInv
<1> QED
  BY <1>1, Inductive, PTL

\* No socket of a peer or of PvPGN is left open without anybody bound to close it, and
\* nothing is registered with a session that was torn down.
THEOREM SocketsOwned == Spec => []NoOrphanSocket
<1>1. IInv => NoOrphanSocket
  BY DEF IInv
<1> QED
  BY <1>1, Inductive, PTL

\* The port goes back to the pool only after the listener is closed and both loops
\* have ended.
THEOREM PortComesBackQuiet == Spec => []PortGivenBackQuietly
<1>1. IInv => PortGivenBackQuietly
  BY DEF IInv, RunInOrder, PortGivenBackQuietly, TypeOK, Types, RunPlaces
<1> QED
  BY <1>1, Inductive, PTL

\* On every stream the host sees OPEN before data, for a joiner only, and nothing after
\* CLOSE, whatever the pumps, the reader and the accept loop do at the same time.
THEOREM FramesKeepOrder == Spec => FramesInOrder
<1>1. IInv /\ [Next]_vars =>
        [\A id \in Ids : lastFrame'[id] # lastFrame[id] =>
                            lastFrame'[id] \in NextFrames(id, lastFrame[id])]_lastFrame
  BY FramesStep DEF IInv, TypeOK, FrameSteps, InOrder
<1> QED
  BY <1>1, Inductive, PTL DEF Spec, FramesInOrder
-----------------------------------------------------------------------------
(* A session that is up is one that RelayServer allows. *)

\* The place of this session in RelayServer is its stage.
LEMMA StageIs ==
  /\ run = "wait" => stage = "up"
  /\ run = "closeLn" => stage = "closeLn"
  /\ run = "release" => stage = "freePort"
  /\ run = "closeTun" => stage = "closeTun"
  /\ run = "returned" => stage = "freeSlot"
  /\ run' = "closeLn" => stage' = "closeLn"
  /\ run' = "release" => stage' = "freePort"
  /\ run' = "closeTun" => stage' = "closeTun"
  /\ run' = "returned" => stage' = "freeSlot"
BY DEF stage

\* The steps the daemon can tell from none.
LEMMA SeenFromOutside ==
  [Next]_vars => \/ RunWorks \/ TeardownClosesLn \/ HostFallsSilent
                 \/ UNCHANGED <<run, lnOpen, portHeld, gone>>
<1> USE DEF host
<1>1. ReaderWorks \/ HostSends => UNCHANGED <<run, lnOpen, portHeld, gone>>
  BY DEF ReaderWorks, DialOK, DialFails, AddConn, RefuseOpen, DropConn, SendPong, ReadFails,
       HostSends, ReadOpen, ReadForeignOpen, ReadPing, ReadGameOver, ReadData, ReadClose, ReaderEnds,
       ReaderStep
<1>2. AcceptorWorks \/ AcceptJoiner \/ AcceptFails => UNCHANGED <<run, lnOpen, portHeld, gone>>
  BY DEF AcceptorWorks, AdmitJoiner, Announce, UndoJoiner, AcceptFails, AcceptJoiner,
       AcceptorStep, AcceptorEnds
<1>3. TeardownWorks => TeardownClosesLn \/ UNCHANGED <<run, lnOpen, portHeld, gone>>
  BY DEF TeardownWorks, TeardownWakes, TeardownClosesTun, TeardownTakesAll, TeardownEnds,
       TeardownShutsOne, TeardownStep
<1>4. ASSUME NEW id \in Ids,
             PumpWorks(id) \/ PumpReads(id) \/ PumpReadFails(id) \/ WriterFails(id)
      PROVE  UNCHANGED <<run, lnOpen, portHeld, gone>>
  BY <1>4 DEF PumpWorks, PumpReads, PumpReadFails, PumpSends, PumpSaysBye, PumpRemoves, PumpStep,
       WriterFails, internal, goroutines
<1>5. Blocked \/ HostStalls \/ TunnelBreaks \/ Cancel \/ UNCHANGED vars
        => UNCHANGED <<run, lnOpen, portHeld, gone>>
  BY DEF Blocked, SendBlocks, HostStalls, TunnelBreaks, Cancel, internal, goroutines, vars
<1> QED
  BY <1>1, <1>2, <1>3, <1>4, <1>5 DEF Next

\* Every step of a session's goroutines is one of RelayServer's, or none.
LEMMA ServerStep == IInv /\ [Next]_vars => [Server!Next]_(Server!vars)
<1> SUFFICES ASSUME IInv, [Next]_vars PROVE [Server!Next]_(Server!vars)
  OBVIOUS
<1> USE StageIs
<1>1. CASE UNCHANGED <<run, lnOpen, portHeld, gone>>
  BY <1>1 DEF Server!vars, stage
<1>2. CASE RunWakes
  <2>1. Server!SessionEnds(1)
    BY <1>2 DEF RunWakes, RunStep, host, Server!SessionEnds, Server!Goto, Server!FirstDeferred,
         Server!pool, Server!slots
  <2> QED
    BY <2>1 DEF Server!Next, Server!Environment
<1>3. CASE RunClosesLn
  <2>1. Server!CloseLn(1)
    BY <1>3 DEF RunClosesLn, RunStep, host, Server!CloseLn, Server!Goto, Server!pool, Server!slots
  <2> QED
    BY <2>1 DEF Server!Next, Server!Progress
<1>4. CASE RunReleases
  <2>1. portHeld
    BY <1>4 DEF RunReleases, RunStep, IInv, RunInOrder
  <2>2. Server!FreePort(1)
    <3>1. /\ stage = "freePort" /\ stage' = "closeTun"
          /\ ~portHeld' /\ UNCHANGED <<lnOpen, gone>>
      BY <1>4 DEF RunReleases, RunStep, host
    <3>2. [c \in {1} |-> stage'] = [[c \in {1} |-> stage] EXCEPT ![1] = "closeTun"]
      BY <3>1
    <3>3. [c \in {1} |-> IF portHeld' THEN 6200 ELSE 0]
            = [[c \in {1} |-> IF portHeld THEN 6200 ELSE 0] EXCEPT ![1] = 0]
      BY <2>1, <3>1
    <3>4. /\ (IF portHeld' THEN <<>> ELSE <<6200>>) = Append(IF portHeld THEN <<>> ELSE <<6200>>, 6200)
          /\ (IF portHeld' THEN {6200} ELSE {}) = (IF portHeld THEN {6200} ELSE {}) \ {6200}
      BY <2>1, <3>1
    <3> QED
      BY <2>1, <3>1, <3>2, <3>3, <3>4 DEF Server!FreePort, Server!PoolRelease,
           Server!Goto, Server!NoPort, Server!pool, Server!slots
  <2> QED
    BY <2>2 DEF Server!Next, Server!Progress
<1>5. CASE RunClosesTun
  <2>1. Server!CloseTun(1)
    BY <1>5 DEF RunClosesTun, RunStep, host, Server!CloseTun, Server!Goto, Server!pool, Server!slots
  <2> QED
    BY <2>1 DEF Server!Next, Server!Progress
<1>6. CASE TeardownClosesLn
  <2>1. CASE ~lnOpen
    BY <1>6, <2>1 DEF TeardownClosesLn, TeardownStep, host, Server!vars, stage
  <2>2. CASE lnOpen
    <3>1. run \in {"wait", "closeLn"} /\ run' = run
      BY <1>6, <2>2 DEF TeardownClosesLn, TeardownStep, IInv, RunInOrder
    <3>2. stage' = stage
      BY <3>1 DEF stage
    <3>3. Server!TeardownClosesLn(1)
      BY <1>6, <2>2, <3>1, <3>2 DEF TeardownClosesLn, TeardownStep, host, Server!TeardownClosesLn,
           Server!pool, Server!slots
    <3> QED
      BY <3>3 DEF Server!Next, Server!Environment
  <2> QED
    BY <2>1, <2>2
<1>7. CASE HostFallsSilent
  <2>1. run \in RunPlaces /\ run' = run
    BY <1>7 DEF HostFallsSilent, internal, goroutines, IInv, TypeOK, Types
  <2>2. stage' = stage
    BY <2>1 DEF stage
  <2>3. Server!FallSilent(1)
    BY <1>7, <2>1, <2>2 DEF HostFallsSilent, internal, goroutines, RunPlaces, Server!FallSilent,
         Server!HasSlot, Server!pool, Server!slots
  <2> QED
    BY <2>3 DEF Server!Next, Server!Environment
<1> QED
  BY <1>1, <1>2, <1>3, <1>4, <1>5, <1>6, <1>7, SeenFromOutside DEF RunWorks

\* However many streams a session carries, the daemon sees steps that RelayServer has:
\* what RelayServer's theorems say of a session that is up holds of this one.
THEOREM SessionFitsServer == Spec => FitsServer
BY Inductive, ServerStep, PTL DEF Spec, FitsServer
=============================================================================
