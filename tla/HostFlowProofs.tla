---------------------------- MODULE HostFlowProofs ----------------------------
(***************************************************************************)
(* For any number of copies of the launcher on one machine: who holds the  *)
(* gateway port and a tunnel, whose port the game is given, and that the   *)
(* watch does not end the hosting while the game is played.                *)
(***************************************************************************)
EXTENDS HostFlow, TLAPS

\* A copy before the guard has nothing.
NothingYet ==
  \A l \in Launchers : pc[l] \in {"idle", "listen"} => gate # l /\ tunnel[l] = "none"

\* SetHostPort comes before the registry.
BridgedFirst ==
  \A l \in Launchers :
    pc[l] \in {"configure", "setPort", "choose", "launch", "serve"} => hostPort[l] = "port"

Held == Unwound /\ NothingYet /\ BridgedFirst /\ PortIsMine
IInv == TypeOK /\ Held
-----------------------------------------------------------------------------
(* Types. *)

Places == {"idle"} \cup Relayed \cup Direct \cup AtEnd
Watch == [at : {"off", "appear", "pause", "poll"}, looks : 0..Window, misses : 0..1,
          tracks : BOOLEAN, blip : BOOLEAN]

\* A step of copy l changes l's places and what l shares in these ways only.
Shape(l) ==
  /\ pc' = pc \/ \E where \in Places : pc' = [pc EXCEPT ![l] = where]
  /\ gate' \in {gate, l, Nobody} /\ gamePort' \in {gamePort, l}
  /\ hostPort' = hostPort \/ hostPort' = [hostPort EXCEPT ![l] = "port"]
  /\ tunnel' = tunnel
       \/ \E state \in {"none", "up", "lost"} : tunnel' = [tunnel EXCEPT ![l] = state]
  /\ ctx' = ctx \/ ctx' = [ctx EXCEPT ![l] = TRUE]
  /\ gateway' \in {gateway, "realm", "local"} /\ desktop' = desktop
  /\ started' = started \/ \E state \in {"runs", "exited"} : started' = [started EXCEPT ![l] = state]
  /\ game' = game
       \/ \E state \in {"runs", "lingers", "over"} : game' = [game EXCEPT ![l] = state]
  /\ watch' = watch \/ \E w \in Watch : watch' = [watch EXCEPT ![l] = w]

\* The watch's record keeps its type whichever fields a step sets.
LEMMA WatchFields ==
  ASSUME NEW w \in Watch, NEW a \in {"off", "appear", "pause", "poll"}, NEW n \in 0..Window,
         NEW m \in 0..1, NEW t \in BOOLEAN, NEW b \in BOOLEAN
  PROVE  /\ NoWatch \in Watch /\ [w EXCEPT !.at = a] \in Watch
         /\ [w EXCEPT !.at = a, !.blip = b] \in Watch
         /\ [w EXCEPT !.at = a, !.tracks = t] \in Watch
         /\ [w EXCEPT !.looks = n, !.blip = b] \in Watch
         /\ [w EXCEPT !.misses = m, !.blip = b] \in Watch
<1> USE FlowAssumption DEF FlowAssumption, Watch, NoWatch
<1>1. NoWatch \in Watch
  OBVIOUS
<1>2. [w EXCEPT !.at = a] \in Watch
  OBVIOUS
<1>3. [w EXCEPT !.at = a, !.blip = b] \in Watch
  OBVIOUS
<1>4. [w EXCEPT !.at = a, !.tracks = t] \in Watch
  OBVIOUS
<1>5. [w EXCEPT !.looks = n, !.blip = b] \in Watch
  OBVIOUS
<1>6. [w EXCEPT !.misses = m, !.blip = b] \in Watch
  OBVIOUS
<1> QED
  BY <1>1, <1>2, <1>3, <1>4, <1>5, <1>6

\* Steps of run and connectViaRelay have the shape.
LEMMA RunsShape ==
  ASSUME TypeOK, NEW l \in Launchers, Runs(l)
  PROVE  Shape(l)
<1> USE DEF Goes, Unwind, Fails, Relayed, Direct, AtEnd, Places, registry, env, processes, Shape
<1>1. NoWatch \in Watch /\ watch[l] \in Watch /\ [watch[l] EXCEPT !.at = "appear"] \in Watch
  <2>1. watch[l] \in Watch
    BY DEF TypeOK, Watch
  <2>2. 0 \in 0..Window /\ 0 \in 0..1 /\ TRUE \in BOOLEAN
    BY FlowAssumption DEF FlowAssumption
  <2> QED
    BY <2>1, <2>2, WatchFields
<1>2. CASE Listen(l)
  BY <1>2 DEF Listen
<1>3. CASE Connects(l) \/ ConnectFails(l)
  BY <1>3 DEF Connects, ConnectFails
<1>4. CASE Acked(l) \/ DialOK(l) \/ HelloFails(l) \/ CutDial(l)
  BY <1>4 DEF Acked, DialOK, HelloFails, CutDial
<1>5. CASE SetHostPort(l) \/ Configure(l) \/ SetGamePort(l)
  BY <1>5 DEF SetHostPort, Configure, SetGamePort
<1>6. CASE ChoiceCancelled(l) \/ ConfigureDirect(l)
  BY <1>6 DEF ChoiceCancelled, ConfigureDirect
<1>7. CASE Launch(l)
  BY <1>1, <1>7 DEF Launch
<1>8. CASE ServeEnds(l)
  BY <1>1, <1>8 DEF ServeEnds
<1>9. CASE LaunchDirect(l)
  BY <1>9 DEF LaunchDirect
<1> QED
  BY <1>2, <1>3, <1>4, <1>5, <1>6, <1>7, <1>8, <1>9 DEF Runs

\* Steps of WaitForGameExit have the shape.
LEMMA WatchShape ==
  ASSUME TypeOK, NEW l \in Launchers, WatchWorks(l)
  PROVE  Shape(l)
<1> USE DEF Watches, WatchReturns, registry, processes, Shape
<1>1. /\ watch[l] \in Watch /\ NoWatch \in Watch /\ 0 \in 0..1 /\ 1 \in 0..1
      /\ 0 \in 0..Window /\ TRUE \in BOOLEAN /\ FALSE \in BOOLEAN /\ gameRunning \in BOOLEAN
      /\ (started[l] = "runs") \in BOOLEAN
      /\ watch[l].looks < Window => watch[l].looks + 1 \in 0..Window
  <2>1. watch[l] \in Watch /\ 0 \in 0..1 /\ 1 \in 0..1 /\ 0 \in 0..Window
    BY FlowAssumption DEF FlowAssumption, TypeOK, Watch
  <2>2. watch[l].looks < Window => watch[l].looks + 1 \in 0..Window
    BY <2>1, FlowAssumption DEF FlowAssumption, Watch
  <2>3. TRUE \in BOOLEAN /\ FALSE \in BOOLEAN /\ gameRunning \in BOOLEAN
        /\ (started[l] = "runs") \in BOOLEAN
    BY DEF gameRunning
  <2>4. NoWatch \in Watch
    BY <2>1, <2>3, WatchFields
  <2> QED
    BY <2>1, <2>2, <2>3, <2>4
<1>2. CASE Appear(l)
  <2>1. [watch[l] EXCEPT !.at = "pause", !.blip = FALSE] \in Watch
    BY <1>1, WatchFields
  <2>2. [watch[l] EXCEPT !.looks = @ + 1, !.blip = gameRunning] \in Watch
    <3>1. watch[l].looks + 1 \in 0..Window
      BY <1>1, <1>2 DEF Appear
    <3> QED
      BY <1>1, <3>1, WatchFields
  <2> QED
    BY <1>2, <2>1, <2>2 DEF Appear
<1>3. CASE LookAtStarted(l)
  <2>1. [watch[l] EXCEPT !.at = "poll", !.tracks = (started[l] = "runs")] \in Watch
    BY <1>1, WatchFields
  <2> QED
    BY <1>3, <2>1 DEF LookAtStarted
<1>4. CASE NeverAppeared(l) \/ StartedExits(l)
  BY <1>1, <1>4 DEF NeverAppeared, StartedExits
<1>5. CASE Hit(l)
  <2>1. [watch[l] EXCEPT !.misses = 0, !.blip = FALSE] \in Watch
    BY <1>1, WatchFields
  <2> QED
    BY <1>5, <2>1 DEF Hit
<1>6. CASE Miss(l)
  <2>1. [watch[l] EXCEPT !.misses = 1, !.blip = gameRunning] \in Watch
    BY <1>1, WatchFields
  <2> QED
    BY <1>1, <1>6, <2>1 DEF Miss
<1> QED
  BY <1>2, <1>3, <1>4, <1>5, <1>6 DEF WatchWorks

\* So have those of the player, the processes and the network.
LEMMA WorldShape ==
  ASSUME TypeOK, NEW l \in Launchers, Player(l) \/ World(l)
  PROVE  Shape(l)
<1> USE DEF Goes, Unwind, Fails, Dies, Relayed, Direct, AtEnd, Places, registry, env, processes,
            launchers, Shape
<1>1. NoWatch \in Watch
  <2>1. watch[l] \in Watch /\ 0 \in 0..1 /\ 0 \in 0..Window /\ TRUE \in BOOLEAN
    BY FlowAssumption DEF FlowAssumption, TypeOK, Watch
  <2> QED
    BY <2>1, WatchFields
<1>2. CASE Start(l) \/ Answer(l) \/ AnswerDirect(l)
  BY <1>2 DEF Start, Answer, AnswerDirect
<1>3. CASE CtrlC(l) \/ WindowCloses(l)
  BY <1>1, <1>3 DEF CtrlC, WindowCloses
<1>4. CASE AcceptFails(l)
  BY <1>1, <1>4 DEF AcceptFails
<1>5. CASE TunnelBreaks(l) \/ GameStarts(l) \/ StartedEnds(l) \/ GameCloses(l)
  BY <1>5 DEF TunnelBreaks, GameStarts, StartedEnds, GameCloses
<1> QED
  BY <1>2, <1>3, <1>4, <1>5 DEF Player, World

\* Every step is one copy's, or none.
LEMMA NextShape ==
  ASSUME TypeOK, [Next]_vars
  PROVE  UNCHANGED vars \/ \E l \in Launchers : Shape(l)
BY RunsShape, WatchShape, WorldShape DEF Next

\* Steps of that shape keep the types.
LEMMA TypesStep == TypeOK /\ [Next]_vars => TypeOK'
<1> SUFFICES ASSUME TypeOK, [Next]_vars PROVE TypeOK'
  OBVIOUS
<1>1. CASE UNCHANGED vars
  BY <1>1 DEF vars, registry, processes, TypeOK
<1>2. ASSUME NEW l \in Launchers, Shape(l)
      PROVE  TypeOK'
  <2>1. pc' \in [Launchers -> Places]
    BY <1>2 DEF TypeOK, Shape, Places
  <2>2. gate' \in Launchers \cup {Nobody} /\ gamePort' \in Launchers \cup {Nobody}
        /\ gateway' \in {"realm", "local"} /\ desktop' = desktop
    BY <1>2 DEF TypeOK, Shape
  <2>3. hostPort' \in [Launchers -> {"default", "port"}]
    BY <1>2 DEF TypeOK, Shape
  <2>4. tunnel' \in [Launchers -> {"none", "up", "lost"}]
    <3>1. tunnel \in [Launchers -> {"none", "up", "lost"}]
      BY DEF TypeOK
    <3>2. tunnel' = tunnel
            \/ \E state \in {"none", "up", "lost"} : tunnel' = [tunnel EXCEPT ![l] = state]
      BY <1>2 DEF Shape
    <3> QED
      BY <3>1, <3>2
  <2>7. started' \in [Launchers -> {"none", "runs", "exited"}]
    <3>1. started \in [Launchers -> {"none", "runs", "exited"}]
      BY DEF TypeOK
    <3>2. started' = started
            \/ \E state \in {"runs", "exited"} : started' = [started EXCEPT ![l] = state]
      BY <1>2 DEF Shape
    <3> QED
      BY <3>1, <3>2
  <2>8. game' \in [Launchers -> {"none", "runs", "lingers", "over"}]
    <3>1. game \in [Launchers -> {"none", "runs", "lingers", "over"}]
      BY DEF TypeOK
    <3>2. game' = game
            \/ \E state \in {"runs", "lingers", "over"} : game' = [game EXCEPT ![l] = state]
      BY <1>2 DEF Shape
    <3> QED
      BY <3>1, <3>2
  <2>5. ctx' \in [Launchers -> BOOLEAN]
    <3>1. ctx \in [Launchers -> BOOLEAN] /\ TRUE \in BOOLEAN
      BY Zenon DEF TypeOK
    <3>2. ctx' = ctx \/ ctx' = [ctx EXCEPT ![l] = TRUE]
      BY <1>2 DEF Shape
    <3> HIDE DEF TypeOK
    <3> QED
      BY <3>1, <3>2
  <2>6. watch' \in [Launchers -> Watch]
    <3>1. watch \in [Launchers -> Watch]
      BY Zenon DEF TypeOK, Watch
    <3>2. watch' = watch \/ \E w \in Watch : watch' = [watch EXCEPT ![l] = w]
      BY <1>2 DEF Shape
    <3> QED
      BY <3>1, <3>2
  <2> QED
    BY <2>1, <2>2, <2>3, <2>4, <2>5, <2>6, <2>7, <2>8, ZenonT(30) DEF TypeOK, Places, Watch
<1> QED
  BY <1>1, <1>2, NextShape
-----------------------------------------------------------------------------
(* Who holds what. *)

Functions == /\ pc \in [Launchers -> Places] /\ tunnel \in [Launchers -> {"none", "up", "lost"}]
             /\ hostPort \in [Launchers -> {"default", "port"}]

\* Every way out of connectViaRelay, and the end of the process.
LEMMA UnwindHeld ==
  ASSUME Held, Functions, NEW l \in Launchers, NEW where \in Direct \cup AtEnd,
         Goes(l, where), Unwind(l), UNCHANGED <<gamePort, hostPort>>
  PROVE  Held'
<1> USE FlowAssumption DEF FlowAssumption, Held, Functions, Goes, Unwind, Relayed, Direct, AtEnd, Places
<1>1. Unwound'
  BY DEF Unwound
<1>2. NothingYet'
  BY DEF NothingYet
<1>3. BridgedFirst' /\ PortIsMine'
  BY DEF BridgedFirst, PortIsMine
<1> QED
  BY <1>1, <1>2, <1>3

\* A copy that has the gateway port goes on with its next step.
LEMMA GoOnHeld ==
  ASSUME Held, Functions, NEW l \in Launchers, NEW where \in Relayed \ {"listen"},
         pc[l] \in Relayed \ {"listen"}, Goes(l, where), UNCHANGED gate,
         tunnel' = tunnel \/ \E state \in {"up", "lost"} : tunnel' = [tunnel EXCEPT ![l] = state],
         hostPort' = hostPort \/ hostPort' = [hostPort EXCEPT ![l] = "port"],
         gamePort' \in {gamePort, l},
         where \in {"configure", "setPort", "choose", "launch", "serve"} => hostPort'[l] = "port",
         where \in {"choose", "launch", "serve"} => gamePort' = l
  PROVE  Held'
<1> USE FlowAssumption DEF FlowAssumption, Held, Functions, Goes, Relayed, Direct, AtEnd, Places
<1>1. gate = l
  BY DEF Unwound
<1>2. Unwound'
  BY <1>1 DEF Unwound
<1>3. NothingYet'
  BY DEF NothingYet
<1>4. BridgedFirst'
  BY DEF BridgedFirst
<1>5. PortIsMine'
  <2>1. \A o \in Launchers \ {l} : pc[o] \notin Relayed \ {"listen"}
    BY <1>1 DEF Unwound
  <2>2. pc'[l] = where /\ \A o \in Launchers \ {l} : pc'[o] = pc[o]
    OBVIOUS
  <2> QED
    BY <2>1, <2>2, <1>4 DEF PortIsMine, BridgedFirst
<1> QED
  BY <1>2, <1>3, <1>4, <1>5

\* A copy that holds nothing goes elsewhere without it.
LEMMA BareHeld ==
  ASSUME Held, Functions, NEW l \in Launchers, NEW where \in {"listen"} \cup Direct \cup AtEnd,
         pc[l] \in {"idle", "listen"} \cup Direct, Goes(l, where),
         UNCHANGED <<gate, tunnel, gamePort, hostPort>>
  PROVE  Held'
<1> USE FlowAssumption DEF FlowAssumption, Held, Functions, Goes, Relayed, Direct, AtEnd, Places
<1>1. gate # l /\ tunnel[l] = "none"
  BY DEF Unwound, NothingYet
<1>2. Unwound'
  BY <1>1 DEF Unwound
<1>3. NothingYet'
  BY <1>1 DEF NothingYet
<1>4. BridgedFirst' /\ PortIsMine'
  BY DEF BridgedFirst, PortIsMine
<1> QED
  BY <1>2, <1>3, <1>4

\* Nobody moves; a tunnel that is up may break.
LEMMA StayHeld ==
  ASSUME Held, Functions, NEW l \in Launchers, UNCHANGED <<pc, gate, gamePort, hostPort>>,
         tunnel' = tunnel \/ (tunnel[l] = "up" /\ tunnel' = [tunnel EXCEPT ![l] = "lost"])
  PROVE  Held'
<1> USE DEF Held, Functions
<1>1. Unwound'
  BY DEF Unwound
<1>2. NothingYet'
  BY DEF NothingYet
<1>3. BridgedFirst' /\ PortIsMine'
  BY DEF BridgedFirst, PortIsMine
<1> QED
  BY <1>1, <1>2, <1>3

\* Every step of every copy keeps what is held in order.
LEMMA HeldStep ==
  ASSUME TypeOK, Held, [Next]_vars
  PROVE  Held'
<1> USE DEF Fails, registry, env, processes
<1>0. Functions
  BY DEF TypeOK, Functions, Places
<1>1. ASSUME NEW l \in Launchers, Runs(l)
      PROVE  Held'
  <2>1. CASE Listen(l)
    <3>1. CASE gate = Nobody
      <4>1. pc[l] = "listen" /\ Goes(l, "dial") /\ gate' = l /\ UNCHANGED <<tunnel, gamePort, hostPort>>
        BY <2>1, <3>1 DEF Listen
      <4>2. \A o \in Launchers : pc[o] \notin Relayed \ {"listen"}
        BY <3>1, FlowAssumption DEF FlowAssumption, Held, Unwound
      <4>3. pc'[l] = "dial" /\ \A o \in Launchers \ {l} : pc'[o] = pc[o] /\ gate' # o
        BY <1>0, <4>1 DEF Functions, Goes
      <4>4. Unwound'
        BY <4>1, <4>2, <4>3 DEF Held, Unwound, Direct, AtEnd, Relayed
      <4>5. NothingYet'
        BY <4>1, <4>3 DEF Held, NothingYet
      <4>6. BridgedFirst' /\ PortIsMine'
        BY <4>1, <4>3 DEF Held, BridgedFirst, PortIsMine
      <4> QED
        BY <4>4, <4>5, <4>6 DEF Held
    <3>2. CASE gate # Nobody
      <4>1. /\ pc[l] = "listen" /\ Goes(l, "prompt")
            /\ UNCHANGED <<gate, tunnel, gamePort, hostPort>>
        BY <2>1, <3>2 DEF Listen
      <4> QED
        BY <1>0, <4>1, BareHeld DEF AtEnd
    <3> QED
      BY <3>1, <3>2
  <2>2. CASE Connects(l)
    <3>1. /\ pc[l] = "dial" /\ Goes(l, "hello") /\ tunnel' = [tunnel EXCEPT ![l] = "up"]
          /\ UNCHANGED <<gate, gamePort, hostPort>>
      BY <2>2 DEF Connects
    <3> QED
      BY <1>0, <3>1, GoOnHeld DEF Relayed
  <2>3. CASE Acked(l) \/ DialOK(l)
    <3>1. /\ pc[l] \in {"hello", "vet"} /\ UNCHANGED <<gate, tunnel, gamePort, hostPort>>
          /\ \E where \in {"vet", "setHostPort"} : Goes(l, where)
      BY <2>3 DEF Acked, DialOK
    <3> QED
      BY <1>0, <3>1, GoOnHeld DEF Relayed
  <2>9. CASE SetHostPort(l)
    <3>1. /\ pc[l] = "setHostPort" /\ Goes(l, "configure") /\ UNCHANGED <<gate, tunnel, gamePort>>
          /\ hostPort' = [hostPort EXCEPT ![l] = "port"]
      BY <2>9 DEF SetHostPort
    <3>2. hostPort'[l] = "port"
      BY <1>0, <3>1 DEF Functions
    <3> QED
      BY <1>0, <3>1, <3>2, GoOnHeld DEF Relayed
  <2>4. CASE CutDial(l)
    <3>1. /\ tunnel[l] = "up" /\ tunnel' = [tunnel EXCEPT ![l] = "lost"]
          /\ UNCHANGED <<pc, gate, gamePort, hostPort>>
      BY <2>4 DEF CutDial
    <3> QED
      BY <1>0, <3>1, StayHeld
  <2>5. CASE \E where \in Direct \cup AtEnd : Fails(l, where)
    BY <1>0, <2>5, UnwindHeld
  <2>6. CASE Configure(l) \/ SetGamePort(l) \/ Launch(l)
    <3>1. CASE \E where \in Direct \cup AtEnd : Fails(l, where)
      BY <2>5, <3>1
    <3>2. CASE ~ \E where \in Direct \cup AtEnd : Fails(l, where)
      <4>1. /\ pc[l] \in {"configure", "setPort", "launch"} /\ UNCHANGED <<gate, tunnel, hostPort>>
            /\ \E where \in {"setPort", "choose", "serve"} :
                 /\ Goes(l, where) /\ gamePort' \in {gamePort, l}
                 /\ where = "choose" => gamePort' = l
                 /\ where = "serve" => pc[l] = "launch" /\ gamePort' = gamePort
        <5>1. "prompt" \in Direct \cup AtEnd
          BY DEF AtEnd
        <5>2. ~ Fails(l, "prompt")
          BY <3>2, <5>1
        <5>3. CASE Configure(l)
          BY <5>2, <5>3 DEF Configure
        <5>4. CASE SetGamePort(l)
          BY <5>2, <5>4 DEF SetGamePort
        <5>5. CASE Launch(l)
          BY <5>2, <5>5 DEF Launch
        <5> QED
          BY <2>6, <5>3, <5>4, <5>5
      <4>2. PICK where \in {"setPort", "choose", "serve"} :
                 /\ Goes(l, where) /\ gamePort' \in {gamePort, l}
                 /\ where = "choose" => gamePort' = l
                 /\ where = "serve" => pc[l] = "launch" /\ gamePort' = gamePort
        BY <4>1
      <4>3. hostPort'[l] = "port"
        BY <4>1 DEF Held, BridgedFirst
      <4>4. where \in {"choose", "launch", "serve"} => gamePort' = l
        BY <4>2 DEF Held, PortIsMine
      <4> QED
        BY <1>0, <4>1, <4>2, <4>3, <4>4, GoOnHeld DEF Relayed
    <3> QED
      BY <3>1, <3>2
  <2>7. CASE ConfigureDirect(l) \/ LaunchDirect(l)
    <3>1. /\ pc[l] \in Direct /\ UNCHANGED <<gate, tunnel, gamePort, hostPort>>
          /\ \E where \in {"chooseDirect", "prompt", "exited"} : Goes(l, where)
      BY <2>7 DEF ConfigureDirect, LaunchDirect, Direct
    <3> QED
      BY <1>0, <3>1, BareHeld DEF Direct, AtEnd
  <2>8. ConnectFails(l) \/ HelloFails(l) \/ ChoiceCancelled(l) \/ ServeEnds(l)
          => \E where \in Direct \cup AtEnd : Fails(l, where)
    BY DEF ConnectFails, HelloFails, ChoiceCancelled, ServeEnds, Direct, AtEnd
  <2> QED
    BY <1>1, <2>1, <2>2, <2>3, <2>4, <2>5, <2>6, <2>7, <2>8, <2>9 DEF Runs
<1>2. ASSUME NEW l \in Launchers, WatchWorks(l)
      PROVE  Held'
  <2>1. UNCHANGED <<pc, gate, tunnel, gamePort, hostPort>>
    BY <1>2 DEF WatchWorks, Appear, NeverAppeared, LookAtStarted, StartedExits, Hit, Miss, Watches,
                WatchReturns
  <2> QED
    BY <1>0, <2>1, StayHeld
<1>3. ASSUME NEW l \in Launchers, Player(l)
      PROVE  Held'
  <2>1. CASE Dies(l)
    <3>1. Goes(l, "exited") /\ Unwind(l) /\ UNCHANGED <<gamePort, hostPort>>
      BY <2>1 DEF Dies, Unwind
    <3> QED
      BY <1>0, <3>1, UnwindHeld DEF AtEnd
  <2>2. CASE Start(l) \/ AnswerDirect(l)
    <3>1. /\ pc[l] \in {"idle", "chooseDirect"} /\ UNCHANGED <<gate, tunnel, gamePort, hostPort>>
          /\ \E where \in {"listen", "configureDirect", "launchDirect"} : Goes(l, where)
      BY <2>2 DEF Start, AnswerDirect
    <3> QED
      BY <1>0, <3>1, BareHeld DEF Direct
  <2>3. CASE Answer(l)
    <3>1. /\ pc[l] = "choose" /\ Goes(l, "launch") /\ UNCHANGED <<gate, tunnel, gamePort, hostPort>>
      BY <2>3 DEF Answer
    <3>2. hostPort'[l] = "port" /\ gamePort' = l
      BY <3>1 DEF Held, PortIsMine
    <3> QED
      BY <1>0, <3>1, <3>2, GoOnHeld DEF Relayed
  <2>4. CASE UNCHANGED <<pc, gate, tunnel, gamePort, hostPort>>
    BY <1>0, <2>4, StayHeld
  <2> QED
    BY <1>3, <2>1, <2>2, <2>3, <2>4 DEF Player, CtrlC, WindowCloses, GameCloses, launchers
<1>4. ASSUME NEW l \in Launchers, World(l)
      PROVE  Held'
  <2>1. CASE AcceptFails(l)
    <3>1. Goes(l, "prompt") /\ Unwind(l) /\ UNCHANGED <<gamePort, hostPort>>
      BY <2>1 DEF AcceptFails
    <3> QED
      BY <1>0, <3>1, UnwindHeld DEF AtEnd
  <2>2. CASE TunnelBreaks(l) \/ GameStarts(l) \/ StartedEnds(l)
    <3>1. /\ UNCHANGED <<pc, gate, gamePort, hostPort>>
          /\ tunnel' = tunnel \/ (tunnel[l] = "up" /\ tunnel' = [tunnel EXCEPT ![l] = "lost"])
      BY <2>2 DEF TunnelBreaks, GameStarts, StartedEnds, launchers
    <3> QED
      BY <1>0, <3>1, StayHeld
  <2> QED
    BY <1>4, <2>1, <2>2 DEF World
<1>5. CASE UNCHANGED vars
  <2>1. \E l \in Launchers : TRUE
    BY FlowAssumption DEF FlowAssumption
  <2> QED
    BY <1>0, <1>5, <2>1, StayHeld DEF vars
<1> QED
  BY <1>1, <1>2, <1>3, <1>4, <1>5 DEF Next
-----------------------------------------------------------------------------
(* The theorems. *)

\* Before any copy has started, nobody holds anything.
LEMMA InitInvariant == Init => IInv
<1> SUFFICES ASSUME Init PROVE IInv
  OBVIOUS
<1> USE FlowAssumption DEF FlowAssumption, Init
<1>1. NoWatch \in Watch
  BY DEF NoWatch, Watch
<1>2. TypeOK
  <2>1. pc \in [Launchers -> Places] /\ tunnel \in [Launchers -> {"none", "up", "lost"}]
        /\ hostPort \in [Launchers -> {"default", "port"}]
    BY DEF Places
  <2>2. started \in [Launchers -> {"none", "runs", "exited"}]
        /\ game \in [Launchers -> {"none", "runs", "lingers", "over"}]
    OBVIOUS
  <2>3. ctx \in [Launchers -> BOOLEAN] /\ desktop \in BOOLEAN
    BY Zenon
  <2>4. watch \in [Launchers -> Watch]
    BY <1>1
  <2>5. gate \in Launchers \cup {Nobody} /\ gamePort \in Launchers \cup {Nobody}
        /\ gateway \in {"realm", "local"}
    OBVIOUS
  <2> QED
    BY <2>1, <2>2, <2>3, <2>4, <2>5, ZenonT(30) DEF TypeOK, Places, Watch
<1>3. Held
  BY DEF Held, Unwound, NothingYet, BridgedFirst, PortIsMine, Relayed, Direct, AtEnd
<1> QED
  BY <1>2, <1>3 DEF IInv

\* The inductive invariant of the launchers on one machine.
LEMMA Inductive == Spec => []IInv
<1>1. IInv /\ [Next]_vars => IInv'
  BY TypesStep, HeldStep DEF IInv
<1> QED
  BY <1>1, InitInvariant, PTL DEF Spec

\* The launcher's variables keep their types (main.go, client.go).
THEOREM TypeCorrect == Spec => []TypeOK
<1>1. IInv => TypeOK
  BY DEF IInv
<1> QED
  BY <1>1, Inductive, PTL

\* Whatever step fails or is cancelled, in any number of copies, the gateway port and the
\* tunnel are given back (main.go: connectViaRelay).
THEOREM EverythingUnwinds == Spec => []Unwound
<1>1. IInv => Unwound
  BY DEF IInv, Held
<1> QED
  BY <1>1, Inductive, PTL

\* The game of a copy that hosts has the port of that copy's session (main.go: the guard,
\* SetHostPort, SetGamePort).
THEOREM PortStaysMine == Spec => []PortIsMine
<1>1. IInv => PortIsMine
  BY DEF IInv, Held
<1> QED
  BY <1>1, Inductive, PTL

\* Ctrl-C during the relayed way never leads to the direct way (main.go: errCancelled;
\* link.go: dial's fail).
THEOREM CancelStaysFinal == Spec => CancelIsFinal
<1>1. TypeOK /\ [Next]_vars
        => [\A l \in Launchers : ctx[l] /\ pc[l] \in Relayed => pc'[l] \notin Direct]_vars
  <2> SUFFICES ASSUME TypeOK, Next, NEW o \in Launchers, ctx[o], pc[o] \in Relayed
               PROVE  pc'[o] \notin Direct
    OBVIOUS
  <2>1. PICK l \in Launchers : Runs(l) \/ WatchWorks(l) \/ Player(l) \/ World(l)
    BY DEF Next
  <2>2. pc \in [Launchers -> Places] /\ pc[o] \notin Direct
    BY DEF TypeOK, Places, Relayed, Direct
  <2>3. CASE pc'[o] = pc[o]
    BY <2>2, <2>3
  <2>4. CASE l = o
    <3> USE DEF Goes, Fails, Relayed, Direct
    <3>1. \A where : Goes(o, where) => pc'[o] = where
      BY <2>2
    <3>2. CASE Runs(o)
      BY <2>2, <2>3, <3>1, <3>2
         DEF Runs, Listen, Connects, ConnectFails, Acked, DialOK, HelloFails, CutDial, SetHostPort,
             Configure, SetGamePort, ChoiceCancelled, Launch, ServeEnds, ConfigureDirect, LaunchDirect
    <3>3. CASE WatchWorks(o)
      BY <2>2, <3>3 DEF WatchWorks, Appear, NeverAppeared, LookAtStarted, StartedExits, Hit, Miss,
                  Watches, WatchReturns
    <3>4. CASE Player(o)
      BY <2>2, <3>1, <3>4 DEF Player, Start, Answer, AnswerDirect, CtrlC, WindowCloses, GameCloses,
                        Dies, launchers
    <3>5. CASE World(o)
      BY <2>2, <3>1, <3>5 DEF World, AcceptFails, TunnelBreaks, GameStarts, StartedEnds, launchers
    <3> QED
      BY <2>1, <2>4, <3>2, <3>3, <3>4, <3>5
  <2>5. CASE l # o
    <3>1. Shape(l)
      BY <2>1, RunsShape, WatchShape, WorldShape
    <3>2. pc'[o] = pc[o]
      BY <2>2, <2>5, <3>1 DEF Shape
    <3> QED
      BY <2>2, <3>2
  <2> QED
    BY <2>4, <2>5
<1> QED
  BY <1>1, TypeCorrect, PTL DEF Spec, CancelIsFinal
-----------------------------------------------------------------------------
(* The watch. *)

OnlyGame(l) == \A o \in Launchers \ {l} : game[o] = "none"

\* What the watch of copy l knows as long as l's game is the only one there was: it has
\* seen this game; what it tracks is a desktop, as a loader would be gone; a first look
\* that missed the game, and was not a slip, means that the game is over.
Watched(l) ==
  /\ watch[l].at \in {"pause", "poll"} /\ OnlyGame(l) => game[l] # "none"
  /\ watch[l].at = "poll" /\ watch[l].tracks /\ OnlyGame(l) => desktop
  /\ watch[l].at = "poll" /\ watch[l].misses = 1 /\ ~watch[l].blip /\ OnlyGame(l)
       => game[l] = "over"
  /\ watch[l].at # "poll" => watch[l].misses = 0
  /\ pc[l] # "serve" => watch[l].at = "off"
  /\ desktop /\ started[l] = "exited" => game[l] # "runs"

WInv == TypeOK /\ \A l \in Launchers : Watched(l)

\* The fields of the watch's record after a step that sets some of them.
LEMMA WatchReads ==
  ASSUME NEW w \in Watch, NEW a, NEW n, NEW m, NEW t, NEW b
  PROVE  /\ NoWatch.at = "off" /\ NoWatch.misses = 0
         /\ [w EXCEPT !.at = a].at = a /\ [w EXCEPT !.at = a].misses = w.misses
         /\ [w EXCEPT !.at = a, !.blip = b].at = a
         /\ [w EXCEPT !.at = a, !.blip = b].misses = w.misses
         /\ [w EXCEPT !.at = a, !.tracks = t].at = a
         /\ [w EXCEPT !.at = a, !.tracks = t].misses = w.misses
         /\ [w EXCEPT !.at = a, !.tracks = t].tracks = t
         /\ [w EXCEPT !.looks = n, !.blip = b].at = w.at
         /\ [w EXCEPT !.looks = n, !.blip = b].misses = w.misses
         /\ [w EXCEPT !.misses = m, !.blip = b].at = w.at
         /\ [w EXCEPT !.misses = m, !.blip = b].misses = m
         /\ [w EXCEPT !.misses = m, !.blip = b].tracks = w.tracks
         /\ [w EXCEPT !.misses = m, !.blip = b].blip = b
BY DEF Watch, NoWatch

\* What copy l does leaves what the watch of another copy knows as it is: a game that has
\* been there stays a game that was there.
LEMMA OthersWatched ==
  ASSUME TypeOK, NEW l \in Launchers, Shape(l), NEW o \in Launchers, o # l, Watched(o)
  PROVE  Watched(o)'
<1>1. watch'[o] = watch[o]
  BY DEF TypeOK, Shape
<1>2. pc'[o] = pc[o] /\ started'[o] = started[o] /\ game'[o] = game[o] /\ desktop' = desktop
  <2>1. pc'[o] = pc[o]
    BY DEF TypeOK, Shape
  <2>2. started'[o] = started[o]
    BY DEF TypeOK, Shape
  <2>3. game'[o] = game[o]
    BY DEF TypeOK, Shape
  <2> QED
    BY <2>1, <2>2, <2>3 DEF Shape
<1>3. OnlyGame(o)' => OnlyGame(o)
  BY DEF TypeOK, Shape, OnlyGame
<1> QED
  BY <1>1, <1>2, <1>3 DEF Watched

\* A step that starts no game, or ends it, and leaves l's watch alone or stops it.
LEMMA QuietWatched ==
  ASSUME TypeOK, NEW l \in Launchers, Watched(l), desktop' = desktop,
         UNCHANGED <<started, game>>,
         \/ watch' = [watch EXCEPT ![l] = NoWatch]
         \/ UNCHANGED watch /\ (pc[l] = "serve" => pc'[l] = "serve")
  PROVE  Watched(l)'
<1>1. OnlyGame(l)' <=> OnlyGame(l)
  BY DEF OnlyGame
<1>2. CASE watch' = [watch EXCEPT ![l] = NoWatch]
  <2>1. watch'[l].at = "off" /\ watch'[l].misses = 0
    BY <1>2, WatchReads DEF TypeOK, NoWatch
  <2> QED
    BY <2>1 DEF Watched
<1>3. CASE UNCHANGED watch /\ (pc[l] = "serve" => pc'[l] = "serve")
  BY <1>1, <1>3 DEF Watched
<1> QED
  BY <1>2, <1>3

\* Once the game has been seen, and is the only one, it is the one that runs or not.
LEMMA SeenIsMine ==
  ASSUME TypeOK, NEW l \in Launchers, OnlyGame(l)
  PROVE  /\ gameRunning => game[l] \in {"runs", "lingers"}
         /\ ~gameRunning /\ game[l] # "none" => game[l] = "over"
BY DEF OnlyGame, gameRunning, TypeOK

\* The launcher's own steps keep what its watch knows.
LEMMA RunsWatched ==
  ASSUME TypeOK, NEW l \in Launchers, Watched(l), Runs(l)
  PROVE  Watched(l)'
<1> USE DEF Goes, Fails, registry, env, processes
<1>0. pc \in [Launchers -> Places] /\ \A where : Goes(l, where) => pc'[l] = where
  BY DEF TypeOK, Places
<1>1. CASE ServeEnds(l)
  <2>1. watch' = [watch EXCEPT ![l] = NoWatch] /\ UNCHANGED <<started, game, desktop>>
    BY <1>1 DEF ServeEnds
  <2> QED
    BY <2>1, QuietWatched
<1>2. CASE Launch(l)
  <2>1. CASE UNCHANGED <<started, watch>>
    <3>1. pc[l] = "launch" /\ UNCHANGED <<started, game, watch, desktop>>
      BY <1>2, <2>1 DEF Launch
    <3> QED
      BY <3>1, QuietWatched
  <2>2. CASE ~ UNCHANGED <<started, watch>>
    <3>1. /\ pc[l] = "launch" /\ started' = [started EXCEPT ![l] = "runs"]
          /\ watch' = [watch EXCEPT ![l].at = "appear"] /\ Goes(l, "serve")
      BY <1>2, <2>2 DEF Launch
    <3>2. watch[l] \in Watch /\ watch'[l] = [watch[l] EXCEPT !.at = "appear"]
      BY <3>1 DEF TypeOK, Watch
    <3>3. watch'[l].at = "appear" /\ watch'[l].misses = watch[l].misses
      BY <3>2, WatchReads
    <3>4. watch[l].misses = 0
      BY <3>1 DEF Watched
    <3>5. started'[l] = "runs" /\ pc'[l] = "serve"
      BY <1>0, <3>1 DEF TypeOK
    <3> QED
      BY <3>3, <3>4, <3>5 DEF Watched
  <2> QED
    BY <2>1, <2>2
<1>3. CASE LaunchDirect(l)
  <2>1. pc[l] = "launchDirect" /\ UNCHANGED <<game, watch, desktop>>
        /\ (started' = started \/ started' = [started EXCEPT ![l] = "runs"])
    BY <1>3 DEF LaunchDirect
  <2>2. watch[l].at = "off" /\ watch[l].misses = 0
    BY <2>1 DEF Watched
  <2>3. started'[l] = started[l] \/ started'[l] = "runs"
    BY <2>1 DEF TypeOK
  <2> QED
    BY <2>1, <2>2, <2>3 DEF Watched
<1>4. CASE \/ Listen(l) \/ Connects(l) \/ ConnectFails(l) \/ Acked(l) \/ DialOK(l)
           \/ HelloFails(l) \/ CutDial(l)
  <2>1. pc[l] # "serve" /\ UNCHANGED <<started, game, watch, desktop>>
    BY <1>4 DEF Listen, Connects, ConnectFails, Acked, DialOK, HelloFails, CutDial
  <2> QED
    BY <2>1, QuietWatched
<1>5. CASE \/ SetHostPort(l) \/ Configure(l) \/ SetGamePort(l) \/ ChoiceCancelled(l)
           \/ ConfigureDirect(l)
  <2>1. pc[l] # "serve" /\ UNCHANGED <<started, game, watch, desktop>>
    BY <1>5 DEF SetHostPort, Configure, SetGamePort, ChoiceCancelled, ConfigureDirect
  <2> QED
    BY <2>1, QuietWatched
<1> QED
  BY <1>1, <1>2, <1>3, <1>4, <1>5 DEF Runs

\* The watch's own steps learn what they claim: a look that finds the game has found l's,
\* and only a desktop is still there to be tracked.
LEMMA WorksWatched ==
  ASSUME TypeOK, NEW l \in Launchers, Watched(l), WatchWorks(l)
  PROVE  Watched(l)'
<1> USE DEF Watches, processes
<1>0. watch[l] \in Watch /\ \A w : watch' = [watch EXCEPT ![l] = w] => watch'[l] = w
  BY DEF TypeOK, Watch
<1>1. UNCHANGED <<pc, started, game, desktop>>
  BY DEF WatchWorks, Appear, NeverAppeared, LookAtStarted, StartedExits, Hit, Miss, WatchReturns
<1>2. OnlyGame(l)' <=> OnlyGame(l)
  BY <1>1 DEF OnlyGame
<1>3. watch[l].at # "off" => pc[l] = "serve"
  BY DEF Watched
<1>4. CASE WatchReturns(l)
  BY <1>1, <1>4, QuietWatched DEF WatchReturns
<1>5. CASE Appear(l)
  <2>1. /\ watch[l].at = "appear"
        /\ \/ gameRunning /\ watch'[l] = [watch[l] EXCEPT !.at = "pause", !.blip = FALSE]
           \/ watch'[l] = [watch[l] EXCEPT !.looks = @ + 1, !.blip = gameRunning]
    BY <1>0, <1>5 DEF Appear, Seen
  <2>2. watch[l].misses = 0
    BY <2>1 DEF Watched
  <2>3. CASE gameRunning /\ watch'[l] = [watch[l] EXCEPT !.at = "pause", !.blip = FALSE]
    <3>1. watch'[l].at = "pause" /\ watch'[l].misses = 0
      BY <1>0, <2>2, <2>3, WatchReads
    <3>2. OnlyGame(l) => game[l] # "none"
      BY <2>3, SeenIsMine
    <3> QED
      BY <1>1, <1>2, <1>3, <2>1, <3>1, <3>2 DEF Watched
  <2>4. CASE watch'[l] = [watch[l] EXCEPT !.looks = @ + 1, !.blip = gameRunning]
    <3>1. watch'[l].at = "appear" /\ watch'[l].misses = 0
      BY <1>0, <2>1, <2>2, <2>4, WatchReads
    <3> QED
      BY <1>1, <1>3, <2>1, <3>1 DEF Watched
  <2> QED
    BY <2>1, <2>3, <2>4
<1>6. CASE LookAtStarted(l)
  <2>1. /\ watch[l].at = "pause" /\ LoaderIsQuick(l)
        /\ watch'[l] = [watch[l] EXCEPT !.at = "poll", !.tracks = (started[l] = "runs")]
    BY <1>0, <1>6 DEF LookAtStarted
  <2>2. watch'[l].at = "poll" /\ watch'[l].misses = watch[l].misses
    BY <1>0, <2>1, WatchReads
  <2>5. watch'[l].tracks => started[l] = "runs"
    <3>1. watch'[l].tracks = (started[l] = "runs")
      BY <1>0, <2>1, WatchReads
    <3> QED
      BY <3>1, Zenon
  <2>3. watch[l].misses = 0 /\ (OnlyGame(l) => game[l] # "none")
    BY <2>1 DEF Watched
  <2>4. started[l] = "runs" /\ OnlyGame(l) => desktop
    BY <2>1, <2>3 DEF LoaderIsQuick
  <2> QED
    BY <1>1, <1>2, <1>3, <2>1, <2>2, <2>3, <2>4, <2>5 DEF Watched
<1>7. CASE Hit(l)
  <2>1. watch[l].at = "poll" /\ watch'[l] = [watch[l] EXCEPT !.misses = 0, !.blip = FALSE]
    BY <1>0, <1>7 DEF Hit
  <2>2. watch'[l].at = "poll" /\ watch'[l].misses = 0 /\ watch'[l].tracks = watch[l].tracks
    BY <1>0, <2>1, WatchReads
  <2> QED
    BY <1>1, <1>2, <1>3, <2>1, <2>2 DEF Watched
<1>8. CASE Miss(l) /\ ~WatchReturns(l)
  <2>1. /\ watch[l].at = "poll"
        /\ watch'[l] = [watch[l] EXCEPT !.misses = 1, !.blip = gameRunning]
    BY <1>0, <1>8 DEF Miss
  <2>2. watch'[l].at = "poll" /\ watch'[l].tracks = watch[l].tracks
        /\ watch'[l].blip = gameRunning
    BY <1>0, <2>1, WatchReads
  <2>3. ~gameRunning /\ OnlyGame(l) => game[l] = "over"
    BY <2>1, SeenIsMine DEF Watched
  <2> QED
    BY <1>1, <1>2, <1>3, <2>1, <2>2, <2>3 DEF Watched
<1> QED
  BY <1>4, <1>5, <1>6, <1>7, <1>8 DEF WatchWorks, NeverAppeared, StartedExits

\* So do the player, the processes and the network: a game starts only where something
\* was started and still runs, and a desktop does not end before its game.
LEMMA WorldWatched ==
  ASSUME TypeOK, NEW l \in Launchers, Watched(l), Player(l) \/ World(l)
  PROVE  Watched(l)'
<1> USE DEF Goes, registry, env, processes, launchers
<1>1. CASE Start(l) \/ Answer(l) \/ AnswerDirect(l)
  <2>1. pc[l] # "serve" /\ UNCHANGED <<started, game, watch, desktop>>
    BY <1>1 DEF Start, Answer, AnswerDirect
  <2> QED
    BY <2>1, QuietWatched
<1>2. CASE Dies(l) \/ AcceptFails(l)
  <2>1. watch' = [watch EXCEPT ![l] = NoWatch] /\ UNCHANGED <<started, game, desktop>>
    BY <1>2 DEF Dies, AcceptFails
  <2> QED
    BY <2>1, QuietWatched
<1>3. CASE (CtrlC(l) /\ ~Dies(l)) \/ TunnelBreaks(l)
  <2>1. UNCHANGED <<pc, started, game, watch, desktop>>
    BY <1>3 DEF CtrlC, TunnelBreaks
  <2> QED
    BY <2>1, QuietWatched
<1>4. CASE GameStarts(l)
  <2>1. /\ started[l] = "runs" /\ game[l] = "none" /\ game' = [game EXCEPT ![l] = "runs"]
        /\ UNCHANGED <<pc, started, watch, desktop>>
    BY <1>4 DEF GameStarts
  <2>2. game'[l] = "runs" /\ (OnlyGame(l)' => OnlyGame(l))
    BY <2>1 DEF TypeOK, OnlyGame
  <2> QED
    BY <2>1, <2>2 DEF Watched
<1>5. CASE StartedEnds(l)
  <2>1. /\ desktop => game[l] # "runs"
        /\ UNCHANGED <<pc, game, watch, desktop>>
    BY <1>5 DEF StartedEnds
  <2>2. OnlyGame(l)' <=> OnlyGame(l)
    BY <2>1 DEF OnlyGame
  <2> QED
    BY <2>1, <2>2 DEF Watched
<1>6. CASE GameCloses(l)
  <2>1. /\ game[l] = "runs" /\ \E left \in {"lingers", "over"} : game' = [game EXCEPT ![l] = left]
        /\ UNCHANGED <<pc, started, watch, desktop>>
    BY <1>6 DEF GameCloses
  <2>2. game'[l] \in {"lingers", "over"} /\ (OnlyGame(l)' => OnlyGame(l))
    BY <2>1 DEF TypeOK, OnlyGame
  <2> QED
    BY <2>1, <2>2 DEF Watched
<1> QED
  BY <1>1, <1>2, <1>3, <1>4, <1>5, <1>6 DEF Player, World, WindowCloses

\* What the watches know stays true.
LEMMA WatchInductive == Spec => []WInv
<1>1. Init => \A l \in Launchers : Watched(l)
  <2> SUFFICES ASSUME Init, NEW l \in Launchers PROVE Watched(l)
    OBVIOUS
  <2>1. watch[l].at = "off" /\ watch[l].misses = 0
    BY DEF Init, NoWatch
  <2>2. started[l] = "none"
    BY DEF Init
  <2> QED
    BY <2>1, <2>2 DEF Watched
<1>2. ASSUME WInv, [Next]_vars
      PROVE  \A o \in Launchers : Watched(o)'
  <2> SUFFICES ASSUME NEW o \in Launchers PROVE Watched(o)'
    OBVIOUS
  <2>0. TypeOK /\ Watched(o)
    BY <1>2 DEF WInv
  <2>1. CASE UNCHANGED vars
    <3>1. UNCHANGED <<pc, started, game, watch, desktop>>
      BY <2>1 DEF vars, processes
    <3> QED
      BY <2>0, <3>1, QuietWatched
  <2>2. ASSUME NEW l \in Launchers, Runs(l) \/ WatchWorks(l) \/ Player(l) \/ World(l)
        PROVE  Watched(o)'
    <3>1. CASE l = o
      BY <2>0, <2>2, <3>1, RunsWatched, WorksWatched, WorldWatched
    <3>2. CASE l # o
      BY <2>0, <2>2, <3>2, OthersWatched, RunsShape, WatchShape, WorldShape
    <3> QED
      BY <3>1, <3>2
  <2> QED
    BY <1>2, <2>1, <2>2 DEF Next
<1>3. WInv /\ [Next]_vars => WInv'
  BY <1>2, TypesStep DEF WInv
<1>4. Init => WInv
  BY <1>1, InitInvariant DEF IInv, WInv
<1> QED
  BY <1>3, <1>4, PTL DEF Spec

\* The watch never ends the hosting while its game, the only one there was, is played:
\* what it tracks is no loader, and it takes two looks that find nothing (client.go:
\* WaitForGameExit).
THEOREM NoEarlyEnd == Spec => NoTeardownMidGame
<1>1. WInv /\ [Next]_vars
        => [\A l \in Launchers :
              /\ watch[l].at = "poll" /\ watch'[l].at = "off" /\ ctx'[l] /\ ~ctx[l]
              /\ \A o \in Launchers \ {l} : game[o] = "none"
              => game[l] # "runs"]_vars
  <2> SUFFICES ASSUME WInv, Next, NEW o \in Launchers, watch[o].at = "poll", ctx'[o], ~ctx[o],
                      OnlyGame(o), watch'[o].at = "off"
               PROVE  game[o] # "runs"
    BY DEF OnlyGame
  <2>0. TypeOK /\ Watched(o) /\ ctx \in [Launchers -> BOOLEAN]
    BY Zenon DEF WInv, TypeOK
  <2>1. PICK l \in Launchers : Runs(l) \/ WatchWorks(l) \/ Player(l) \/ World(l)
    BY DEF Next
  <2>2. l = o
    <3>1. Shape(l)
      BY <2>0, <2>1, RunsShape, WatchShape, WorldShape
    <3>2. CASE ctx' = ctx
      BY <3>2
    <3>3. CASE ctx' = [ctx EXCEPT ![l] = TRUE]
      BY <2>0, <3>3
    <3> QED
      BY <3>1, <3>2, <3>3 DEF Shape
  <2>3. ~Runs(o)
    BY DEF Runs, Listen, Connects, ConnectFails, Acked, DialOK, HelloFails, CutDial, SetHostPort,
           Configure, SetGamePort, ChoiceCancelled, Launch, ServeEnds, ConfigureDirect,
           LaunchDirect, env
  <2>4. ~Player(o) /\ ~World(o)
    BY DEF Player, Start, Answer, AnswerDirect, CtrlC, WindowCloses, GameCloses, Dies, World,
           AcceptFails, TunnelBreaks, GameStarts, StartedEnds, launchers, env
  <2>5. CASE StartedExits(o)
    <3>1. desktop /\ started[o] = "exited"
      BY <2>0, <2>5 DEF StartedExits, Watched
    <3> QED
      BY <2>0, <3>1 DEF Watched
  <2>6. CASE Miss(o)
    <3>1. NotSeen(o) /\ watch[o].misses = 1
      BY <2>6 DEF Miss
    <3>2. game[o] # "none"
      BY <2>0 DEF Watched
    <3>3. CASE gameRunning
      BY <2>0, <3>1, <3>3 DEF NotSeen, Watched
    <3>4. CASE ~gameRunning
      BY <2>0, <3>2, <3>4, SeenIsMine
    <3> QED
      BY <3>3, <3>4
  <2>7. ~Appear(o) /\ ~NeverAppeared(o) /\ ~LookAtStarted(o) /\ ~Hit(o)
    BY DEF Appear, NeverAppeared, LookAtStarted, Hit
  <2> QED
    BY <2>1, <2>2, <2>3, <2>4, <2>5, <2>6, <2>7 DEF WatchWorks
<1> QED
  BY <1>1, WatchInductive, PTL DEF Spec, NoTeardownMidGame
===============================================================================
