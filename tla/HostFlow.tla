------------------------------ MODULE HostFlow ------------------------------
(***************************************************************************)
(* The launcher from the single-instance guard to its end (main.go: run,   *)
(* connectViaRelay, chooseClassic, classifyRelayError, main) and the watch *)
(* for the end of the game (internal/client/client.go: WaitForGameExit),   *)
(* for several copies started on one machine.  They share the gateway port *)
(* 6112, Warcraft III's registry values and the process list.  Dial        *)
(* (internal/relaylink/link.go) is here step by step, ServeHost a single   *)
(* one: Link has its inside.  A look at the process list stands for two    *)
(* seconds.                                                                *)
(***************************************************************************)
EXTENDS Naturals

CONSTANTS Launchers,  \* copies started, each once
          Window      \* looks before the wait for the game is given up

Nobody == "nobody"

ASSUME FlowAssumption == Launchers # {} /\ Nobody \notin Launchers /\ Window \in Nat \ {0}

VARIABLES pc,       \* where each copy is
          gate,     \* who listens on 6112
          tunnel,   \* the link of each copy: "none", "up", "lost"
          ctx,      \* connectViaRelay's context is cancelled
          gateway,  \* registry: the gateway WC3 will use
          gamePort, \* registry: netgameport, by the copy whose relay port it is
          hostPort, \* where each copy's Link sends joiners: "default", or its relay "port"
          desktop,  \* games run in a Wine desktop that outlives them, else by a loader
          started,  \* the process each copy started
          game,     \* its game: "none" yet, "runs", "lingers" as a process, "over"
          watch     \* its WaitForGameExit

registry == <<gateway, gamePort, hostPort>>
processes == <<started, game>>
vars == <<pc, gate, tunnel, ctx, registry, desktop, processes, watch>>

Relayed == {"listen", "dial", "hello", "vet", "setHostPort", "configure", "setPort", "choose",
            "launch", "serve"}
Direct == {"configureDirect", "chooseDirect", "launchDirect"}
AtEnd == {"prompt", "exited"}   \* "Press Enter to close", and the end of the process

NoWatch == [at |-> "off", looks |-> 0, misses |-> 0, tracks |-> FALSE, blip |-> FALSE]

Init ==
  /\ pc = [l \in Launchers |-> "idle"]
  /\ gate = Nobody
  /\ tunnel = [l \in Launchers |-> "none"]
  /\ ctx = [l \in Launchers |-> FALSE]
  /\ gateway \in {"realm", "local"}   \* left by an earlier run
  /\ gamePort = Nobody /\ hostPort = [l \in Launchers |-> "default"]
  /\ desktop \in BOOLEAN
  /\ started = [l \in Launchers |-> "none"]
  /\ game = [l \in Launchers |-> "none"]
  /\ watch = [l \in Launchers |-> NoWatch]

Goes(l, where) == pc' = [pc EXCEPT ![l] = where]

\* Every way out of connectViaRelay gives the gateway port and the tunnel back.
UnwindTunnel(l) ==   \* mutant: the listener is forgotten
  tunnel' = [tunnel EXCEPT ![l] = "none"] /\ UNCHANGED gate
Unwind(l) ==
  /\ gate' = IF gate = l THEN Nobody ELSE gate
  /\ tunnel' = [tunnel EXCEPT ![l] = "none"]

Fails(l, where) == Goes(l, where) /\ Unwind(l) /\ UNCHANGED registry

\* Once the process is gone, so is everything it held.
Dies(l) ==
  /\ Goes(l, "exited")
  /\ gate' = IF gate = l THEN Nobody ELSE gate
  /\ tunnel' = [tunnel EXCEPT ![l] = "none"]
  /\ watch' = [watch EXCEPT ![l] = NoWatch]
  /\ UNCHANGED <<ctx, registry, desktop, processes>>
-----------------------------------------------------------------------------
(* run and connectViaRelay. *)

env == <<ctx, desktop, processes, watch>>

\* Everything up to step 3 of run; --direct skips the relay.
Start(l) ==
  /\ pc[l] = "idle"
  /\ \E where \in {"listen", "configureDirect"} : Goes(l, where)
  /\ UNCHANGED <<gate, tunnel, registry, env>>

ListenAnyway(l) ==   \* mutant: a taken port is not noticed
  /\ pc[l] = "listen"
  /\ Goes(l, "dial") /\ gate' = IF gate = Nobody THEN l ELSE gate
  /\ UNCHANGED <<tunnel, registry, env>>
Listen(l) ==
  /\ pc[l] = "listen"
  /\ IF gate = Nobody THEN Goes(l, "dial") /\ gate' = l
                      ELSE Goes(l, "prompt") /\ UNCHANGED gate
  /\ UNCHANGED <<tunnel, registry, env>>

\* Dial: TCP and TLS ...
Connects(l) ==
  /\ pc[l] = "dial" /\ ~ctx[l]
  /\ Goes(l, "hello")
  /\ tunnel' = [tunnel EXCEPT ![l] = "up"]
  /\ UNCHANGED <<gate, registry, env>>

\* A certificate that is not trusted ends the run, anything else falls back, unless the
\* player has cancelled.
ConnectFails(l) ==
  /\ pc[l] = "dial"
  /\ \E where \in IF ctx[l] THEN {"exited"} ELSE {"prompt", "configureDirect"} :
       Fails(l, where)
  /\ UNCHANGED env

\* ... HELLO and its answer under one deadline ...
Acked(l) ==
  /\ pc[l] = "hello" /\ tunnel[l] = "up"
  /\ Goes(l, "vet")
  /\ UNCHANGED <<gate, tunnel, registry, env>>

\* ... and the look at the port, whether another program has it.
DialOK(l) ==
  /\ pc[l] = "vet" /\ ~ctx[l]
  /\ Goes(l, "setHostPort")
  /\ UNCHANGED <<gate, tunnel, registry, env>>

FailsThoughCancelled(l) ==   \* mutant: a closed tunnel is taken for an unreachable relay
  /\ pc[l] \in {"hello", "vet"}
  /\ Fails(l, "configureDirect")
  /\ UNCHANGED env
\* The relay refuses or is silent, the tunnel breaks, the port is bad; or the player has
\* cancelled, at the latest found out when stop() says so.
HelloFails(l) ==
  /\ pc[l] \in {"hello", "vet"}
  /\ Fails(l, IF ctx[l] THEN "exited" ELSE "configureDirect")
  /\ UNCHANGED env

\* The AfterFunc, in a goroutine of its own.
CutDial(l) ==
  /\ pc[l] \in {"hello", "vet"} /\ ctx[l] /\ tunnel[l] = "up"
  /\ tunnel' = [tunnel EXCEPT ![l] = "lost"]
  /\ UNCHANGED <<pc, gate, registry, env>>

SetNoHostPort(l) ==   \* mutant: joiners stay bridged to the default port
  /\ pc[l] = "setHostPort"
  /\ Goes(l, "configure")
  /\ UNCHANGED <<gate, tunnel, registry, env>>
SetHostPort(l) ==
  /\ pc[l] = "setHostPort"
  /\ Goes(l, "configure")
  /\ hostPort' = [hostPort EXCEPT ![l] = "port"]
  /\ UNCHANGED <<gate, tunnel, gateway, gamePort, env>>

Configure(l) ==
  /\ pc[l] = "configure"
  /\ \/ Goes(l, "setPort") /\ gateway' = "local" /\ UNCHANGED <<gate, tunnel, gamePort, hostPort>>
     \/ Fails(l, "prompt")
  /\ UNCHANGED env

SetGamePort(l) ==
  /\ pc[l] = "setPort"
  /\ \/ Goes(l, "choose") /\ gamePort' = l /\ UNCHANGED <<gate, tunnel, gateway, hostPort>>
     \/ Fails(l, "prompt")
  /\ UNCHANGED env

\* chooseClassic: the player's answer, or Ctrl-C.
Answer(l) ==
  /\ pc[l] = "choose"
  /\ Goes(l, "launch")
  /\ UNCHANGED <<gate, tunnel, registry, env>>

ChoiceIgnoresCtx(l) == FALSE /\ UNCHANGED vars   \* mutant: nobody reads the context
ChoiceCancelled(l) ==
  /\ pc[l] = "choose" /\ ctx[l]
  /\ Fails(l, "exited")
  /\ UNCHANGED env

Launch(l) ==
  /\ pc[l] = "launch"
  /\ \/ /\ Goes(l, "serve")
        /\ started' = [started EXCEPT ![l] = "runs"]
        /\ watch' = [watch EXCEPT ![l].at = "appear"]
        /\ UNCHANGED <<gate, tunnel, registry>>
     \/ Fails(l, "prompt") /\ UNCHANGED <<started, watch>>
  /\ UNCHANGED <<ctx, desktop, game>>

\* ServeHost returns: cancelled, by Ctrl-C or the watch, which is no error; or with
\* the tunnel lost or Accept failed.
ServeEnds(l) ==
  /\ pc[l] = "serve"
  /\ \/ ctx[l] /\ Fails(l, "exited")
     \/ tunnel[l] = "lost" /\ ~ctx[l] /\ Fails(l, "prompt")
  /\ watch' = [watch EXCEPT ![l] = NoWatch]
  /\ UNCHANGED <<ctx, desktop, processes>>

AcceptFails(l) ==
  /\ pc[l] = "serve" /\ ~ctx[l]
  /\ Fails(l, "prompt")
  /\ watch' = [watch EXCEPT ![l] = NoWatch]
  /\ UNCHANGED <<ctx, desktop, processes>>

\* The fallback, and --direct.  The launcher does not stay.
ConfigureDirect(l) ==
  /\ pc[l] = "configureDirect"
  /\ \/ Goes(l, "chooseDirect") /\ gateway' = "realm"
     \/ Goes(l, "prompt") /\ UNCHANGED gateway
  /\ UNCHANGED <<gate, tunnel, gamePort, hostPort, env>>

AnswerDirect(l) ==
  /\ pc[l] = "chooseDirect"
  /\ Goes(l, "launchDirect")
  /\ UNCHANGED <<gate, tunnel, registry, env>>

LaunchDirect(l) ==
  /\ pc[l] = "launchDirect"
  /\ \/ Goes(l, "exited") /\ started' = [started EXCEPT ![l] = "runs"]
     \/ Goes(l, "prompt") /\ UNCHANGED started
  /\ UNCHANGED <<gate, tunnel, registry, ctx, desktop, game, watch>>
-----------------------------------------------------------------------------
(* WaitForGameExit. *)

Watches(l, w) ==
  watch' = [watch EXCEPT ![l] = w]
  /\ UNCHANGED <<pc, gate, tunnel, registry, desktop, processes>>

\* gameRunning goes by the name of the process, whoever started it.
gameRunning == \E l \in Launchers : game[l] \in {"runs", "lingers"}

\* The process list cannot be read, or the game restarts itself: both pass within
\* two seconds, so a look that wrongly finds nothing is not followed by another.
Seen(l) == gameRunning
NotSeen(l) == ~gameRunning \/ ~watch[l].blip

AppearAnyTime(l) ==   \* mutant: the window has no end
  LET w == watch[l] IN
  /\ w.at = "appear"
  /\ \/ Seen(l) /\ Watches(l, [w EXCEPT !.at = "pause", !.blip = FALSE])
     \/ NotSeen(l) /\ Watches(l, [w EXCEPT !.looks = @ + 1, !.blip = gameRunning])
  /\ UNCHANGED ctx
Appear(l) ==
  LET w == watch[l] IN
  /\ w.at = "appear" /\ w.looks < Window
  /\ \/ Seen(l) /\ Watches(l, [w EXCEPT !.at = "pause", !.blip = FALSE])
     \/ NotSeen(l) /\ Watches(l, [w EXCEPT !.looks = @ + 1, !.blip = gameRunning])
  /\ UNCHANGED ctx

\* The game was seen; two seconds later a loader that has started it has exited.
LoaderIsQuick(l) == ~desktop /\ game[l] # "none" => started[l] = "exited"

LookAtStarted(l) ==
  /\ watch[l].at = "pause" /\ LoaderIsQuick(l)
  /\ Watches(l, [watch[l] EXCEPT !.at = "poll", !.tracks = (started[l] = "runs")])
  /\ UNCHANGED ctx

\* It returns, and stop() cancels the context.
WatchReturns(l) ==
  Watches(l, NoWatch) /\ ctx' = [ctx EXCEPT ![l] = TRUE]

NeverReturns(l) == FALSE /\ UNCHANGED vars   \* mutant: it blocks for ever
NeverAppeared(l) ==
  /\ watch[l].at = "appear" /\ watch[l].looks = Window
  /\ WatchReturns(l)

StartedExits(l) ==
  /\ watch[l].at = "poll" /\ watch[l].tracks /\ started[l] = "exited"
  /\ WatchReturns(l)

Hit(l) ==
  /\ watch[l].at = "poll" /\ Seen(l)
  /\ Watches(l, [watch[l] EXCEPT !.misses = 0, !.blip = FALSE])
  /\ UNCHANGED ctx

MissOnce(l) ==   \* mutant: one miss is enough
  /\ watch[l].at = "poll" /\ NotSeen(l)
  /\ WatchReturns(l)
Miss(l) ==
  /\ watch[l].at = "poll" /\ NotSeen(l)
  /\ IF watch[l].misses = 1
     THEN WatchReturns(l)
     ELSE /\ Watches(l, [watch[l] EXCEPT !.misses = 1, !.blip = gameRunning])
          /\ UNCHANGED ctx
-----------------------------------------------------------------------------
(* The player, the processes and the network. *)

launchers == <<pc, gate, registry, desktop, watch>>

\* connectViaRelay has taken SIGINT over; elsewhere it ends the process.
CtrlC(l) ==
  \/ /\ pc[l] \in Relayed \ {"listen"} /\ ~ctx[l]
     /\ ctx' = [ctx EXCEPT ![l] = TRUE]
     /\ UNCHANGED <<launchers, tunnel, processes>>
  \/ pc[l] \in Direct \cup {"listen", "prompt"} /\ Dies(l)

\* Enter at the last prompt; the window is closed at any time, or stdin fails, which
\* chooseClassic takes for a cancellation.
WindowCloses(l) == pc[l] \notin {"idle", "exited"} /\ Dies(l)

TunnelBreaks(l) ==
  /\ tunnel[l] = "up"
  /\ tunnel' = [tunnel EXCEPT ![l] = "lost"]
  /\ UNCHANGED <<launchers, ctx, processes>>

GameStarts(l) ==
  /\ started[l] = "runs" /\ game[l] = "none"
  /\ game' = [game EXCEPT ![l] = "runs"]
  /\ UNCHANGED <<launchers, tunnel, ctx, started>>

\* A loader ends once it has started the game, or without; a desktop after it.
StartedEnds(l) ==
  /\ started[l] = "runs"
  /\ desktop => game[l] # "runs"
  /\ started' = [started EXCEPT ![l] = "exited"]
  /\ UNCHANGED <<launchers, tunnel, ctx, game>>

GameCloses(l) ==
  /\ game[l] = "runs"
  /\ \E left \in {"lingers", "over"} : game' = [game EXCEPT ![l] = left]
  /\ UNCHANGED <<launchers, tunnel, ctx, started>>
-----------------------------------------------------------------------------
Runs(l) ==
  \/ Listen(l) \/ Connects(l) \/ ConnectFails(l) \/ Acked(l) \/ DialOK(l) \/ HelloFails(l)
  \/ CutDial(l) \/ SetHostPort(l) \/ Configure(l) \/ SetGamePort(l)
  \/ ChoiceCancelled(l) \/ Launch(l) \/ ServeEnds(l)
  \/ ConfigureDirect(l) \/ LaunchDirect(l)
WatchWorks(l) ==
  \/ Appear(l) \/ NeverAppeared(l) \/ LookAtStarted(l) \/ StartedExits(l) \/ Hit(l)
  \/ Miss(l)
Player(l) ==
  \/ Start(l) \/ Answer(l) \/ AnswerDirect(l) \/ CtrlC(l) \/ WindowCloses(l)
  \/ GameCloses(l)
World(l) == AcceptFails(l) \/ TunnelBreaks(l) \/ GameStarts(l) \/ StartedEnds(l)

Next == \E l \in Launchers : Runs(l) \/ WatchWorks(l) \/ Player(l) \/ World(l)

Spec == Init /\ [][Next]_vars

\* The launcher runs, and what it waits for has a deadline, but for the player.  The
\* select of the watch takes either ready case, so that choice has to be fair; Wine
\* ends the desktop after the game and a loader ends.
FairSpec ==
  /\ Spec
  /\ \A l \in Launchers :
       /\ WF_vars(Runs(l)) /\ WF_vars(WatchWorks(l)) /\ SF_vars(StartedExits(l))
       /\ WF_vars(StartedEnds(l) /\ game[l] # "none")
-----------------------------------------------------------------------------
(* Properties. *)

\* The variables have their types.
TypeOK ==
  /\ pc \in [Launchers -> {"idle"} \cup Relayed \cup Direct \cup AtEnd]
  /\ gate \in Launchers \cup {Nobody} /\ gamePort \in Launchers \cup {Nobody}
  /\ hostPort \in [Launchers -> {"default", "port"}]
  /\ tunnel \in [Launchers -> {"none", "up", "lost"}]
  /\ ctx \in [Launchers -> BOOLEAN]
  /\ gateway \in {"realm", "local"} /\ desktop \in BOOLEAN
  /\ started \in [Launchers -> {"none", "runs", "exited"}]
  /\ game \in [Launchers -> {"none", "runs", "lingers", "over"}]
  /\ watch \in [Launchers -> [at : {"off", "appear", "pause", "poll"}, looks : 0..Window,
                              misses : 0..1, tracks : BOOLEAN, blip : BOOLEAN]]

\* A copy that has given up hosting, with a message on the screen or on the direct
\* way, holds neither the gateway port nor a tunnel, whichever of the steps failed or
\* was cancelled: the next copy can start (main.go: gateLn.Close and link.GameOver on
\* every path).  And whoever hosts does hold the port.
Unwound ==
  \A l \in Launchers :
    /\ pc[l] \in Direct \cup AtEnd => gate # l /\ tunnel[l] = "none"
    /\ pc[l] \in Relayed \ {"listen"} => gate = l

\* While a copy hosts, netgameport is the port its own relay session has, and its Link
\* sends joiners there, so that the game it starts listens where the joiners come,
\* whatever other copies do: they stop at the guard before they write it (main.go: Listen
\* before Dial, SetHostPort, SetGamePort).
PortIsMine ==
  \A l \in Launchers :
    pc[l] \in {"choose", "launch", "serve"} => gamePort = l /\ hostPort[l] = "port"

\* A player who cancels is not taken for one whose relay is unreachable: nothing that
\* Ctrl-C breaks on its way, the tunnel in the middle of Dial included, makes the
\* launcher go on and start the game on the direct way (main.go: errCancelled before
\* classifyRelayError; link.go: dial's fail and AfterFunc).
CancelIsFinal ==
  [][\A l \in Launchers : ctx[l] /\ pc[l] \in Relayed => pc'[l] \notin Direct]_vars

\* The watch does not end the hosting while the game is played: neither the exit of a
\* loader nor one look that misses the game does.  It goes by process names, so this
\* is about a copy whose game is the only one there was; and the game was seen
\* (client.go: tracksGame, misses).
NoTeardownMidGame ==
  [][\A l \in Launchers :
       /\ watch[l].at = "poll" /\ watch'[l].at = "off" /\ ctx'[l] /\ ~ctx[l]
       /\ \A o \in Launchers \ {l} : game[o] = "none"
       => game[l] # "runs"]_vars

\* Hosting ends when it should.  Ctrl-C, or the end of the watch, ends it from wherever
\* it is, the prompt included, where SIGINT no longer kills the process by itself
\* (main.go: chooseClassic).  Closing the game frees the gateway port for the next
\* launch, also when a process of it lingers beside a desktop that was seen alive
\* (client.go: loaderDone); as long as no other game is taken for it.
HostingEnds ==
  \A l \in Launchers :
    /\ ctx[l] ~> pc[l] \in AtEnd
    /\ (game[l] = "over" /\ ~gameRunning)
         \/ (game[l] = "lingers" /\ desktop /\ watch[l].tracks)
       ~> gate # l \/ \E o \in Launchers \ {l} : game[o] \in {"runs", "lingers"}

=============================================================================
