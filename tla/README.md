# wc3-launcher in TLA+

wc3-launcher lets a player host Warcraft III games without opening a port: the
launcher on the player's machine keeps one tunnel to a relay daemon on the server,
the relay gives the game a public port, and both carry the joiners and the game's own
connections to the PvPGN realm over the tunnel as numbered streams. This directory
holds TLA+ modules of that program, the TLC configurations that check them, and
proofs that every module's safety properties hold for all values of its constants, as far
as the prover reaches.

## Running

    tlc -workers 2 -config RelayServer.cfg MCRelayServer   # module and cfg per run: see "Runs"
    tlapm RelayServerProofs.tla                            # and the other *Proofs modules

`PROJECT.json` is the index: components, runs, a mutant per property (a plausible
bug the property must catch), the source lines of every definition, hazards, findings
and theorems.

## Inventory

### Relay daemon (`internal/relay`, `cmd/wc3-relay`)

| part | state | operations | what makes it correct |
|---|---|---|---|
| `Pool` (pool.go) | `free` list, `used` set | `NewPool`, `Alloc`, `Release` | no port lost, doubled, or handed out while a session still listens on it |
| `Server` (server.go) | `perIP`, `total`, the accept loop | `admit`, `release`, `wrapTLS`, one goroutine per session with `recover` and deferred `release` | slots counted exactly, whichever way a session ends; a silent peer is dropped |
| `Session` (session.go) | `port`, public listener, tunnel, `conns`, `done`, `sendMu`, `nextID` | `Run`, `readTunnel`, `acceptJoiners`, teardown goroutine, `openPvpgn`, `addConn`, `closeConn`, `closeAllConns`, `send`, one `pump` per stream | no orphaned socket, the port is released quietly, frames in order, everything ends |
| `relayConn` (session.go) | `out` queue, `closed` | `deliver`, `pumpOut`, `shutdown` | what is delivered is a prefix; nobody waits for a slow peer |

Shared state and interaction: a session's goroutines share `mu` (the stream map) and
`sendMu` (the tunnel's writer); sessions share `Pool` and the counters; the public
listeners share the kernel's port table, where `SO_REUSEPORT` removes the usual error
for a port that is taken.

### Launcher (`main.go`, `internal/relaylink`, `internal/bnetgateway`, `internal/client`)

| part | state | operations | what makes it correct |
|---|---|---|---|
| `Link` (link.go) | `streams`, `done`, `nextID`, `sendMu` | `Dial`, `demux`, `keepalive`, `OpenClientStream`, `acceptJoiner`, `bridgeJoiner`, `closeStream`, `closeAll`, `GameOver` | no stream is lost sight of; a dead relay is noticed; everything ends |
| `stream` (stream.go) | `inbox`, `closed`, pipe, `sentClose` | `deliver`, `pump`, `Read`, `Write`, `Close`, `shutdown` | bytes in order and once; demux never waits |
| gateway (gateway.go, host.go) | the listener on 6112 | `ServeHost`, `ListenAndServe`, `handle` | both directions end together; the reason of the end is reported |
| clocks | ticker, read and write deadlines, the relay's idle deadline | PING every 30 s, 90 s, 10 s, 180 s | no live peer is given up, every dead one is |
| main flow (main.go) | port 6112, context, registry values | `connectViaRelay`, `chooseClassic`, fallback to direct | every failure unwinds; Ctrl-C always works; a second copy stays away |
| game watch (client.go) | looks, misses, `tracksGame` | `WaitForGameExit` | hosting ends with the game, not before and not much later |

### Around them

- `tunnel` frames (frame.go): a header of six bytes with the 16-bit length of the whole
  frame and the stream id, then the payload, in two writes: `WriteFrame`, `ReadFrame`, and
  `send` and `sendData` of either end around them. The reader must find a header wherever it
  looks for one.
- `wc3-mapd` (`maplib`) serves the operator's library of maps: `manifestCache` with `key`,
  `buf` and `mu`; `get`, `libraryKey`, `ScanDir`. A manifest must list what is served.
- `mapsync` (launcher) syncs it into the player's folder before each game: `fetchManifest`,
  `namesIn`, `downloadOne`, `writeNew` with its `.part` file. A published map is whole,
  the player's files stay, and the map comes at last.
- `bundle` unpacks the loader under a version marker: `Ensure`, `unzip`, `extractFile`. The
  game must never be started with a mixture of two versions' files.
- `runtimeconfig.go`, `config.go`: flags, environment, files and the registry of an
  older launcher, by precedence, with first-run seeding and migration:
  `resolveConnection`, `seedPerUserConfig`, `maybeInteractiveSetup`, `adoptExistingGateway`.
  What was saved once must be what later runs use, and nobody is asked twice.
- `ensureStableLauncher` (main.go) keeps a copy of the newest launcher behind the desktop icon.
- `prereqs`, `installer`, `desktop`, `doctor`, `wineenv`, the bundle builder: calls of
  system tools one after the other, I/O and layout.

### What is hard

Concurrency of a session's four kinds of goroutines; blocked writers under a mutex;
the order of deferred calls; check-then-act between `done` and the stream maps; full
queues that must neither block nor leave holes; CLOSE overtaking data; four clocks
that must fit together; ids that come round while frames for their last holder are still
on the way; a write that breaks off in the middle of a frame; a launcher with a dozen ways to fail or be cancelled while it holds a port; a
game process one can only look at; runs of several builds that feed each other through
what they leave on the disk. `PROJECT.json` has every hazard at its line.

## Modules

| module | models | composed with |
|---|---|---|
| `PortLease` | abstract: a game has at most one public port, a port one game | implemented by `RelayServer` |
| `RelayServer` | `Server`, `Pool`, `Session.Run` with its deferred calls, for all sessions | used by `RelaySession` |
| `RelaySession` | the inside of one session that is up | its steps are steps of `RelayServer` (`FitsServer`) |
| `BytePipe` | abstract: one direction of a spliced connection | implemented by `StreamPath`, twice |
| `StreamPath` | one stream from WC3's socket to the far peer's: gateway or bridge, `stream`, tunnel, `relayConn`, pumps | |
| `Link` | `ServeHost`, gateway, `demux`, `keepalive`, handlers and bridges | |
| `KeepAlive` | the clocks of both ends | |
| `TunnelWire` | the bytes of one direction of the tunnel: `send`, `sendData`, `WriteFrame`, `ReadFrame` | |
| `StreamIds` | the ids at both ends, their wrap and reuse, late OPENs and CLOSEs | |
| `HostFlow` | `run`, `connectViaRelay`, `Dial` step by step, `chooseClassic`, `WaitForGameExit` for several copies | |
| `LauncherRuns` | one run after another of several builds over one disk: settings, registry, bundle, the copy behind the icon | |
| `MapLibrary` | one map from the operator's library through `manifestCache` and `Sync` into the player's folder | |
| `MCRelayServer`, `MCStreamPath`, `MCLauncherRuns` | values for TLC | |
| `MCTunnel` | `StreamIds`, `TunnelWire` and `KeepAlive` for one run: a behaviour has the steps of one of them | extends all three, which share nothing |
| `RelayServerProofs`, `RelaySessionProofs`, `StreamPathProofs`, `LinkProofs`, `HostFlowProofs`, `LauncherRunsProofs`, `MapLibraryProofs` | theorems | each extends its module |
| `TunnelProofs` | theorems about both ends of the tunnel | extends `KeepAlive`, `StreamIds` and `TunnelWire`, which share no name |

How the state corresponds to the code:

- *Goroutines.* Each has a variable with the place it is at (`pc`, `reader`,
  `acceptor`, `teardown`, `pump`, `demux`, `handle`, ...). A step is what happens
  between two points at which another goroutine can matter: a critical section, a
  send, an accept, a dial, a close. A function that takes a lock twice has two steps.
- *Deferred calls* run in last-in-first-out order. In `RelayServer` the places after
  `up` are named for the deferred call that comes next: `closeLn`, `freePort`,
  `closeTun`, `freeSlot`; `FirstDeferred` says where a return or a panic enters the list.
- *Mutexes.* A critical section without a blocking call is one step. `sendMu` is
  explicit, because a write to a peer that does not read blocks while it is held:
  `sendMu` names the blocked writer, and everybody else who wants to send waits until
  the write deadline fails it (`Blocked`).
- *Deadlines.* In the modules without time, a read or write that has a deadline may
  fail whenever it could wait, and must if nothing else happens (fairness).
  `KeepAlive` has the numbers.
- *Peers* (WC3, PvPGN, joiners, the launcher for the relay, the relay for the
  launcher) may at any time write, stop reading, stop writing, close or vanish.
- *Bytes.* Everywhere else a frame is sent and read whole. In `TunnelWire` a byte is the frame
  it was written for and its place in it, so the reader can see when it has something else in
  hand than it takes it for: bytes that are not one frame's header fail the test for the magic,
  and the length is decoded modulo `MaxFrameLen + 1`. Both ends have the same `send` and
  `sendData`, and the two directions share nothing but the connection, which either may close.
  `begun`, `wire`, `received` and `offset` are history; the code keeps none of them.
- *Files.* `MapLibrary` has names and inodes as on Linux: a link gives a file a second
  name, a removed file lives on in who has it open, and opening for writing truncates.
- *Crashes.* In `MapLibrary` and `LauncherRuns` a copy is killed at any step and leaves its
  files, in `LauncherRuns` with a write cut short. `DaemonRestarts` drops everything the
  relay keeps, which is all in memory.
  A launcher that dies (`Dies` in `HostFlow`) gives back what the system held for it,
  and leaves the registry as it was.

`FitsServer` ties the two relay modules together: `RelaySession`'s variables are mapped
to those of `RelayServer` for one session (`Server`), and every step of a goroutine must
be a step of `RelayServer`, or none. `Link` and `RelaySession` check the two ends of the
tunnel against any behaviour of the other; `StreamPath` has both ends for one stream,
`StreamIds` both ends for the ids of many,
`TunnelWire` the sender's end and the reader's for the bytes of all.

## Runs

| run | module | question |
|---|---|---|
| `RelayServer` | `MCRelayServer` | Do counters, pool, ports and listeners agree however sessions end, is `PortLease` implemented, is a silent launcher dropped, does every handshake settle? |
| `RelaySession` | `RelaySession` | Are the caps kept, is every socket somebody's to close, is the port given back quietly, are frames in order, is this a session as `RelayServer` has it? Does a session wind up that is cancelled or whose host stalls or falls silent, and does the host hear of the end of each stream? |
| `StreamPath` | `MCStreamPath` | Is what arrives a prefix upwards and in order downwards, does the reader of either end stay free, does the end of one side free everything and reach the other? |
| `Link` | `Link` | Is no stream lost, is the reason of the end right? Do `ServeHost`, demux, pinger and bridges end with the tunnel, the caller or a relay that is stalled or silent, but for a bridge that writes to a game which does not read, and is a WC3 that reads and sends released? |
| `LinkTold` | `Link` | Violation: a stream registered behind `closeAll`'s back is never shut down. |
| `Tunnel` | `MCTunnel` | Ids: when they come round, does an OPEN ever meet a stream in use, and does a stream that a late CLOSE has hit stay half open? Bytes: does the reader get exactly the frames that were sent, however senders take turns and wherever a write breaks off, does everybody's data come without gaps, is no frame refused or left behind? Clocks: do they fit with up to five dials in a row, and is a vanished peer noticed, and in time? |
| `KeepAliveBusy` | `KeepAlive` | Violation: seven streams opened together, each with a dial that takes nine seconds, make the launcher give up a relay that is alive. |
| `HostFlow` | `HostFlow` | Does every failure unwind, are `netgameport` and the joiners' port the hosting copy's, is a cancelled dial taken for one, does Ctrl-C work, does the watch end at the right time? |
| `LauncherRuns` | `MCLauncherRuns` | Do settings that were saved last, and is nobody asked twice, whatever builds run in whatever order, and is the loader that is started whole? |
| `LauncherAsks` | `MCLauncherRuns` | Violation: a run that is not configured keeps the next one from asking. |
| `MapLibrary` | `MapLibrary` | Is a published map whole after any crash, are the player's files safe, does the manifest list what is served, does the map arrive? |
| `MapLibraryTwo` | `MapLibrary` | Violation: two copies started together share a `.part` file, and publish a truncated map. |

Runs with `CHECK_DEADLOCK FALSE` are of systems that stop: a session, a link or a
launcher that has ended takes no step. The daemons never stop, and a player starts the
launcher again: `RelayServer`, `LauncherRuns` and `MapLibrary` check for deadlock.

### Bounds

- `RelayServer`: four connections from three addresses, two ports, one session per
  address, three in all. Both caps, the empty pool (three sessions, two ports) and
  the reuse of a port by another session occur; a connection that ended comes again.
  `TokenSet`, `RequireAuth`, `TLSConfigured` and `RequireTLS` are all on, which gives each
  refusal a way to happen; off, they only take refusals away.
- `RelaySession`: caps of one, one stream of either kind and a second one that comes when the
  cap is reached (`NStreams`, `NClients`, `NJoiners`). A dial in flight during the teardown,
  and a pump that competes with the PONG, the refusal or the next OPEN for `sendMu`, are
  there with one; `RelaySessionProofs` has any number of streams and any caps for all its
  safety properties. Each liveness property speaks of one stream.
- `Link`: a WC3 connection or a joiner, each with both of its loops, and one joiner more when
  the cap of one is reached. The ping and demux's PONG are the other writers that block.
- `StreamPath`: queues of one. `MCLoads` are the chunks of both sides: three up are one more
  than there are places on the way, two down one more than the inbox holds while the pipe is
  blocked, and one each way flow at the same time. Once a queue is full, whether it is of one
  or of 64 chunks makes no difference to anybody.
- `Tunnel`, clocks: the code's own numbers in units of ten seconds. `Burst` is the number
  of streams WC3 is opening at the same time, five being the most that fit; the relay's own
  cap is 16. `TunnelProofs` has all numbers. `KeepAliveBusy` counts in units of three seconds,
  so that a dial of nine seconds is one that succeeds; six of those still fit, seven do not.
- `Tunnel`, bytes: `MaxFrameLen` of 8 leaves payloads of two bytes, so that a buffer of three
  takes two frames, one of one byte fills no frame, and one of none stands for a frame without
  payload, such as CLOSE; a length that forgets the header wraps. Two senders, who get buffers
  until two frames have been begun, which makes up to four: enough for a frame after one that
  broke off and for the second half of a buffer behind another sender's frame. `TunnelProofs` has
  all of it without bounds. Control frames, whose payloads are short, are not cut.
- `Tunnel`, ids: two ids of a kind instead of 32768, so that the counter comes round within
  three streams, one of which finds its id taken and skips it; two are live at a time. The
  two kinds of ids never meet, and a behaviour has one of them. `TunnelProofs` has any number
  of ids and of streams for `MeetsOnlyTheLeaving`.
- `HostFlow`: two copies; `Window` of two looks instead of 180.
- `LauncherRuns`: a stock build, two that ship settings, of which the second has a rotated
  token and a newer bundle, and one with a server compiled in; a flag that names another
  server, or none; a bundle of two files. Nothing else is bounded: any history of runs.
- `MapLibrary`: one name, as maps do not depend on each other; one copy of the launcher
  and another player's request, so that scans and hits of the cache interleave; three
  changes of the library (a map added, replaced and removed, or replaced twice between
  key, scan and download) and three upsets (a crash, a file left behind, and what the
  player does after it). A version never comes back. `MapLibraryTwo` has two copies.

### Fairness

Weak fairness on what a goroutine does by itself, since the Go scheduler runs it and every
wait it is in has a deadline, or ends when something is closed that somebody else closes. One
wait is different: the write to WC3 in the copy loops (gateway.go:127, link.go:392) has no
deadline, and what would close the connection under it comes after that loop in the code
(gateway.go:133 and its deferred `client.Close`, the bridge's deferred `wc3.Close`). Only WC3 can
end it, by reading or by closing. So a step out of such a write is never fair, unless a
property assumes it of WC3 by name.

Assumed of WC3, and made true by no code of the launcher:

- `ReadingSpec` (`Link`): WC3 reads what is written to it, or closes. `LinkTold` grants it, and
  shows that a stream behind `closeAll`'s back hangs all the same.
- `WC3Spec` (`Link`): besides, it sends or closes at some time on each connection to the
  gateway. `WC3Released` needs both.
- `WC3Obliges` (`StreamIds`): of a stream that is shut, WC3 closes the gateway's connection once it
  has been told by a FIN, and a game reads what the bridge is writing to it, or closes.
  `HalfOpenHeals` needs it.

Otherwise no fairness on peers, failures or cancellation, with these exceptions:

- `RelaySession`: a launcher that sends at all sends PINGs (`keepalive`, every 30 s), so
  `ReadPing` is fair. Without it a host that has only stopped reading is noticed when
  the relay next writes something.
- `Tunnel`, bytes: who holds `sendMu` gets on, since every write has a deadline, and the reader
  runs. Nobody has to begin a frame.
- `Tunnel`, clocks: time passes, the ticker ticks, deadlines expire and a dial ends by its
  timeout. Nobody has to open a stream, and no end has to vanish.
- `HostFlow`: strong fairness of `StartedExits`, because the `select` of the watch is
  left and entered again between looks. That Wine closes its desktop after the game,
  and that a loader ends, is the assumption the code's comment makes.
- `MapLibrary`: `Ask` is fair, as a player who wants the map starts the launcher again;
  failures are bounded, as a player whose every download fails gets no map.

`StreamPath` and `Link`'s `FairSpec` assume nothing of peers: a write to WC3 may block for ever.
`EndsTogether` says so; `ServeEnds` promises the end of `ServeHost`, of demux, of the pinger and of
every bridge that is not in such a write; that the gateway's handlers end is `WC3Released`.

## What is proved

`RelayServerProofs`, for every finite set of connections, every map to sources, every
port range and all caps:

- `TypeCorrect`: the types, and with them that no counter passes its cap.
- `SlotsAccounted`: the counters are the numbers of sessions that run, within the caps.
- `PortsConsistent`: the pool and the sessions agree about every port.
- `ListenersExclusive`: no two games on one port, none on a port that is free.
- `PoolNeverExhausted`: with a port for every session that runs, `pool_full` is never
  answered.
- `LeaseImplemented`: `RelayServer` implements `PortLease`, by step simulation.

The argument. `SlotSteps` and `PortSteps` sort the daemon's steps by what they do to
slots and to ports: only `Admit`, `FreeSlot` and a restart touch the former, only
`Alloc`, `FreePort` and a restart the latter. `SlotsCounted` is inductive with the types
(the other half of `SlotAccounting`, the caps, comes with the types); its steps add one session to a finite set or take one away (`FS_AddElement`,
`FS_RemoveElement`). The invariant for ports is

    IInv == TypeOK /\ SlotsCounted /\ PoolConsistent /\ PortKnown /\ ListensWhileBound

`PoolConsistent` alone does not survive `FreePort`: that the port released is the
session's own, and in `used`, needs `PortKnown` (a session has a port exactly between
`Alloc` and `FreePort`). `NoSharedListener` does not survive `Alloc` unless one
knows that who listens still holds its port, which is `ListensWhileBound` (from `Bind` to
`CloseLn`, before `FreePort`): the order of the two deferred calls, in one conjunct.
`PoolSuffices` follows from `IInv` by counting: the used ports are at most as many as the
sessions with a port, which are fewer than the sessions in all while one is in `alloc`.

`RelaySessionProofs`, for any number of streams and any caps: `TypeCorrect` (with the
caps), `SocketsOwned`, `PortComesBackQuiet`, `FramesKeepOrder`, and `SessionFitsServer`, the
refinement of `RelayServer`'s view of a session. None of them is inductive alone:

- the cap on client streams is read before a dial of up to ten seconds and the stream is
  registered after it: `RoomForDialed` says there is still room;
- OPEN comes first only because nobody has written on an id before it is given out
  (`FreshIds`), and nothing follows a CLOSE because a pump that may still send has not said it
  (`PumpsMaySend`);
- a socket the teardown has taken out of the map is closed by it (`SnapshotInUse`), one that
  comes later by `addConn`;
- the port is given back after both loops have ended and the listener is closed (`RunInOrder`).

`LinkProofs`, for any number of connections and joiners and any cap: `TypeCorrect` (with the
cap on joiners and the mutex, which only a writer holds), `StreamsFound`, `LossTold`. `Found`
says where `closeAll`'s order of steps leaves a stream: until the snapshot is taken there is
none, and a connection that is only opening has to be found too, since `NoLostStream` would
not survive its going on to copy; nothing answers a joiner before WC3 has been dialled. That the
mutex is a writer's needs that the CLOSE of a joiner stream is said once, by whichever of its
two loops ends first (`said`). `Reported` traces the verdict: `done` comes after the
tunnel's end, and until `ServeHost` has decided only the watcher cancels its own context.

`StreamPathProofs`, for any loads and any sizes of queue, inbox and pipe: `TypeCorrect`, and
`VerbatimAlways`, the refinement of `BytePipe` in both directions, step by step: every step of
the path adds the next chunk at one end of a pipe, takes the next one out at the other, ends
the pipe, or maps to a stutter. Towards WC3 a full inbox may drop chunks, so `InOrder` only keeps
those on the way increasing, and behind them what WC3 got. Towards the far peer `NoGap` numbers
the chunks of the tunnel, the queue and the writer's hand without a gap for as long as the
socket is open; once it is closed nothing more comes out, and a gap does no harm.

`TunnelProofs`, for all timings with `Margins` (a ping interval and a dial for each
stream that may be opening fit into the launcher's read deadline, a ping interval into the
relay's): `GivesUpTheDeadOnly`. The invariant `PongComes` bounds how long the next PONG can
still take by the OPENs before the first PING that waits; `PingCame` is the same for the
relay. The code's numbers keep `Margins` with up to five dials. `VanishedNoticedInTime` needs no
such condition: a launcher outlives its relay by its read deadline at most, a relay its launcher
by the idle deadline and a dial for each stream that was opening. `Noticing` weighs the time
since the other end vanished against what is still due before the deadline is armed for the last
time: the rest of the dial that goes on, and a dial for every OPEN that waits.

`TunnelProofs`, for any senders, any buffers and any width of the length field: `ReaderInSync`,
of which a lemma is that no frame is refused (`FramesAccepted`), and `StreamsWhole`. `Guarded` says that whoever is inside `WriteFrame`, or has
failed there and not yet closed the tunnel, holds the mutex and is at the last frame begun;
`Laid`, that the frames lie on the wire one after the other, a place that broke off being the
end of the wire, since nothing but an open tunnel takes bytes and a broken frame never lets go
of the mutex while it is open. From these the reader's position (`InStep`) survives both of its
steps: where it looks for a header, the next frame begins (`HeaderFound`), and the length fits
(`NoWrap`). Frames may be begun, in vain, on a closed tunnel, so `Chained` asks that each goes
on where its stream's last one ended only of frames of which bytes got out. The proofs handle
the bytes of a frame as functions and use `SeqEqual` for "the same bytes".

`TunnelProofs`, for any number of ids, streams and live ones: `OpenMeetsTheLeaving`. Where the
launcher opens, an answer is due to each stream exactly once, as an OPEN on the way, a stream
at the relay or a CLOSE on the way back (`OneAnswer`), and until the launcher has read it the
id stays the stream's in its map (`KeptHere`); so an id given again was answered. Where the
relay opens, a joiner that has lost its place in the relay's map has a closed socket
(`Joined`), and the launcher hears of joiners in the order of their coming (`InTurn`, `Met`).
That the search for an id ends at a free one (`FreeIdIsFree`) is by counting ids and by the
least number of steps.

`HostFlowProofs`, for any number of copies on one machine: `TypeCorrect`,
`EverythingUnwinds`, `PortStaysMine`, `CancelStaysFinal`, `NoEarlyEnd`. `Unwound` needs
`NothingYet` (before the guard a copy has nothing), `PortIsMine` needs `Unwound`, as one copy's
write to the registry hurts only who holds the guard, and `BridgedFirst`. `NoEarlyEnd` needs
what the watch knows (`Watched`) as long as no other copy has a game: that it has seen this
game, that what it tracks is the desktop and no loader, and that a first look which missed the
game without a slip means that the game is over.

`LauncherRunsProofs`, for any builds, servers and number of files: `TypeCorrect`, which
includes that this machine is never taken for the server, and `BundleWholeAlways`, from
`Marked`: unless another build's extraction was cut off, the marker's word about every file is
good, and past the extraction the marker is the run's own. `SettingsKept` and `AsksOnce` (the
prompt comes only while nothing is saved) assume `WholeSettings`: a file that
ships beside a binary names a server, as `hack/package-preconfigured.sh` makes sure of, and
nobody gives the placeholder as a server. Both are false without it (see "Also seen"). `Kept`
follows what was given from the per-user file into the configuration of every later run.

`MapLibraryProofs`: `TypeCorrect`, for any number of copies, in which `InodeLeft` counts that
there is always an inode for a new file. `CacheIsRight`, for any number of players, requests
and changes of the library, from `KeysAreOld`: keys are of libraries there have been, so a
manifest cached under the present key was scanned from the present library.
`OneCopyPublishesWhole`, for one copy per folder and any number of failures and crashes:
`WholeOnTheWay` says that what is being written has no other name, and what is about to be
linked is whole. With two copies it is false (finding 3). `OneCopyNeverClobbers`, under the
same hypothesis, adds `Untouched`: on a volume with hard links nothing is renamed into place,
and what is being written is never the file to which the player has given a name of his own.

`TypeCorrect` of these modules is proved and not in a run of its own, but for
`RelaySession`'s, where the caps on streams are part of it.

Assumptions: the named `ASSUME`s of each module, and those each theorem states. That an
`Accept`ed connection is finally closed by its goroutine, and that locks exclude, is built
into the steps.

Only model-checked: the liveness properties, which are out of this prover's reach
(`SlotsComeBack`, `WindsUp`, `HostToldOfEnd`, `EndsTogether`, `ServeEnds`, `WC3Released`,
`VanishingNoticed`, `Through`, `HalfOpenHeals`, `HostingEnds`, `Arrives`), and `NeverStuck`, which speaks of
`ENABLED`. Two copies of the launcher in one folder are only model-checked too, as a violation.

## Findings

1. `LinkTold` / `WC3Told`. `OpenClientStream` looks at `done`, then registers; `closeAll`
   takes its snapshot first and closes `done` last. A stream registered in between is
   in no list, and WC3's connection hangs until WC3 itself sends or closes. The relay's
   `addConn` has the check under the lock that is missing here.
2. `LauncherAsks` / `AsksIfNotConfigured`. A run without a server goes on with its placeholder
   (no terminal, or nothing entered), and on the direct way writes it into the registry. The
   next run takes that for the server of an older launcher, saves it, and neither it nor any
   later one asks. `parseGateway` has the check for this machine, and says why, but not for
   the placeholder.
3. `MapLibraryTwo` / `PublishedWhole`. The map sync runs before the single-instance guard.
   Of two copies started together one links the `.part` file into place that the other
   has just truncated; if that one dies, the torn map stays, since a name that is there
   is never fetched again. `writeNew` says it publishes atomically.
4. `KeepAliveBusy` / `SilentIsDead`. The relay answers PINGs behind the dials of the OPENs before
   them, up to ten seconds each, and a dial that succeeds sends nothing. Seven streams that open
   together (the cap is 16), and a PvPGN that takes nine seconds for each, keep the launcher
   without a frame for longer than its 90 s, and it drops a live tunnel. link.go:37-39 takes such
   a tunnel for dead, and session.go:373-374 says that a hung backend stalls only the open of its
   own stream. With five ("a handful", session.go:356) it cannot happen (`NoFalseDeath`).

Also seen, without a run of its own:

- Both ends act on CLOSE at once: the relay's `closeConn` closes the socket, the launcher's
  `closeStream` the pipe, while chunks that came before are still queued, so the last bytes
  of a peer that writes and closes at once may be cut off; hence `Verbatim` promises a prefix.
- A write to WC3 in a copy loop has no deadline, and what would close the connection waits behind
  it: a game that keeps a connection open without reading keeps its bridge (link.go:374, 392), or
  the handle of its gateway connection (gateway.go:125-133), after the tunnel has gone.
- A full queue at the relay closes and removes by id (session.go:305-311), and a bridge's second
  loop may send DATA after the first one's CLOSE: either may hit the id's next holder. They are
  in `StreamIds`, and `HalfOpenHeals` holds with them.
- client.go:22-24 and main.go:344-345 say `WaitForGameExit` blocks for ever when the game never
  appears; the code returns after about six minutes, and its comment at client.go:39-41 says
  why (`NeverAppeared` in `HostFlow`).
- An extraction of a newer bundle that is cut off leaves the older marker: the older copy
  behind the icon then starts the game with mixed files. `BundleWhole` names the case.
- README.md:76-79 says the answers of the first run are saved next to the binary, and that
  deleting that file runs the setup again. They are saved in the per-user config; and when
  it is deleted, the gateway a direct run has left in the registry is adopted instead.
- prereqs_linux.go:180-181, 205 and 306-307 say that with a Wine of unknown layout both bitnesses are
  checked, so that the launcher asks rather than skips; but `hasVulkanForWine` and
  `hasGstreamerCodecs` are content with the first path they find, of whichever bitness. And
  `vulkanLoaderPaths` knows no distributions: for a 32-bit Wine on Arch it accepts
  `/usr/lib/libvulkan.so.1`, by its own comments the 64-bit loader there.
- Of the files beside the binary and in the per-user folder, `loadFileConfig`
  (runtimeconfig.go:86-100) reads the first it finds. A hand-made `wc3-launcher.json` with a token
  only, beside a stock binary, hides the answers of an earlier run, and the launcher asks again;
  main.go:119-121 says this happens only once, even after a later launcher download.
- Two copies started together write the same `wc3-launcher.new` in `copyExecutable`.
- A crash between the desktop icon and its marker lets a later run create the icon again
  after the player has deleted it.
- With ids that come round, an OPEN may meet the pump of the id's last holder between its
  CLOSE and its removal, and ends the session, though session.go:294-297 says a real launcher
  never sends such an OPEN. `MeetsOnlyTheLeaving` says that this is the only way. A late CLOSE,
  or a removal by id, may end the id's new holder, and `HalfOpenHeals` says that both its ends
  then go.

## Not modelled, and why

- In `RelaySession`, `Link` and `StreamPath` an id is used once; `StreamIds` has the reuse, and of
  DATA only what finds the relay's queue full. Which byte of a frame's header holds what, and the
  payloads of control frames, are pure functions, which the tests cover.
- In `TunnelWire`, a peer whose frames are not those of this code.
- `checkHostPort` and the certificate pin are outcomes of `Dial` in `HostFlow`.
- Of a run of the launcher: `gameDir`'s choice of a folder, the desktop icon with its marker,
  the realm's display name and the maps' address in the settings.
- In the map library: the budgets over many maps, the rules for names, maps rewritten in
  place (a half-copied map is listed and served as it is), Windows' file semantics.
- Sequential I/O without an order that matters: `prereqs`, `installer`, `desktop`,
  `doctor`, `wineenv`, build tools.
- Wording, logging, and the layout of registry values, which the tests cover.

## Plan

Done, in order of importance: `RelayServer` with `PortLease`, `RelaySession`, `StreamPath` with
`BytePipe`, `Link`, `KeepAlive`, `HostFlow` with `Dial`, `MapLibrary`, `LauncherRuns`,
`StreamIds`, `TunnelWire`; the proofs of all of them. Every safety property that a run checks and that must
hold is a theorem, but for `NeverStuck`.

Next: of the hazards no property covers yet, Windows' file semantics and the direct way beside
a copy that hosts are the ones worth a model; the map library with several names and its
budgets; `NeverStuck` restated without `ENABLED`, by where the reader's next step is.
