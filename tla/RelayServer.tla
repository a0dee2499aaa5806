----------------------------- MODULE RelayServer -----------------------------
(***************************************************************************)
(* The relay daemon's admission and port bookkeeping: the accept loop and  *)
(* the two session caps (internal/relay/server.go), the pool of public     *)
(* game ports (internal/relay/pool.go) and the life of one session as the  *)
(* goroutine that runs it sees it (Session.Run in session.go), down to the *)
(* deferred calls that undo it in last-in-first-out order.                 *)
(*                                                                         *)
(* What happens inside a session that is up (its reader, its joiner accept *)
(* loop, its streams) is one state here, "up"; RelaySession models it.     *)
(***************************************************************************)
EXTENDS Integers, Sequences, FiniteSets

CONSTANTS Conns,          \* tunnel connections; one is used again once it ended
          Sources,        \* what capKey maps remote addresses to
          SourceOf,       \* the source each connection comes from
          Lo, Hi,         \* the inclusive range of public game ports
          MaxPerIP,       \* maxSessionsPerIP
          MaxTotal,       \* maxSessionsTotal
          TLSConfigured,  \* the server has a certificate
          RequireTLS,     \* plaintext tunnels are refused
          TokenSet,       \* a shared token is configured
          RequireAuth     \* a wrong token is refused, not just logged

ASSUME ConnsAssumption == IsFiniteSet(Conns) /\ SourceOf \in [Conns -> Sources]
ASSUME RangeAssumption == Lo \in 1..65535 /\ Hi \in 1..65535 /\ Lo <= Hi
ASSUME CapsAssumption == MaxPerIP \in Nat \ {0} /\ MaxTotal \in Nat \ {0}
ASSUME GatesAssumption == /\ TLSConfigured \in BOOLEAN /\ RequireTLS \in BOOLEAN
                          /\ TokenSet \in BOOLEAN /\ RequireAuth \in BOOLEAN

Ports == Lo..Hi
NoPort == 0       \* the zero value of Session.port

VARIABLES pc,      \* where the goroutine of each connection is
          port,    \* Session.port
          lnOpen,  \* the connections whose public listener is bound
          free,    \* Pool.free
          used,    \* Pool.used
          perIP,   \* Server.perIP, 0 for an absent key
          total,   \* Server.total
          silent   \* the connections whose launcher will send nothing more

pool == <<free, used>>
slots == <<perIP, total>>
vars == <<pc, port, lnOpen, free, used, perIP, total, silent>>

\* "idle": no connection.  "accepted": Accept returned it to the accept loop.
\* "wrap" .. "up": the goroutine runs wrapTLS and Session.Run.  The last four
\* are its deferred calls, each named for the one that runs next.
Deferred == {"closeLn", "freePort", "closeTun", "freeSlot"}
Handshaking == {"wrap", "hello", "alloc", "bind", "ack"}
Stages == {"idle", "accepted", "up"} \cup Handshaking \cup Deferred

HasSlot(c) == pc[c] \notin {"idle", "accepted"}
HasPort(c) == pc[c] \in {"bind", "ack", "up", "closeLn", "freePort"}

Goto(c, stage) == pc' = [pc EXCEPT ![c] = stage]

\* The deferred call that runs first when Run, or the goroutine around it,
\* returns or panics at a stage.
FirstDeferred(stage) ==
  CASE stage = "wrap"               -> "freeSlot"
    [] stage \in {"hello", "alloc"} -> "closeTun"
    [] stage = "bind"               -> "freePort"
    [] stage \in {"ack", "up"}      -> "closeLn"
-----------------------------------------------------------------------------
NewPool == [i \in 1..(Hi - Lo + 1) |-> Lo + i - 1]

Init ==
  /\ pc = [c \in Conns |-> "idle"]
  /\ port = [c \in Conns |-> NoPort]
  /\ lnOpen = {}
  /\ free = NewPool
  /\ used = {}
  /\ perIP = [s \in Sources |-> 0]
  /\ total = 0
  /\ silent = {}
-----------------------------------------------------------------------------
(* The accept loop. *)

\* The loop handles one connection at a time.
Accept(c) ==
  /\ pc[c] = "idle"
  /\ \A d \in Conns : pc[d] # "accepted"
  /\ Goto(c, "accepted")
  /\ UNCHANGED <<port, lnOpen, pool, slots, silent>>

CapReachedLate(s) == total > MaxTotal \/ perIP[s] > MaxPerIP   \* mutant: off by one
CapReached(s) == total >= MaxTotal \/ perIP[s] >= MaxPerIP

Admit(c) ==
  LET s == SourceOf[c] IN
  /\ pc[c] = "accepted"
  /\ ~CapReached(s)
  /\ perIP' = [perIP EXCEPT ![s] = @ + 1]
  /\ total' = total + 1
  /\ Goto(c, "wrap")
  /\ UNCHANGED <<port, lnOpen, pool, silent>>

Refuse(c) ==
  /\ pc[c] = "accepted"
  /\ CapReached(SourceOf[c])
  /\ Goto(c, "idle")
  /\ UNCHANGED <<port, lnOpen, pool, slots, silent>>

\* Server.release; the goroutine defers it, so it runs after Run has returned.
ReleaseTotalOnly(s) ==   \* mutant: the count of the source is forgotten
  /\ total' = IF total > 0 THEN total - 1 ELSE total
  /\ UNCHANGED perIP
Release(s) ==
  /\ perIP' = [perIP EXCEPT ![s] = IF @ > 0 THEN @ - 1 ELSE @]
  /\ total' = IF total > 0 THEN total - 1 ELSE total

FreeSlot(c) ==
  /\ pc[c] = "freeSlot"
  /\ Release(SourceOf[c])
  /\ Goto(c, "idle")
  /\ silent' = silent \ {c}
  /\ UNCHANGED <<port, lnOpen, pool>>
-----------------------------------------------------------------------------
(* Before HELLO.  One absolute read deadline covers wrapTLS and the HELLO   *)
(* read, so each of these reads may fail whatever the launcher does.        *)

\* With a certificate, the first byte tells a TLS handshake from plaintext.
WrapTLS(c) ==
  /\ pc[c] = "wrap"
  /\ \/ ~TLSConfigured /\ Goto(c, "hello")
     \/ /\ TLSConfigured /\ c \notin silent
        /\ \E tls \in BOOLEAN :
             Goto(c, IF tls \/ ~RequireTLS THEN "hello" ELSE FirstDeferred("wrap"))
  /\ UNCHANGED <<port, lnOpen, pool, slots, silent>>

\* ReadFrame gives a HELLO; its payload matches the token or does not.
ReadHello(c) ==
  /\ pc[c] = "hello"
  /\ c \notin silent
  /\ \E match \in BOOLEAN :
       Goto(c, IF TokenSet /\ ~match /\ RequireAuth THEN FirstDeferred("hello")
                                                    ELSE "alloc")
  /\ UNCHANGED <<port, lnOpen, pool, slots, silent>>

\* The first byte, the TLS handshake or the HELLO does not come in time, or the
\* connection fails, or the first frame is not a HELLO.
HandshakeFailsIfSpoken(c) ==   \* mutant: no read deadline before HELLO
  /\ \/ pc[c] = "wrap" /\ TLSConfigured
     \/ pc[c] = "hello"
  /\ c \notin silent
  /\ Goto(c, FirstDeferred(pc[c]))
  /\ UNCHANGED <<port, lnOpen, pool, slots, silent>>
HandshakeFails(c) ==
  /\ \/ pc[c] = "wrap" /\ TLSConfigured
     \/ pc[c] = "hello"
  /\ Goto(c, FirstDeferred(pc[c]))
  /\ UNCHANGED <<port, lnOpen, pool, slots, silent>>
-----------------------------------------------------------------------------
(* From HELLO to HELLO_ACK. *)

\* Pool.Alloc takes the port that has been free for the longest.
PoolAllocKeeping(c) ==   \* mutant: the port stays on the free list
  /\ port' = [port EXCEPT ![c] = Head(free)]
  /\ used' = used \cup {Head(free)}
  /\ UNCHANGED free
PoolAlloc(c) ==
  /\ port' = [port EXCEPT ![c] = Head(free)]
  /\ free' = Tail(free)
  /\ used' = used \cup {Head(free)}

\* An exhausted pool is answered with ERROR "pool_full".
Alloc(c) ==
  /\ pc[c] = "alloc"
  /\ IF free = <<>>
     THEN Goto(c, FirstDeferred("alloc")) /\ UNCHANGED <<port, pool>>
     ELSE Goto(c, "bind") /\ PoolAlloc(c)
  /\ UNCHANGED <<lnOpen, slots, silent>>

\* The listener is bound with SO_REUSEPORT, so another listener of the relay on
\* the same port would not make it fail.  A foreign socket may.
Bind(c) ==
  /\ pc[c] = "bind"
  /\ \/ Goto(c, "ack") /\ lnOpen' = lnOpen \cup {c}
     \/ Goto(c, FirstDeferred("bind")) /\ UNCHANGED lnOpen
  /\ UNCHANGED <<port, pool, slots, silent>>

\* send of HELLO_ACK; it fails when the tunnel is gone or stalls.
SendAck(c) ==
  /\ pc[c] = "ack"
  /\ Goto(c, "up") \/ Goto(c, FirstDeferred("ack"))
  /\ UNCHANGED <<port, lnOpen, pool, slots, silent>>
-----------------------------------------------------------------------------
(* The end of a session. *)

\* The session's context was cancelled: its teardown goroutine closes the public
\* listener, before or after Run has seen the reader and the accept loop end.
TeardownClosesLn(c) ==
  /\ pc[c] \in {"up", "closeLn"}
  /\ c \in lnOpen
  /\ lnOpen' = lnOpen \ {c}
  /\ UNCHANGED <<pc, port, pool, slots, silent>>

\* Both have ended, after GAMEOVER, a closed or stalled tunnel, a protocol error,
\* a failed Accept or a contained panic.
SessionEnds(c) ==
  /\ pc[c] = "up"
  /\ Goto(c, FirstDeferred("up"))
  /\ UNCHANGED <<port, lnOpen, pool, slots, silent>>

\* One cause comes by itself: the rolling idle deadline of readTunnel.
IdleOutIfSpoken(c) == c \notin silent /\ SessionEnds(c)   \* mutant: no idle deadline
IdleOut(c) == c \in silent /\ SessionEnds(c)

CloseLnForgotten(c) ==   \* mutant: the listener stays open
  /\ pc[c] = "closeLn"
  /\ Goto(c, "freePort")
  /\ UNCHANGED <<port, lnOpen, pool, slots, silent>>
CloseLn(c) ==
  /\ pc[c] = "closeLn"
  /\ lnOpen' = lnOpen \ {c}
  /\ Goto(c, "freePort")
  /\ UNCHANGED <<port, pool, slots, silent>>

\* Pool.Release: a port that is not allocated is left alone.
PoolReleaseHalf(p) ==   \* mutant: the port stays marked as used
  free' = Append(free, p) /\ UNCHANGED used
PoolReleaseNot(p) == UNCHANGED pool   \* mutant: the port is never given back
PoolRelease(p) ==
  IF p \in used
  THEN used' = used \ {p} /\ free' = Append(free, p)
  ELSE UNCHANGED pool

FreePort(c) ==
  /\ pc[c] = "freePort"
  /\ PoolRelease(port[c])
  /\ port' = [port EXCEPT ![c] = NoPort]
  /\ Goto(c, "closeTun")
  /\ UNCHANGED <<lnOpen, slots, silent>>

CloseTun(c) ==
  /\ pc[c] = "closeTun"
  /\ Goto(c, "freeSlot")
  /\ UNCHANGED <<port, lnOpen, pool, slots, silent>>
-----------------------------------------------------------------------------
(* Faults. *)

\* A panic in wrapTLS or Run unwinds through the same deferred calls and is
\* recovered by the goroutine's outermost one.
Panic(c) ==
  /\ pc[c] \in Handshaking
  /\ Goto(c, FirstDeferred(pc[c]))
  /\ UNCHANGED <<port, lnOpen, pool, slots, silent>>

\* The launcher or the path to it dies: nothing more arrives.
FallSilent(c) ==
  /\ HasSlot(c)
  /\ silent' = silent \cup {c}
  /\ UNCHANGED <<pc, port, lnOpen, pool, slots>>

\* Accept fails or a signal comes: ListenAndServe returns, main exits and every
\* session dies with the process; its successor starts from nothing.
DaemonRestarts ==
  /\ \E c \in Conns : pc[c] # "idle"
  /\ pc' = [c \in Conns |-> "idle"]
  /\ port' = [c \in Conns |-> NoPort]
  /\ lnOpen' = {}
  /\ free' = NewPool
  /\ used' = {}
  /\ perIP' = [s \in Sources |-> 0]
  /\ total' = 0
  /\ silent' = {}
-----------------------------------------------------------------------------
\* The steps the daemon takes by itself: the accept loop, the deadlines and the
\* deferred calls.
Progress(c) ==
  \/ Admit(c) \/ Refuse(c)
  \/ WrapTLS(c) \/ ReadHello(c) \/ HandshakeFails(c)
  \/ Alloc(c) \/ Bind(c) \/ SendAck(c)
  \/ IdleOut(c)
  \/ CloseLn(c) \/ FreePort(c) \/ CloseTun(c) \/ FreeSlot(c)

\* What launchers, faults and the inside of a session do.
Environment(c) ==
  \/ Accept(c) \/ FallSilent(c) \/ Panic(c)
  \/ SessionEnds(c) \/ TeardownClosesLn(c)

Next ==
  \/ \E c \in Conns : Progress(c) \/ Environment(c)
  \/ DaemonRestarts

Spec == Init /\ [][Next]_vars

\* Goroutines are scheduled, deadlines expire.
FairSpec == Spec /\ \A c \in Conns : WF_vars(Progress(c))
-----------------------------------------------------------------------------
(* Properties. *)

\* The variables have their types and the counters stay within the caps admit
\* checks.
TypeOK ==
  /\ pc \in [Conns -> Stages]
  /\ port \in [Conns -> Ports \cup {NoPort}]
  /\ lnOpen \subseteq Conns
  /\ free \in Seq(Ports)
  /\ used \subseteq Ports
  /\ perIP \in [Sources -> 0..MaxPerIP]
  /\ total \in 0..MaxTotal
  /\ silent \subseteq Conns

SessionsOf(s) == {c \in Conns : HasSlot(c) /\ SourceOf[c] = s}

\* Every slot the counters say is taken is held by a goroutine that has yet to
\* give it back, whichever way it ends: refused before HELLO, failed, panicked or
\* torn down.  A leaked slot would lock a source, or everybody, out for good
\* (server.go: admit, release and the two defers of the session goroutine).  And
\* never are more of them taken than the caps allow.
SlotsCounted ==
  /\ total = Cardinality({c \in Conns : HasSlot(c)})
  /\ \A s \in Sources : perIP[s] = Cardinality(SessionsOf(s))
SlotAccounting ==
  /\ SlotsCounted
  /\ total <= MaxTotal /\ \A s \in Sources : perIP[s] <= MaxPerIP

\* The pool and the sessions agree on who has which port: the free list has no
\* duplicate, it and the used ports make up the whole range, and the used ports
\* are those of the sessions that have yet to release one, a port each
\* (pool.go: Alloc, Release; session.go: the deferred Release).
FreeDistinct == \A i, j \in 1..Len(free) : free[i] = free[j] => i = j
FreeIsUnused == \A i \in 1..Len(free) : free[i] \notin used
PortsKept == \A p \in Ports : p \in used \/ \E i \in 1..Len(free) : free[i] = p
UsedByHolders == used = {port[c] : c \in {d \in Conns : HasPort(d)}}
OnePortEach ==
  \A c, d \in Conns : HasPort(c) /\ HasPort(d) /\ port[c] = port[d] => c = d

PoolConsistent ==
  FreeDistinct /\ FreeIsUnused /\ PortsKept /\ UsedByHolders /\ OnePortEach

\* No two public listeners are ever bound to one port, and none to a port the
\* pool could hand out.  Only the pool and the order of the deferred calls see to
\* it: the listeners set SO_REUSEPORT, so the kernel would let the second bind
\* succeed and spread the joiners over both games (session.go: ln.Close is
\* deferred after pool.Release, so it runs first; dial_linux.go: reuseControl).
NoSharedListener ==
  \A c \in lnOpen :
    /\ \A d \in lnOpen : port[c] = port[d] => c = d
    /\ \A i \in 1..Len(free) : free[i] # port[c]

\* "pool_full" is only answered when every port of the range is with another
\* session that still runs: a session gives its port back before its slot, so a
\* range with a port for every slot is never exhausted (main.go of wc3-relay: 100
\* ports by default; server.go: 80 slots).
PoolSuffices ==
  Hi - Lo + 1 >= total => \A c \in Conns : pc[c] = "alloc" => free # <<>>

\* Nobody holds a slot for ever by doing nothing.  A launcher that falls silent, before
\* HELLO or in the middle of a game, loses its session: the absolute pre-HELLO deadline
\* or the idle deadline fires, and slot and port come back.  And whatever a launcher
\* does, no connection stays in the handshake: it ends up serving a game or gone
\* (server.go: helloTimeout covers every read until HELLO; session.go: idleTimeout).
SlotsComeBack ==
  \A c \in Conns :
    /\ c \in silent ~> ~HasSlot(c)
    /\ pc[c] \in Handshaking ~> pc[c] \in {"up", "idle"}

\* The port a game is served on: the one its public listener is bound to.
serving == [c \in Conns |-> IF c \in lnOpen THEN port[c] ELSE NoPort]
Lease == INSTANCE PortLease WITH Games <- Conns

\* The daemon's bookkeeping implements the promise about public ports.
ImplementsPortLease == Lease!Spec

=============================================================================
