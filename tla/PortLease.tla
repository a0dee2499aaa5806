------------------------------ MODULE PortLease ------------------------------
(***************************************************************************)
(* What the relay promises about its public game ports, with no trace of   *)
(* how: a game is served on one public port, no two games are ever served  *)
(* on the same one, and a port changes hands only after its game stopped   *)
(* being served.  RelayServer implements it.                               *)
(***************************************************************************)
EXTENDS Naturals

CONSTANTS Games,   \* the hosts that may be served
          Ports,   \* the public ports forwarded to the relay
          NoPort   \* what a game that is not served has, never one of Ports

VARIABLE serving   \* the public port each game is served on

Init == serving = [g \in Games |-> NoPort]

Grant(g, p) ==
  /\ serving[g] = NoPort
  /\ \A h \in Games : serving[h] # p
  /\ serving' = [serving EXCEPT ![g] = p]

\* Games end one at a time, or all at once when the daemon dies.
Withdraw(ending) ==
  serving' = [g \in Games |-> IF g \in ending THEN NoPort ELSE serving[g]]

Next ==
  \/ \E g \in Games, p \in Ports : Grant(g, p)
  \/ \E ending \in SUBSET Games : Withdraw(ending)

Spec == Init /\ [][Next]_serving

=============================================================================
