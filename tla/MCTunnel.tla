------------------------------ MODULE MCTunnel ------------------------------
(***************************************************************************)
(* The tunnel for TLC, of which a behaviour has one part: the ids of its   *)
(* streams, the bytes of its frames, or its clocks.  They share no         *)
(* variable and no step, so that nothing is lost by letting the others     *)
(* rest.  What rests among ids and bytes is in its initial state and has   *)
(* nothing to do that fairness would ask for; the clocks would tick, so    *)
(* their fairness is asked for in their part only.                         *)
(***************************************************************************)
EXTENDS StreamIds, TunnelWire, KeepAlive

VARIABLE part

TunnelInit ==
  /\ part \in {"ids", "bytes", "clocks"}
  /\ IdsInit /\ WireInit /\ Init
  /\ part # "ids" => kind = "client"

TunnelNext ==
  \/ part = "ids" /\ IdsNext /\ UNCHANGED <<part, wireVars, vars>>
  \/ part = "bytes" /\ WireNext /\ UNCHANGED <<part, idVars, vars>>
  \/ part = "clocks" /\ Next /\ UNCHANGED <<part, idVars, wireVars>>

TunnelSpec ==
  /\ TunnelInit /\ [][TunnelNext]_<<part, idVars, wireVars, vars>>
  /\ IdsFairness /\ WC3Obliges /\ WireFairness
  /\ part = "clocks" => ClocksFairness
=============================================================================
