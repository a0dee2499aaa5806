---------------------------- MODULE MCRelayServer ----------------------------
(***************************************************************************)
(* RelayServer for TLC: four launchers, two of them behind one address, so *)
(* that each of the caps and the end of the pool is reached and ports are  *)
(* used again.                                                             *)
(***************************************************************************)
EXTENDS RelayServer

CONSTANTS c1, c2, c3, c4, home, away, cafe

MCConns == {c1, c2, c3, c4}
MCSources == {home, away, cafe}
MCSourceOf == [c \in MCConns |->
                 CASE c \in {c1, c2} -> home [] c = c3 -> away [] c = c4 -> cafe]

=============================================================================
