---------------------------- MODULE MCStreamPath ----------------------------
(***************************************************************************)
(* StreamPath for TLC.  With queues of one, three chunks up are one more   *)
(* than there are places on the way, and two down one more than the inbox  *)
(* holds while the pipe is blocked on WC3.                                 *)
(***************************************************************************)
EXTENDS StreamPath

MCLoads == {<<3, 0>>, <<1, 1>>, <<0, 2>>}
=============================================================================
