------------------------------ MODULE BytePipe ------------------------------
(***************************************************************************)
(* What one direction of a spliced connection promises: the chunks that go *)
(* in at one end come out at the other, in order and once.  With Gaps some *)
(* may be missing; without, what came out is a prefix of what went in.     *)
(***************************************************************************)
EXTENDS Naturals, Sequences

CONSTANT Gaps   \* chunks may be left out

VARIABLES sent,   \* how many chunks went in: 1, 2, ..., sent
          got     \* the chunks that came out

Init == sent = 0 /\ got = <<>>

Last == IF got = <<>> THEN 0 ELSE got[Len(got)]

Put == sent' = sent + 1 /\ UNCHANGED got

Take(chunk) ==
  /\ Last < chunk /\ chunk <= sent
  /\ ~Gaps => chunk = Last + 1
  /\ got' = Append(got, chunk)
  /\ UNCHANGED sent

Next == Put \/ \E chunk \in 1..sent : Take(chunk)

Spec == Init /\ [][Next]_<<sent, got>>

=============================================================================
