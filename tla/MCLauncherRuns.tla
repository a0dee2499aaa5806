--------------------------- MODULE MCLauncherRuns ---------------------------
(***************************************************************************)
(* LauncherRuns for TLC: a stock build, two that ship settings, the second *)
(* with a rotated token and a newer bundle, and one with a server of its   *)
(* own compiled in.                                                        *)
(***************************************************************************)
EXTENDS LauncherRuns

Stock == [server |-> "placeholder", token |-> ""]
MCBundleOf == [d \in Downloads |-> IF d \in {"second", "baked"} THEN 2 ELSE 1]
MCBakedOf ==
  [d \in Downloads |->
     IF d = "baked" THEN [server |-> "other", token |-> ""] ELSE Stock]
MCShippedOf ==
  [d \in Downloads |->
     CASE d = "first"  -> [server |-> "realm", token |-> "t1"]
       [] d = "second" -> [server |-> "realm", token |-> "t2"]
       [] OTHER        -> NoFile]
MCAsides == {NoSettings, [server |-> "other", token |-> ""]}
=============================================================================
