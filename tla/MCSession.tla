----------------------------- MODULE MCSession ------------------------------
(* Instances of Session for TLC: a monitor of two packets, and beside it a    *)
(* process that traces once into the same directory.                         *)
EXTENDS Session, TLC

CONSTANTS cron, shell

BothSessions == {cron, shell}
TwoAndOneRuns == cron :> 2 @@ shell :> 1
NoIps == cron :> {} @@ shell :> {}
TwoPacketsAndOne == cron :> 2 @@ shell :> 1
BothAndOne == cron :> {"a", "b"} @@ shell :> {"a"}
=============================================================================
