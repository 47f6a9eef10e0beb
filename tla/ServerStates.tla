---------------------------- MODULE ServerStates ----------------------------
(***************************************************************************)
(* The lifecycle `status().state` shows to a user of LonesomeServer        *)
(* (ServerState in src/config/status.rs): idle until the first start, then *)
(* running, stopping and stopped in turns.                                 *)
(***************************************************************************)
VARIABLE state

Init == state = "idle"
Started == state \in {"idle", "stopped"} /\ state' = "running"
StopRequested == state = "running" /\ state' = "stopping"
StopFinished == state = "stopping" /\ state' = "stopped"

Next == Started \/ StopRequested \/ StopFinished
Spec == Init /\ [][Next]_state
=============================================================================
