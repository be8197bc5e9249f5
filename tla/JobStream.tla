------------------------------ MODULE JobStream ------------------------------
(***************************************************************************)
(* What following a job promises its caller, without saying how: a stream  *)
(* of the job's states, none older than one already emitted and none the   *)
(* job has not been in, that completes with the job's last state or when   *)
(* the appliance no longer knows the job, and that cannot fail any more    *)
(* once it has shown a state.  JobTracking is shown to implement this.     *)
(***************************************************************************)
EXTENDS Naturals

CONSTANT Final \* the job's last state

VARIABLES
  job,   \* the job's state: 0 before it is started, above Final once dropped
  phase, \* how far the caller's stream is
  shown  \* the state it emitted last, 0 before any

Init == job \in 0..(Final + 1) /\ phase = "idle" /\ shown = 0

\* The job moves by itself, whoever looks.
JobMoves == job <= Final /\ job' = job + 1 /\ UNCHANGED <<phase, shown>>

Begins ==
  /\ \/ phase = "idle" /\ phase' \in {"starting", "tracking"}
     \/ phase = "starting" /\ phase' = "tracking"
  /\ UNCHANGED <<job, shown>>

Emits(state) ==
  /\ phase = "tracking"
  /\ shown <= state /\ state <= job
  /\ shown' = state
  /\ phase' = IF state = Final THEN "complete" ELSE "tracking"
  /\ UNCHANGED job

\* The job was dropped, its last state perhaps unseen.
Vanishes ==
  /\ phase = "tracking" /\ job > Final
  /\ phase' = "complete"
  /\ UNCHANGED <<job, shown>>

Fails ==
  /\ phase \in {"starting", "tracking"} /\ shown = 0
  /\ phase' = "failed"
  /\ UNCHANGED <<job, shown>>

Leaves ==
  /\ phase \in {"starting", "tracking"}
  /\ phase' = "left"
  /\ UNCHANGED <<job, shown>>

Next ==
  \/ JobMoves \/ Begins \/ Vanishes \/ Fails \/ Leaves
  \/ \E state \in 1..Final : Emits(state)

Spec == Init /\ [][Next]_<<job, phase, shown>>
=============================================================================
