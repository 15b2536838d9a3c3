--------------------------- MODULE ProcmanFairness ---------------------------
(***************************************************************************)
(* Procman with a history variable: which processes the scheduler has      *)
(* given the CPU since a waiting process last became READY.                *)
(***************************************************************************)
EXTENDS Procman

VARIABLE passed          \* passed[p]: who was dispatched while p was READY

hvars == <<vars, passed>>

\* A switch gives the CPU to another process than the one that had it.
Dispatched == IF current' # current THEN {current'} ELSE {}

HInit == Init /\ passed = [p \in Pids |-> {}]

HNext ==
  /\ Next
  /\ passed' = [p \in Pids |-> IF proc'[p].state = "READY"
                               THEN passed[p] \cup Dispatched ELSE {}]

HSpec == HInit /\ [][HNext]_hvars /\ WF_vars(timer_handler)

\* Round robin: while a process waits for the CPU no other process gets it
\* twice, whoever yields, blocks, sleeps, wakes, is created or ends meanwhile.
BoundedOvertaking ==
  [][\A p \in Pids :
       proc[p].state = "READY" /\ proc'[p].state = "READY"
         => Dispatched \cap passed[p] = {}]_hvars
=============================================================================
