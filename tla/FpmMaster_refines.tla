------------------------- MODULE FpmMaster_refines --------------------------
(* FpmMaster implements FpmSupervisor.  The state and the children lists    *)
(* are those of the master; a worker's status is what the kernel knows of  *)
(* its process; everything else is hidden.                                 *)
EXTENDS FpmMaster

Status(c) == IF proc[c] = "none" THEN "none" ELSE IF proc[c] \in Dead THEN "dead" ELSE "live"

Supervisor == INSTANCE FpmSupervisor WITH
  Limit   <- [p \in Pool |-> config[p].pm_max_children],
  state   <- fpm_state,
  phase   <- IF mpc \in {"exec", "exited"} THEN mpc ELSE "up",
  pool_of <- child_wp,
  status  <- [c \in Pid |-> Status(c)]

\* Every step of the master, its workers and its operator is a step of the
\* supervisor FPM promises to be, or none.
ImplementsSupervisor == Supervisor!Spec
=============================================================================
