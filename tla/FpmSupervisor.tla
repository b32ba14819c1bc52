--------------------------- MODULE FpmSupervisor ---------------------------
(***************************************************************************)
(* What the process manager of FPM promises, without how: no event loop,   *)
(* timers, pipes, scoreboard, counters or signals.  Workers are forked in  *)
(* normal operation only and within the limits; each one that dies is      *)
(* reaped once; a request to stop only ever grows stronger; the master     *)
(* leaves with no worker left behind, and re-executes itself only for a    *)
(* reload.  FpmMaster implements this (FpmMaster_refines).                 *)
(***************************************************************************)
EXTENDS Integers, FiniteSets

CONSTANTS
  Pid,
  NPools,
  Limit,        \* Limit[p]: the most workers of pool p
  process_max   \* the most workers of all pools, 0 = no limit

VARIABLES
  state,    \* what the master is asked to do
  phase,    \* the master is up, about to re-execute itself, or has exited
  pool_of,  \* the pool of a worker, 0 = none
  status    \* "none", "live" or "dead", which is not reaped yet

vars == <<state, phase, pool_of, status>>

Rank == [normal |-> 0, reloading |-> 1, finishing |-> 2, terminating |-> 3]

Workers(p) == {c \in Pid : pool_of[c] = p}
AllWorkers == {c \in Pid : pool_of[c] # 0}

WithinLimits ==
  /\ \A p \in 1 .. NPools : Cardinality(Workers(p)) <= Limit[p]
  /\ process_max > 0 => Cardinality(AllWorkers) <= process_max

Init ==
  /\ state = "normal" /\ phase = "up"
  /\ pool_of = [c \in Pid |-> 0] /\ status = [c \in Pid |-> "none"]

Fork(c, p) ==
  /\ phase = "up" /\ state = "normal" /\ status[c] = "none"
  /\ status' = [status EXCEPT ![c] = "live"]
  /\ pool_of' = [pool_of EXCEPT ![c] = p]
  /\ WithinLimits'
  /\ UNCHANGED <<state, phase>>

Die(c) ==
  /\ status[c] = "live"
  /\ status' = [status EXCEPT ![c] = "dead"]
  /\ UNCHANGED <<state, phase, pool_of>>

\* A stronger request may come, and a master without workers may leave.
Onward ==
  /\ phase = "up"
  /\ Rank[state'] >= Rank[state]
  /\ \/ phase' = "up"
     \/ /\ state' # "normal" /\ AllWorkers' = {}
        /\ phase' = IF state' = "reloading" THEN "exec" ELSE "exited"

Decide == Onward /\ UNCHANGED <<pool_of, status>>

Reap(c) ==
  /\ status[c] = "dead"
  /\ status' = [status EXCEPT ![c] = "none"]
  /\ pool_of' = [pool_of EXCEPT ![c] = 0]
  /\ Onward

\* The new image of the master, or its end by a signal before it is set up.
Restart ==
  /\ phase = "exec"
  /\ \/ phase' = "up" /\ state' = "normal"
     \/ phase' = "exited" /\ UNCHANGED state
  /\ UNCHANGED <<pool_of, status>>

Next ==
  \/ \E c \in Pid : (\E p \in 1 .. NPools : Fork(c, p)) \/ Die(c) \/ Reap(c)
  \/ Decide \/ Restart

Spec == Init /\ [][Next]_vars
=============================================================================
