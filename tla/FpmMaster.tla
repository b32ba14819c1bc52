----------------------------- MODULE FpmMaster -----------------------------
(***************************************************************************)
(* The process manager of FPM (src/sapi/cli/fpm): the master, which forks, *)
(* counts, signals and reaps worker processes; the workers, which accept   *)
(* connections, publish their stage in the scoreboard and obey signals;    *)
(* and the kernel between them (pending signals, zombies, listen queue).   *)
(*                                                                         *)
(* The master is one thread running an event loop.  A handler that calls   *)
(* fpm_children_make forks several times; each fork is a step, because a   *)
(* child runs as soon as it exists.  mpc is the handler the master is in,  *)
(* wp the pool it works on, max and ret the bound and the caller of        *)
(* fpm_children_make.  Time is abstracted: an armed timer may fire at any  *)
(* moment, and a timeout comparison has either outcome.                    *)
(***************************************************************************)
EXTENDS Integers, Sequences, FiniteSets

CONSTANTS
  NPools,       \* pools are numbered in the order of fpm_worker_all_pools
  Pid,          \* process ids the kernel can hand out
  config,       \* config[p]: the pool's configuration record (wp->config)
  process_max,                  \* global process.max, 0 = no limit
  emergency_restart_threshold,  \* 0 = feature off
  MaxSignals,   \* bound: signals an operator sends to the master
  MaxFaults,    \* bound: crashes, failed child inits and failed forks
  Backlog       \* bound: connections waiting in one listen queue

Pool == 1 .. NPools
Slot(p) == 0 .. config[p].pm_max_children - 1

\* What fpm_conf_process_all_pools has accepted or rewritten.
ConfigOK(c) ==
  /\ c.pm \in {"static", "dynamic", "ondemand"}
  /\ {c.pm_max_children, c.pm_start_servers, c.pm_min_spare_servers,
      c.pm_max_spare_servers, c.pm_max_spawn_rate} \subseteq Nat
  /\ c.pm_max_children >= 1
  /\ c.pm = "dynamic" =>
       /\ 1 <= c.pm_min_spare_servers
       /\ c.pm_min_spare_servers <= c.pm_start_servers
       /\ c.pm_start_servers <= c.pm_max_spare_servers
       /\ c.pm_max_spare_servers <= c.pm_max_children
       /\ c.pm_max_spawn_rate >= 1
  /\ {c.pm_max_requests, c.request_terminate_timeout} \subseteq BOOLEAN

ASSUME ConstantsAssumption ==
  /\ NPools \in Nat \ {0}
  /\ \A p \in Pool : ConfigOK(config[p])
  /\ {process_max, emergency_restart_threshold, MaxSignals, MaxFaults, Backlog}
       \subseteq Nat
  /\ IsFiniteSet(Pid)

VARIABLES
  \* the master: fpm_process_ctl.c and fpm_events.c
  fpm_state, fpm_signal_sent,
  pctl_event,       \* is the escalation timer armed?
  bury_timer,       \* is children_bury_timer armed?
  sigpipe,          \* characters in the self-pipe sp[], but for 'C'
  chld,             \* is a 'C' in the pipe or a SIGCHLD pending?
  mpc, wp, max, ret,
  \* the master: fpm_children.c and fpm_worker_pool.h
  child_wp,         \* child_wp[c]: pool whose children list holds c, 0 = none
  older,            \* <<c, d>>: listed siblings, c->started before d->started
  idle_kill,        \* child->idle_kill
  scoreboard_i,     \* child->scoreboard_i
  running,          \* wp->running_children
  running_all,      \* fpm_globals.running_children
  idle_spawn_rate,  \* wp->idle_spawn_rate
  faults,           \* faults within emergency_restart_interval
  \* shared memory: fpm_scoreboard.c
  procs,            \* procs[p][i]: "free" (used = 0) or the slot's stage
  free_proc,        \* scoreboard->free_proc
  \* workers and kernel
  proc,             \* what process c is doing
  sigs,             \* signals pending on c
  in_shutdown,      \* c's in_shutdown flag of fastcgi.c
  backlog,          \* connections in the pool's listen queue
  edge,             \* edge-triggered readiness of an ondemand pool's socket
  nsignals, nfaults \* how much of MaxSignals and MaxFaults is used

pctlVars   == <<fpm_state, fpm_signal_sent, pctl_event>>
loopVars   == <<bury_timer, sigpipe, chld>>
ctlVars    == <<mpc, wp, max, ret>>
childVars  == <<child_wp, older, idle_kill, scoreboard_i, running, running_all>>
poolVars   == <<idle_spawn_rate, faults>>
slotVars   == <<procs, free_proc>>
workerVars == <<proc, in_shutdown>>
netVars    == <<backlog, edge>>
boundVars  == <<nsignals, nfaults>>
vars == <<pctlVars, loopVars, ctlVars, childVars, poolVars, slotVars,
          workerVars, sigs, netVars, boundVars>>

State  == {"normal", "reloading", "finishing", "terminating"}
Signal == {"QUIT", "TERM", "KILL"}
Stage  == {"creating", "accepting", "active"}
Dead   == {"exited", "killed", "fault"}     \* a zombie and how it died
Live   == {"born", "up", "idle", "conn", "busy"}

Children(p) == {c \in Pid : child_wp[c] = p}
AllChildren == {c \in Pid : child_wp[c] # 0}
Zombies     == {c \in Pid : proc[c] \in Dead}
Used(p)     == {i \in Slot(p) : procs[p][i] # "free"}

\* fpm_request_is_idle: the unlocked read of the slot's stage.
fpm_request_is_idle(c) ==
  procs[child_wp[c]][scoreboard_i[c]] = "accepting"
Idle(p) == {c \in Children(p) : fpm_request_is_idle(c)}

TypePctl ==
  /\ fpm_state \in State
  /\ fpm_signal_sent \in Signal \cup {"none"}
  /\ pctl_event \in BOOLEAN

TypeLoop ==
  /\ bury_timer \in BOOLEAN
  /\ chld \in BOOLEAN
  /\ sigpipe \in Seq({"T", "Q", "2"})

TypeCtl ==
  /\ mpc \in {"start", "loop", "bury", "maint", "make", "exec", "exited"}
  /\ wp \in 0 .. NPools
  /\ max \in Nat
  /\ ret \in {"none", "start", "bury", "maint", "accept"}

TypeChild ==
  /\ child_wp \in [Pid -> 0 .. NPools]
  /\ older \subseteq Pid \X Pid
  /\ idle_kill \in [Pid -> BOOLEAN]
  /\ scoreboard_i \in [Pid -> Nat \cup {-1}]
  /\ running \in [Pool -> Nat]
  /\ running_all \in Nat

TypePool == idle_spawn_rate \in [Pool -> Nat \ {0}] /\ faults \in Nat

TypeSlot ==
  /\ DOMAIN procs = Pool
  /\ \A p \in Pool : procs[p] \in [Slot(p) -> Stage \cup {"free"}]
  /\ free_proc \in [Pool -> Nat]
  /\ \A p \in Pool : free_proc[p] \in Slot(p)

TypeWorker ==
  /\ proc \in [Pid -> Live \cup Dead \cup {"none"}]
  /\ sigs \in [Pid -> SUBSET Signal]
  /\ in_shutdown \in [Pid -> BOOLEAN]

TypeNet ==
  /\ backlog \in [Pool -> 0 .. Backlog]
  /\ edge \in [Pool -> BOOLEAN]
  /\ nsignals \in 0 .. MaxSignals
  /\ nfaults \in 0 .. MaxFaults

TypeOK == TypePctl /\ TypeLoop /\ TypeCtl /\ TypeChild /\ TypePool /\ TypeSlot
          /\ TypeWorker /\ TypeNet

Init ==
  /\ fpm_state = "normal" /\ fpm_signal_sent = "none" /\ pctl_event = FALSE
  /\ bury_timer = FALSE /\ sigpipe = <<>> /\ chld = FALSE
  /\ mpc = "start" /\ wp = 1 /\ max = 0 /\ ret = "none"
  /\ child_wp = [c \in Pid |-> 0]
  /\ older = {}
  /\ idle_kill = [c \in Pid |-> FALSE]
  /\ scoreboard_i = [c \in Pid |-> -1]
  /\ running = [p \in Pool |-> 0] /\ running_all = 0
  /\ idle_spawn_rate = [p \in Pool |-> 1]
  /\ faults = 0
  /\ procs = [p \in Pool |-> [i \in Slot(p) |-> "free"]]
  /\ free_proc = [p \in Pool |-> 0]
  /\ proc = [c \in Pid |-> "none"]
  /\ sigs = [c \in Pid |-> {}]
  /\ in_shutdown = [c \in Pid |-> FALSE]
  /\ backlog = [p \in Pool |-> 0]
  /\ edge = [p \in Pool |-> FALSE]
  /\ nsignals = 0 /\ nfaults = 0

-----------------------------------------------------------------------------
(* Signals and the master's life cycle: fpm_process_ctl.c.                 *)

Goto(pc, p) == mpc' = pc /\ wp' = p /\ max' = 0 /\ ret' = "none"

\* The loop over fpm_worker_all_pools moves on; after the last pool the
\* master is back in the event loop.
NextPool(pc) == IF wp < NPools THEN Goto(pc, wp + 1) ELSE Goto("loop", 0)

\* kill(2): a zombie ignores it, any other process has it pending.
Kill(S, sig) ==
  [c \in Pid |-> IF c \in S /\ proc[c] \in Live THEN sigs[c] \cup {sig} ELSE sigs[c]]

\* fpm_pctl_action_last: leave, having no child left.
fpm_pctl_action_last ==
  /\ Goto(IF fpm_state' = "reloading" THEN "exec" ELSE "exited", 0)
  /\ UNCHANGED <<fpm_signal_sent, pctl_event, sigs>>

\* The next signal of the escalation.
NextSignal(st, sent) ==
  IF sent = "none" THEN IF st = "terminating" THEN "TERM" ELSE "QUIT"
                   ELSE IF sent = "QUIT" THEN "TERM" ELSE "KILL"

\* Slip: the escalation timer is not armed.
fpm_pctl_action_next_NoTimer(sent, pc) ==
  IF running_all' = 0 THEN fpm_pctl_action_last
  ELSE LET sig == NextSignal(fpm_state', sent)
       IN /\ sigs' = Kill({c \in Pid : child_wp'[c] # 0}, sig)
          /\ fpm_signal_sent' = sig
          /\ pctl_event' = FALSE
          /\ Goto(pc, 0)

\* fpm_pctl_action_next, in the state and with the children the handler has
\* by now; the handler then continues at pc.
fpm_pctl_action_next(sent, pc) ==
  IF running_all' = 0 THEN fpm_pctl_action_last
  ELSE LET sig == NextSignal(fpm_state', sent)
       IN /\ sigs' = Kill({c \in Pid : child_wp'[c] # 0}, sig)
          /\ fpm_signal_sent' = sig
          /\ pctl_event' = TRUE
          /\ Goto(pc, 0)

\* Slip: a reload overrides a graceful stop.
Overrides_ReloadWins(new, st) ==
  \/ st = "normal"
  \/ st = "reloading" /\ new \in {"finishing", "terminating"}
  \/ st = "finishing" /\ new \in {"terminating", "reloading"}

\* Which state a request for another one overrides.
Overrides(new, st) ==
  \/ st = "normal"
  \/ st = "reloading" /\ new \in {"finishing", "terminating"}
  \/ st = "finishing" /\ new = "terminating"

\* fpm_pctl(new, FPM_PCTL_ACTION_SET).
fpm_pctl_set(new, pc) ==
  IF new # fpm_state /\ Overrides(new, fpm_state)
  THEN fpm_state' = new /\ fpm_pctl_action_next("none", pc)
  ELSE Goto(pc, 0) /\ UNCHANGED <<pctlVars, sigs>>

\* Slip: children are still made while the master reloads.
fpm_pctl_can_spawn_children_Always == fpm_state # "terminating"

fpm_pctl_can_spawn_children == fpm_state = "normal"

\* The state a character of the self-pipe asks for (INT is handled as TERM).
Requested(ch) ==
  CASE ch = "T" -> "terminating" [] ch = "Q" -> "finishing" [] ch = "2" -> "reloading"

\* fpm_got_signal, one character.  The characters of one read loop are steps
\* of their own: a signal that came a little later gives the same runs.
GotSignal ==
  /\ mpc = "loop" /\ sigpipe # <<>>
  /\ sigpipe' = Tail(sigpipe)
  /\ UNCHANGED <<childVars, bury_timer, chld>>
  /\ fpm_pctl_set(Requested(Head(sigpipe)), "loop")
  /\ UNCHANGED <<poolVars, slotVars, workerVars, netVars, boundVars>>

\* fpm_got_signal on 'C': the burial is postponed to a zero timer.
GotChld ==
  /\ mpc = "loop" /\ chld
  /\ chld' = FALSE /\ bury_timer' = TRUE
  /\ UNCHANGED <<pctlVars, sigpipe, ctlVars, childVars, poolVars, slotVars,
                 workerVars, sigs, netVars, boundVars>>

\* fpm_pctl_action: the escalation timer fires (fpm_event_loop has removed
\* it from the queue before) and fpm_pctl_action_next arms it again.
PctlTimer ==
  /\ mpc = "loop" /\ pctl_event
  /\ UNCHANGED <<fpm_state, childVars>>
  /\ fpm_pctl_action_next(fpm_signal_sent, "loop")
  /\ UNCHANGED <<loopVars, poolVars, slotVars, workerVars, netVars, boundVars>>

\* fpm_pctl_exec and the new program image: same pid and listening sockets,
\* everything else is new.  Characters left in the old self-pipe are lost.
Reexec ==
  /\ mpc = "exec"
  /\ fpm_state' = "normal" /\ fpm_signal_sent' = "none" /\ pctl_event' = FALSE
  /\ bury_timer' = FALSE /\ sigpipe' = <<>> /\ chld' = FALSE
  /\ Goto("start", 1)
  /\ idle_spawn_rate' = [p \in Pool |-> 1] /\ faults' = 0
  /\ procs' = [p \in Pool |-> [i \in Slot(p) |-> "free"]]
  /\ free_proc' = [p \in Pool |-> 0]
  /\ edge' = [p \in Pool |-> FALSE]
  /\ UNCHANGED <<childVars, workerVars, sigs, backlog, boundVars>>

-----------------------------------------------------------------------------
(* Scoreboard slots and the children list.                                 *)

\* fpm_scoreboard_proc_alloc: the hinted slot if it is free, else the first
\* free one; {} when there is none.
FreeSlots(p) == Slot(p) \ Used(p)
AllocSlot(p) ==
  IF free_proc[p] \in FreeSlots(p) THEN {free_proc[p]}
  ELSE {i \in FreeSlots(p) : \A j \in FreeSlots(p) : i <= j}

\* Slip: the hint runs over the end of the slots.
fpm_scoreboard_proc_alloc_NoWrap(c, p, i) ==
  /\ procs' = [procs EXCEPT ![p][i] = "creating"]
  /\ scoreboard_i' = [scoreboard_i EXCEPT ![c] = i]
  /\ free_proc' = [free_proc EXCEPT ![p] = i + 1]

\* fpm_scoreboard_proc_alloc takes slot i for c: used = 1, and the stage
\* still is the 0 left by the last memset.
fpm_scoreboard_proc_alloc(c, p, i) ==
  /\ procs' = [procs EXCEPT ![p][i] = "creating"]
  /\ scoreboard_i' = [scoreboard_i EXCEPT ![c] = i]
  /\ free_proc' = [free_proc EXCEPT
                     ![p] = IF i + 1 >= config[p].pm_max_children THEN 0 ELSE i + 1]

\* Slip: the slot is not cleared.
fpm_scoreboard_proc_free_Leak(c) ==
  /\ free_proc' = [free_proc EXCEPT ![child_wp[c]] = scoreboard_i[c]]
  /\ UNCHANGED procs

fpm_scoreboard_proc_free(c) ==
  LET p == child_wp[c] IN
  /\ procs' = [procs EXCEPT ![p][scoreboard_i[c]] = "free"]
  /\ free_proc' = [free_proc EXCEPT ![p] = scoreboard_i[c]]

fpm_child_link(c, p) ==
  /\ child_wp' = [child_wp EXCEPT ![c] = p]
  /\ older' = older \cup (Children(p) \X {c})
  /\ running' = [running EXCEPT ![p] = @ + 1]
  /\ running_all' = running_all + 1

\* Slip: the global counter is forgotten.
fpm_child_unlink_OneCounter(c) ==
  /\ child_wp' = [child_wp EXCEPT ![c] = 0]
  /\ older' = {x \in older : c \notin {x[1], x[2]}}
  /\ running' = [running EXCEPT ![child_wp[c]] = @ - 1]
  /\ UNCHANGED running_all

fpm_child_unlink(c) ==
  /\ child_wp' = [child_wp EXCEPT ![c] = 0]
  /\ older' = {x \in older : c \notin {x[1], x[2]}}
  /\ running' = [running EXCEPT ![child_wp[c]] = @ - 1]
  /\ running_all' = running_all - 1

\* fpm_child_close and free: the record is gone.
fpm_child_close(c) ==
  /\ idle_kill' = [idle_kill EXCEPT ![c] = FALSE]
  /\ scoreboard_i' = [scoreboard_i EXCEPT ![c] = -1]

-----------------------------------------------------------------------------
(* fpm_children_make and fpm_run.                                          *)

\* The bound the loop of fpm_children_make runs to; in the event loop it is
\* counted from the children the caller has left by then (running').
MakeMax(p, nb, caller) ==
  IF config[p].pm = "static" THEN config[p].pm_max_children
  ELSE IF caller = "start" THEN config[p].pm_start_servers
  ELSE running'[p] + nb

\* A handler calls fpm_children_make(p, in the event loop or not, nb).
fpm_children_make(p, nb, caller) ==
  /\ mpc' = "make" /\ wp' = p /\ ret' = caller
  /\ max' = MakeMax(p, nb, caller)

\* Slip: process.max is not looked at.
MustFork_NoProcessMax == fpm_pctl_can_spawn_children /\ running[wp] < max

\* The condition of its while loop.
MustFork ==
  /\ fpm_pctl_can_spawn_children
  /\ running[wp] < max
  /\ process_max < 1 \/ running_all < process_max

\* One turn of the loop: slot and pipes, fork, and the parent's link.  The
\* child starts with the handled signals blocked.
MakeFork ==
  /\ mpc = "make" /\ MustFork
  /\ \E c \in Pid, i \in AllocSlot(wp) :
       /\ proc[c] = "none"
       /\ fpm_scoreboard_proc_alloc(c, wp, i)
       /\ fpm_child_link(c, wp)
       /\ proc' = [proc EXCEPT ![c] = "born"]
  /\ UNCHANGED <<pctlVars, loopVars, ctlVars, idle_kill, poolVars, in_shutdown,
                 sigs, netVars, boundVars>>

\* Where fpm_children_make returns to.  The spawn rate doubles whether or
\* not the children could be made.
ReturnFromMake ==
  /\ idle_spawn_rate' =
       IF ret = "maint" /\ idle_spawn_rate[wp] < config[wp].pm_max_spawn_rate
       THEN [idle_spawn_rate EXCEPT ![wp] = 2 * @] ELSE idle_spawn_rate
  /\ CASE ret = "bury"              -> Goto("bury", 0)
       [] ret = "accept"            -> Goto("loop", 0)
       [] ret \in {"start", "maint"} -> NextPool(ret)

MakeDone ==
  /\ mpc = "make" /\ ~MustFork
  /\ ReturnFromMake
  /\ UNCHANGED <<pctlVars, loopVars, childVars, faults, slotVars, workerVars,
                 sigs, netVars, boundVars>>

\* A turn that fails: no memory, no pipe or no slot (nothing has changed), or
\* fork failed and fpm_resources_discard gave the slot back.  Only fpm_run
\* looks at the result: it asks for termination and enters the event loop.
MakeFail ==
  /\ mpc = "make" /\ MustFork
  /\ nfaults' = nfaults + (IF FreeSlots(wp) = {} THEN 0 ELSE 1)
  /\ nfaults' <= MaxFaults
  /\ free_proc' \in {free_proc} \cup
       {[free_proc EXCEPT ![wp] = i] : i \in AllocSlot(wp)}
  /\ UNCHANGED childVars
  /\ IF ret = "start"
     THEN fpm_pctl_set("terminating", "loop") /\ UNCHANGED idle_spawn_rate
     ELSE ReturnFromMake /\ UNCHANGED <<pctlVars, sigs>>
  /\ UNCHANGED <<loopVars, faults, procs, workerVars, netVars, nsignals>>

\* fpm_children_create_initial: an ondemand pool only registers its socket,
\* which reports connections already waiting.
StartPool ==
  /\ mpc = "start"
  /\ IF config[wp].pm = "ondemand"
     THEN /\ edge' = [edge EXCEPT ![wp] = backlog[wp] > 0]
          /\ NextPool("start")
     ELSE /\ UNCHANGED <<edge, running>>
          /\ fpm_children_make(wp, 0, "start")
  /\ UNCHANGED <<pctlVars, loopVars, childVars, poolVars, slotVars, workerVars,
                 sigs, backlog, boundVars>>

-----------------------------------------------------------------------------
(* fpm_children_bury: one step for each child waitpid returns.             *)

BuryTimer ==
  /\ mpc = "loop" /\ bury_timer
  /\ bury_timer' = FALSE
  /\ Goto("bury", 0)
  /\ UNCHANGED <<pctlVars, sigpipe, chld, childVars, poolVars, slotVars,
                 workerVars, sigs, netVars, boundVars>>

\* waitpid returns c; it is unlinked and its slot and record are freed.
Reap(c) ==
  /\ mpc = "bury" /\ proc[c] \in Dead
  /\ proc' = [proc EXCEPT ![c] = "none"]
  /\ fpm_child_unlink(c)
  /\ fpm_scoreboard_proc_free(c)
  /\ fpm_child_close(c)
  /\ UNCHANGED <<loopVars, idle_spawn_rate, in_shutdown, netVars, boundVars>>

\* A child killed because it was idle is not replaced, unless it died from
\* something else than the request to quit.
RestartChild(c) == ~(idle_kill[c] /\ proc[c] = "exited")

\* Slip: a pool's counter is taken for the global one.
LeavesMaster_OnePool == fpm_state # "normal" /\ \E p \in Pool : running[p] = 1

\* fpm_pctl_child_exited: the last child of a master that is leaving.
LeavesMaster == fpm_state # "normal" /\ running_all = 1

BuryLast(c) ==
  /\ LeavesMaster
  /\ Reap(c)
  /\ UNCHANGED <<fpm_state, faults>>
  /\ fpm_pctl_action_last

\* Another child: a fault joins the faults of the interval, of which any
\* number may have become too old; the child is replaced.
BuryChild(c) ==
  /\ ~LeavesMaster
  /\ Reap(c)
  /\ faults' \in IF proc[c] = "fault" /\ emergency_restart_threshold > 0
                 THEN 1 .. (IF faults + 1 < emergency_restart_threshold
                            THEN faults + 1 ELSE emergency_restart_threshold - 1)
                 ELSE {faults}
  /\ IF RestartChild(c) THEN fpm_children_make(child_wp[c], 1, "bury")
                        ELSE Goto("bury", 0)
  /\ UNCHANGED <<pctlVars, sigs>>

\* The fault that completes the threshold asks for a reload; the call of
\* fpm_children_make that follows cannot make a child any more.
BuryEmergency(c) ==
  /\ ~LeavesMaster
  /\ proc[c] = "fault" /\ emergency_restart_threshold > 0
  /\ faults + 1 >= emergency_restart_threshold
  /\ Reap(c)
  /\ faults' = emergency_restart_threshold
  /\ fpm_pctl_set("reloading", "bury")

\* Slip: one waitpid for each SIGCHLD.
BuryDone_Once ==
  /\ mpc = "bury"
  /\ Goto("loop", 0)
  /\ UNCHANGED <<pctlVars, loopVars, childVars, poolVars, slotVars, workerVars,
                 sigs, netVars, boundVars>>

BuryDone ==
  /\ mpc = "bury" /\ Zombies = {}
  /\ Goto("loop", 0)
  /\ UNCHANGED <<pctlVars, loopVars, childVars, poolVars, slotVars, workerVars,
                 sigs, netVars, boundVars>>

-----------------------------------------------------------------------------
(* fpm_pctl_perform_idle_server_maintenance: one step for each pool.       *)

MaintBegin ==
  /\ mpc = "loop" /\ fpm_pctl_can_spawn_children
  /\ Goto("maint", 1)
  /\ UNCHANGED <<pctlVars, loopVars, childVars, poolVars, slotVars, workerVars,
                 sigs, netVars, boundVars>>

\* last_idle_child: the idle child that was started first.
LastIdleChild(c, p) ==
  /\ c \in Idle(p)
  /\ \A d \in Idle(p) \ {c} : <<c, d>> \in older

\* Slip: the test of idle_kill is the wrong way round.
fpm_pctl_kill_idle_child_Swapped(c) ==
  /\ sigs' = Kill({c}, IF idle_kill[c] THEN "QUIT" ELSE "KILL")
  /\ idle_kill' = [idle_kill EXCEPT ![c] = TRUE]

fpm_pctl_kill_idle_child(c) ==
  /\ sigs' = Kill({c}, IF idle_kill[c] THEN "KILL" ELSE "QUIT")
  /\ idle_kill' = [idle_kill EXCEPT ![c] = TRUE]

\* Is there an idle child too many?  An ondemand pool has one when it has
\* been idle for pm.process_idle_timeout, of a second at least: any time but
\* while it sits in accept() and a connection waits.
IdleTimedOut(c) ==
  proc[c] = "idle" => backlog[child_wp[c]] = 0 \/ in_shutdown[c] \/ sigs[c] # {}

TooManyIdle(p) ==
  \/ config[p].pm = "ondemand"
  \/ config[p].pm = "dynamic" /\ Cardinality(Idle(p)) > config[p].pm_max_spare_servers

MaintKill ==
  /\ mpc = "maint" /\ TooManyIdle(wp)
  /\ \E c \in Pid :
       /\ LastIdleChild(c, wp)
       /\ config[wp].pm = "ondemand" => IdleTimedOut(c)
       /\ fpm_pctl_kill_idle_child(c)
  /\ idle_spawn_rate' = IF config[wp].pm = "dynamic"
                        THEN [idle_spawn_rate EXCEPT ![wp] = 1] ELSE idle_spawn_rate
  /\ NextPool("maint")
  /\ UNCHANGED <<pctlVars, loopVars, child_wp, older, scoreboard_i, running,
                 running_all, faults, slotVars, workerVars, netVars, boundVars>>

\* Slip: one short of pm.min_spare_servers.
children_to_fork_OffByOne(p) ==
  LET Least(a, b) == IF a < b THEN a ELSE b
  IN Least(idle_spawn_rate[p],
       Least(config[p].pm_min_spare_servers - 1 - Cardinality(Idle(p)),
             config[p].pm_max_children - running[p]))

\* children_to_fork, before the comparison with 0.
children_to_fork(p) ==
  LET Least(a, b) == IF a < b THEN a ELSE b
  IN Least(idle_spawn_rate[p],
       Least(config[p].pm_min_spare_servers - Cardinality(Idle(p)),
             config[p].pm_max_children - running[p]))

MaintSpawn ==
  /\ mpc = "maint" /\ config[wp].pm = "dynamic" /\ children_to_fork(wp) > 0
  /\ UNCHANGED childVars
  /\ fpm_children_make(wp, children_to_fork(wp), "maint")
  /\ UNCHANGED <<pctlVars, loopVars, poolVars, slotVars, workerVars, sigs,
                 netVars, boundVars>>

\* Nothing to kill or to fork in this pool.
MaintNothing ==
  /\ mpc = "maint"
  /\ config[wp].pm = "dynamic" => ~TooManyIdle(wp) /\ children_to_fork(wp) <= 0
  /\ idle_spawn_rate' = IF config[wp].pm = "dynamic"
                        THEN [idle_spawn_rate EXCEPT ![wp] = 1] ELSE idle_spawn_rate
  /\ NextPool("maint")
  /\ UNCHANGED <<pctlVars, loopVars, childVars, faults, slotVars, workerVars,
                 sigs, netVars, boundVars>>

\* fpm_pctl_on_socket_accept: a connection has come to an ondemand pool.
SpawnsOnDemand(p) == running[p] < config[p].pm_max_children /\ Idle(p) = {}

SocketAccept(p) ==
  /\ mpc = "loop" /\ config[p].pm = "ondemand" /\ edge[p]
  /\ edge' = [edge EXCEPT ![p] = FALSE]
  /\ UNCHANGED childVars
  /\ IF SpawnsOnDemand(p) THEN fpm_children_make(p, 1, "accept") ELSE Goto("loop", 0)
  /\ UNCHANGED <<pctlVars, loopVars, poolVars, slotVars, workerVars, sigs,
                 backlog, boundVars>>

\* fpm_pctl_check_request_timeout: some active requests have run longer than
\* request_terminate_timeout; their workers get SIGTERM.
OverTime(c) ==
  /\ child_wp[c] # 0 /\ config[child_wp[c]].request_terminate_timeout
  /\ procs[child_wp[c]][scoreboard_i[c]] = "active"

RequestTimeout ==
  /\ mpc = "loop"
  /\ \E S \in SUBSET {c \in Pid : OverTime(c)} : S # {} /\ sigs' = Kill(S, "TERM")
  /\ UNCHANGED <<pctlVars, loopVars, ctlVars, childVars, poolVars, slotVars,
                 workerVars, netVars, boundVars>>

-----------------------------------------------------------------------------
(* The worker process: fpm_child_init, the accept loop of fpm_main.c with  *)
(* fcgi_accept_request of main/fastcgi.c, and its signals.                 *)

masterVars == <<pctlVars, bury_timer, sigpipe, ctlVars, childVars, poolVars, free_proc>>

SetStage(c, st) == procs' = [procs EXCEPT ![child_wp[c]][scoreboard_i[c]] = st]

\* The process ends; SIGCHLD puts a 'C' into the self-pipe.
Die(c, how) ==
  /\ proc' = [proc EXCEPT ![c] = how]
  /\ in_shutdown' = [in_shutdown EXCEPT ![c] = FALSE]
  /\ sigs' = [sigs EXCEPT ![c] = {}]
  /\ chld' = TRUE
  /\ UNCHANGED masterVars

Become(c, st) ==
  /\ proc' = [proc EXCEPT ![c] = st]
  /\ UNCHANGED <<masterVars, chld, in_shutdown, sigs>>

\* Slip: signals are not blocked around fork; those that come before the
\* worker's handlers are set get lost in the master's sig_handler.
WorkerInit_LosesSignals(c) ==
  /\ proc[c] = "born"
  /\ proc' = [proc EXCEPT ![c] = "up"]
  /\ sigs' = [sigs EXCEPT ![c] = @ \ {"QUIT", "TERM"}]
  /\ UNCHANGED <<masterVars, chld, in_shutdown, procs, netVars, boundVars>>

\* fpm_child_init: the worker's handlers are set, then signals unblocked.
WorkerInit(c) ==
  /\ proc[c] = "born"
  /\ Become(c, "up")
  /\ UNCHANGED <<procs, netVars, boundVars>>

WorkerInitFail(c) ==
  /\ proc[c] = "born" /\ nfaults < MaxFaults
  /\ nfaults' = nfaults + 1
  /\ Die(c, "exited")
  /\ UNCHANGED <<procs, netVars, nsignals>>

\* The head of the accept loop, when not shutting down: on_accept, accept().
WorkerReady(c) ==
  /\ proc[c] = "up" /\ ~in_shutdown[c]
  /\ Become(c, "idle")
  /\ SetStage(c, "accepting")
  /\ UNCHANGED <<netVars, boundVars>>

\* accept() returns a connection; the stage stays "accepting" while the
\* worker polls for its first bytes.
WorkerAccept(c) ==
  /\ proc[c] = "idle" /\ ~in_shutdown[c] /\ backlog[child_wp[c]] > 0
  /\ backlog' = [backlog EXCEPT ![child_wp[c]] = @ - 1]
  /\ Become(c, "conn")
  /\ UNCHANGED <<procs, edge, boundVars>>

\* The poll ends: on_read, or after 5 s without data on_close and again.
WorkerPolled(c) ==
  /\ proc[c] = "conn"
  /\ \E st \in {"busy", "up"} : Become(c, st)
  /\ SetStage(c, "active")
  /\ UNCHANGED <<netVars, boundVars>>

\* The request is finished; the worker loops, or ends at pm.max_requests.
WorkerFinish(c) ==
  /\ proc[c] = "busy"
  /\ \/ Become(c, "up")
     \/ config[child_wp[c]].pm_max_requests /\ Die(c, "exited")
  /\ UNCHANGED <<procs, netVars, boundVars>>

\* fcgi_accept_request returns -1: in_shutdown was seen before accept(), or
\* accept() failed on the socket sig_soft_quit has replaced.
WorkerExit(c) ==
  /\ proc[c] \in {"up", "idle"} /\ in_shutdown[c]
  /\ Die(c, "exited")
  /\ UNCHANGED <<procs, netVars, boundVars>>

\* A segmentation fault or bus error of the worker.
WorkerCrash(c) ==
  /\ proc[c] \in Live /\ nfaults < MaxFaults
  /\ nfaults' = nfaults + 1
  /\ Die(c, "fault")
  /\ UNCHANGED <<procs, netVars, nsignals>>

\* sig_soft_quit, the worker's handler of SIGQUIT.
TakeQuit(c) ==
  /\ proc[c] \in Live \ {"born"} /\ "QUIT" \in sigs[c]
  /\ in_shutdown' = [in_shutdown EXCEPT ![c] = TRUE]
  /\ sigs' = [sigs EXCEPT ![c] = @ \ {"QUIT"}]
  /\ UNCHANGED <<masterVars, chld, proc, procs, netVars, boundVars>>

\* The default action of SIGTERM, once it is unblocked, and of SIGKILL.
TakeFatal(c) ==
  /\ \/ proc[c] \in Live \ {"born"} /\ "TERM" \in sigs[c]
     \/ proc[c] \in Live /\ "KILL" \in sigs[c]
  /\ Die(c, "killed")
  /\ UNCHANGED <<procs, netVars, boundVars>>

-----------------------------------------------------------------------------
(* The operator and the clients.                                           *)

\* sig_handler writes the signal's character into the self-pipe.
sig_handler(ch) ==
  /\ mpc \notin {"exec", "exited"} /\ nsignals < MaxSignals
  /\ nsignals' = nsignals + 1
  /\ sigpipe' = Append(sigpipe, ch)
  /\ UNCHANGED <<pctlVars, bury_timer, chld, ctlVars, childVars, poolVars, slotVars,
                 workerVars, sigs, netVars, nfaults>>

\* TERM or QUIT before the new image has installed its handlers.
ExecInterrupted ==
  /\ mpc = "exec" /\ nsignals < MaxSignals
  /\ nsignals' = nsignals + 1
  /\ Goto("exited", 0)
  /\ UNCHANGED <<pctlVars, loopVars, childVars, poolVars, slotVars, workerVars,
                 sigs, netVars, nfaults>>

Connect(p) ==
  /\ mpc # "exited" /\ backlog[p] < Backlog
  /\ backlog' = [backlog EXCEPT ![p] = @ + 1]
  /\ edge' = [edge EXCEPT ![p] = config[p].pm = "ondemand"]
  /\ UNCHANGED <<pctlVars, loopVars, ctlVars, childVars, poolVars, slotVars,
                 workerVars, sigs, boundVars>>

\* The master has exited.
Terminated == mpc = "exited" /\ UNCHANGED vars

-----------------------------------------------------------------------------
MasterStep ==
  \/ StartPool \/ MakeFork \/ MakeDone \/ MakeFail \/ Reexec
  \/ \E c \in Pid : BuryLast(c) \/ BuryChild(c) \/ BuryEmergency(c)
  \/ BuryDone \/ MaintKill \/ MaintSpawn \/ MaintNothing

LoopStep ==
  \/ GotSignal \/ GotChld \/ PctlTimer \/ BuryTimer \/ MaintBegin
  \/ RequestTimeout \/ \E p \in Pool : SocketAccept(p)

WorkerStep(c) ==
  \/ WorkerInit(c) \/ WorkerInitFail(c) \/ WorkerReady(c) \/ WorkerAccept(c)
  \/ WorkerPolled(c) \/ WorkerFinish(c) \/ WorkerExit(c) \/ WorkerCrash(c)
  \/ TakeQuit(c) \/ TakeFatal(c)

OutsideStep ==
  \/ \E ch \in {"T", "Q", "2"} : sig_handler(ch)
  \/ ExecInterrupted \/ \E p \in Pool : Connect(p)

Next ==
  \/ MasterStep \/ LoopStep \/ \E c \in Pid : WorkerStep(c)
  \/ OutsideStep \/ Terminated

Spec == Init /\ [][Next]_vars

\* The master runs whatever handler it is in.  One turn of fpm_event_loop
\* serves every ready descriptor and every due timer, so a callback that is
\* due again and again is called in the end.  Workers run; a request need
\* not end, and a client need not send.
Fairness ==
  /\ WF_vars(MasterStep)
  /\ SF_vars(GotSignal) /\ SF_vars(GotChld) /\ SF_vars(PctlTimer)
  /\ SF_vars(BuryTimer) /\ SF_vars(MaintBegin)
  /\ \A p \in Pool : SF_vars(SocketAccept(p))
  /\ \A c \in Pid :
       /\ WF_vars(WorkerInit(c) \/ WorkerReady(c) \/ WorkerPolled(c) \/ WorkerExit(c))
       /\ WF_vars(TakeQuit(c) \/ TakeFatal(c))
  /\ \A p \in Pool : WF_vars(\E c \in Children(p) : WorkerAccept(c))

FairSpec == Spec /\ Fairness

\* The same where every request ends.
ServingSpec == FairSpec /\ \A c \in Pid : WF_vars(WorkerFinish(c))

-----------------------------------------------------------------------------
(* Correctness.                                                            *)

\* The counters the limits are checked with are the lengths of the children
\* lists, through every fork, failed fork and burial (fpm_child_link and
\* fpm_child_unlink adjust two counters by hand).
CountersExact ==
  /\ \A p \in Pool : running[p] = Cardinality(Children(p))
  /\ running_all = Cardinality(AllChildren)

\* A scoreboard slot is used by exactly one listed child and no slot leaks:
\* otherwise two workers would overwrite each other's stage, or a pool would
\* run out of slots below pm.max_children (fpm_scoreboard_proc_alloc and
\* fpm_scoreboard_proc_free, also when fork fails in between).
SlotsExact ==
  /\ \A c \in AllChildren : scoreboard_i[c] \in Used(child_wp[c])
  /\ \A c, d \in AllChildren :
       c # d /\ child_wp[c] = child_wp[d] => scoreboard_i[c] # scoreboard_i[d]
  /\ \A p \in Pool : \A i \in Used(p) : \E c \in Children(p) : scoreboard_i[c] = i

\* No interleaving of restarts, maintenance and on-demand spawning passes
\* pm.max_children or process.max.
WithinLimits ==
  /\ \A p \in Pool : Cardinality(Children(p)) <= config[p].pm_max_children
  /\ process_max > 0 => Cardinality(AllChildren) <= process_max

\* The list and the kernel agree: every process the master has made is in a
\* list until it is reaped, so it gets every fpm_pctl_kill_all, and a master
\* that exits or re-executes itself leaves no process behind.
NoOrphans ==
  /\ \A c \in Pid : proc[c] # "none" <=> child_wp[c] # 0
  /\ mpc \in {"exec", "exited"} => \A c \in Pid : proc[c] = "none"

\* A dead child is never overlooked: as long as there is one, a SIGCHLD
\* character, the burial timer or the burial itself is under way, although
\* SIGCHLDs merge and the burial is postponed.
ZombiesNoticed ==
  Zombies # {} => chld \/ bury_timer \/ mpc = "bury" \/ (mpc = "make" /\ ret = "bury")

\* A master that leaves always has its escalation timer armed, and every
\* child it still lists has got the last signal of the escalation: none was
\* forked after fpm_pctl_kill_all, or lost the signal while it was starting.
EveryChildSignalled ==
  fpm_state # "normal" /\ mpc \notin {"exec", "exited"} =>
    /\ pctl_event
    /\ \A c \in AllChildren :
         \/ proc[c] \in Dead
         \/ fpm_signal_sent \in sigs[c]
         \/ fpm_signal_sent = "QUIT" /\ in_shutdown[c]

\* Nobody is killed without a warning: SIGKILL only goes to a worker that
\* has SIGQUIT or SIGTERM pending or is already shutting down, from the idle
\* maintenance as well as from the escalation.
KillOnlyAfterWarning ==
  [][\A c \in Pid : "KILL" \in sigs'[c] \ sigs[c] =>
       in_shutdown[c] \/ "QUIT" \in sigs[c] \/ "TERM" \in sigs[c]]_vars

\* A request to stop is never weakened: the state only moves on towards
\* "terminating", and after a stop request has been taken from the self-pipe
\* the master never re-executes itself.
Rank == [normal |-> 0, reloading |-> 1, finishing |-> 2, terminating |-> 3]
NeverWeakened ==
  [][/\ mpc # "exec" => Rank[fpm_state'] >= Rank[fpm_state]
     /\ mpc' = "exec" => fpm_state = "reloading" \/ fpm_state' = "reloading"]_vars

\* A stop or reload completes although workers hang in a request, crash or
\* are just being born.
LeaveCompletes == fpm_state # "normal" ~> mpc \in {"exec", "exited"}

\* Every dead child is reaped in the end, however the SIGCHLDs merge.
Reaped == \A c \in Pid : proc[c] \in Dead ~> proc[c] = "none"

\* The master gets on with what it has begun: it leaves when it is told to
\* (fpm_pctl_action_next), and buries what has died (fpm_children_bury).
MasterProgress == LeaveCompletes /\ Reaped

\* A full listen queue of a pool moves on if its requests end: in spite of
\* retirements, restarts and idle kills some worker comes to accept.
QueueServed ==
  \A p \in Pool : backlog[p] = Backlog ~> backlog[p] < Backlog \/ fpm_state # "normal"

\* A dynamic pool that has fallen below pm.min_spare_servers children gets
\* back to them as long as the master stays.
SpareRestored ==
  \A p \in Pool :
    config[p].pm = "dynamic" /\ running[p] < config[p].pm_min_spare_servers
      ~> running[p] >= config[p].pm_min_spare_servers \/ fpm_state # "normal"

\* A pool goes on serving: its queue moves, and it grows back.
ServeProgress == QueueServed /\ SpareRestored
=============================================================================
