--------------------------- MODULE OpcacheRestart ---------------------------
(***************************************************************************)
(* How the processes of one pool share the opcode cache and empty it       *)
(* (src/ext/opcache/ZendAccelerator.c, zend_accelerator_module.c,          *)
(* zend_shared_alloc.c).                                                   *)
(*                                                                         *)
(* The cache lives in shared memory; three bytes of a lock file guard it   *)
(* with fcntl locks, which the kernel drops when their process dies: byte  *)
(* 0 is the allocation lock, byte 1 is locked for reading by every process *)
(* that uses the cache, byte 2 for writing by the one that empties it.     *)
(* A restart is asked for in one request and carried out at the start of   *)
(* a later one, when no process holds byte 1.  Nobody ever takes byte 1    *)
(* for writing: F_GETLK only looks whether that would be possible.         *)
(*                                                                         *)
(* The cache holds one script.  What a process reads from it is named by   *)
(* the number of the restart it was read after (epoch).                    *)
(***************************************************************************)
EXTENDS Naturals, FiniteSets

CONSTANTS
  Process, None,
  force_restart_timeout,   \* the directive is not zero
  MaxRestarts,             \* bound: restarts of the cache
  MaxDeaths,               \* bound: processes that crash or are killed from outside
  MaxHangs,                \* bound: requests that never end
  MaxRefused               \* bound: kill(2) that fails

ASSUME OpcacheAssumption ==
  /\ None \notin Process
  /\ force_restart_timeout \in BOOLEAN
  /\ {MaxRestarts, MaxDeaths, MaxHangs, MaxRefused} \subseteq Nat

VARIABLES
  ZCSG,       \* the shared globals of the accelerator
  lock,       \* who holds the bytes of the lock file
  ZCG,        \* the globals of each process
  pc,         \* where each process is
  budget,     \* how much of each bound is left
  \* history, read by the properties only
  late,       \* the processes that took byte 1 after a restart was decided on
  past        \* what has happened that no restart makes good: see Past

vars == <<ZCSG, lock, ZCG, pc, budget, late, past>>

Epoch == 0 .. MaxRestarts

\* A process died while it emptied the cache, or while it killed the lockers;
\* or the lockers were killed for the restart that is still pending.
Past == {"restart", "force", "round"}

Fresh == [accelerator_enabled |-> FALSE, counted |-> FALSE, scripts |-> {}]

\* Carrying out a restart; ZCSG.emptying is TRUE while the memory is unusable.
Restarting == {"enter", "wipe", "restore", "leave", "unlock"}
\* On the way to byte 1, with the checks of restart_in_progress behind it.
Approaching == {"getlk", "clear", "find", "count_hit", "count_miss"}

PC == {"idle",                        \* between two requests
       "lock", "kill", "snap",        \* accel_activate
       "run", "hung",                 \* the script runs
       "rlock", "inval", "discard",   \* zend_accel_invalidate
       "stale", "miss", "store",      \* persistent_compile_file
       "reset"}                       \* opcache_reset
      \cup Restarting \cup Approaching

Shared ==
  [restart_pending : BOOLEAN, restart_in_progress : BOOLEAN,
   accelerator_enabled : BOOLEAN, cache_status_before_restart : BOOLEAN,
   force_restart_time : {"off", "armed", "due"},
   memory_exhausted : BOOLEAN, hash : BOOLEAN, epoch : Epoch, emptying : BOOLEAN]

Local == [accelerator_enabled : BOOLEAN, counted : BOOLEAN, scripts : SUBSET Epoch]

TypeLock ==
  lock \in [alloc : Process \cup {None}, usage : SUBSET Process,
            restart : Process \cup {None}, victim : Process \cup {None}]

TypeBudget ==
  budget \in [deaths : 0 .. MaxDeaths, hangs : 0 .. MaxHangs, refused : 0 .. MaxRefused]

\* Who holds which byte, going by where the processes are.
Held ==
  \A p \in Process :
    /\ pc[p] \in Restarting \cup {"kill"} => lock.alloc = p
    /\ pc[p] \in Restarting \ {"enter"} => lock.restart = p
    /\ ZCG[p].counted => p \in lock.usage

TypeOK ==
  /\ ZCSG \in Shared /\ TypeLock
  /\ ZCG \in [Process -> Local] /\ pc \in [Process -> PC]
  /\ TypeBudget /\ late \in SUBSET Process /\ past \in SUBSET Past
  /\ Held

Init ==
  /\ ZCSG = [restart_pending |-> FALSE, restart_in_progress |-> FALSE,
             accelerator_enabled |-> TRUE, cache_status_before_restart |-> FALSE,
             force_restart_time |-> "off", memory_exhausted |-> FALSE,
             hash |-> FALSE, epoch |-> 0, emptying |-> FALSE]
  /\ lock = [alloc |-> None, usage |-> {}, restart |-> None, victim |-> None]
  /\ ZCG = [p \in Process |-> Fresh]
  /\ pc = [p \in Process |-> "idle"]
  /\ budget = [deaths |-> MaxDeaths, hangs |-> MaxHangs, refused |-> MaxRefused]
  /\ late = {} /\ past = {}

historyVars == <<late, past>>

Goto(p, l) == pc' = [pc EXCEPT ![p] = l]

\* A restart has been decided on and the memory is not in order again.
Underway == \/ ZCSG.emptying
            \/ \E r \in Process : pc[r] \in {"enter", "wipe"}

-----------------------------------------------------------------------------
(* Asking for a restart.                                                   *)

\* Slip: scheduling twice saves the status of a cache already disabled.
Scheduled_Twice(z) ==
  IF z.epoch = MaxRestarts THEN z ELSE
  [z EXCEPT !.restart_pending = TRUE,
            !.cache_status_before_restart = z.accelerator_enabled,
            !.accelerator_enabled = FALSE,
            !.force_restart_time = IF force_restart_timeout THEN "armed" ELSE "off"]

\* zend_accel_schedule_restart, on the shared globals z; MaxRestarts bounds it.
Scheduled(z) ==
  IF z.restart_pending \/ z.epoch = MaxRestarts THEN z
  ELSE [z EXCEPT !.restart_pending = TRUE,
                 !.cache_status_before_restart = z.accelerator_enabled,
                 !.accelerator_enabled = FALSE,
                 !.force_restart_time = IF force_restart_timeout THEN "armed" ELSE "off"]

\* opcache_reset tests the shared flag, then waits for the allocation lock.
ResetCall(p) ==
  /\ pc[p] = "run" /\ ZCSG.accelerator_enabled
  /\ Goto(p, "reset")
  /\ UNCHANGED <<ZCSG, lock, ZCG, budget, historyVars>>

ResetSchedules(p) ==
  /\ pc[p] = "reset" /\ lock.alloc = None
  /\ ZCSG' = Scheduled(ZCSG)
  /\ Goto(p, "run")
  /\ UNCHANGED <<lock, ZCG, budget, historyVars>>

-----------------------------------------------------------------------------
(* accel_activate: the start of a request, where a pending restart is      *)
(* carried out.  The thread or process that finds counted still set (its   *)
(* last request was not shut down) is the only thing left out.             *)

Activate(p) ==
  /\ pc[p] = "idle"
  /\ Goto(p, IF ZCSG.restart_pending THEN "lock" ELSE "snap")
  /\ UNCHANGED <<ZCSG, lock, ZCG, budget, historyVars>>

\* With the allocation lock, p looks at restart_pending again.
Locked(p) == pc[p] = "lock" /\ lock.alloc = None

RestartDoneByOther(p) ==
  /\ Locked(p) /\ ~ZCSG.restart_pending
  /\ Goto(p, "snap")
  /\ UNCHANGED <<ZCSG, lock, ZCG, budget, historyVars>>

\* F_GETLK does not report the locks of the process that asks.
Lockers(p) == lock.usage \ {p}

\* Slip: nobody looks whether the cache is in use.
accel_is_inactive_NotAsked(p) == TRUE

accel_is_inactive(p) == Lockers(p) = {}

RestartBegin(p) ==
  /\ Locked(p) /\ ZCSG.restart_pending /\ accel_is_inactive(p)
  /\ ZCSG' = [ZCSG EXCEPT !.restart_pending = FALSE]
  /\ lock' = [lock EXCEPT !.alloc = p]
  /\ late' = late \cup {q \in Process : pc[q] \in Approaching}
  /\ past' = past \ {"round"}
  /\ Goto(p, "enter")
  /\ UNCHANGED <<ZCG, budget>>

MustForce == force_restart_timeout /\ ZCSG.force_restart_time = "due"

RestartPutOff(p) ==
  /\ Locked(p) /\ ZCSG.restart_pending /\ ~accel_is_inactive(p) /\ ~MustForce
  /\ Goto(p, "snap")
  /\ UNCHANGED <<ZCSG, lock, ZCG, budget, historyVars>>

\* kill_all_lockers starts with the process F_GETLK reported.
RestartForced(p) ==
  /\ Locked(p) /\ ZCSG.restart_pending /\ ~accel_is_inactive(p) /\ MustForce
  /\ ZCSG' = [ZCSG EXCEPT !.force_restart_time = "off"]
  /\ \E q \in Lockers(p) : lock' = [lock EXCEPT !.alloc = p, !.victim = q]
  /\ Goto(p, "kill")
  /\ UNCHANGED <<ZCG, budget, historyVars>>

\* accel_restart_enter: byte 2, then the flag that readers look at first.
RestartEnter(p) ==
  /\ pc[p] = "enter"
  /\ lock' = [lock EXCEPT !.restart = p]
  /\ ZCSG' = [ZCSG EXCEPT !.restart_in_progress = TRUE]
  /\ Goto(p, "wipe")
  /\ UNCHANGED <<ZCG, budget, historyVars>>

RestartWipe(p) ==
  /\ pc[p] = "wipe"
  /\ ZCSG' = [ZCSG EXCEPT !.emptying = TRUE, !.hash = FALSE, !.epoch = @ + 1]
  /\ Goto(p, "restore")
  /\ UNCHANGED <<lock, ZCG, budget, historyVars>>

\* zend_shared_alloc_restore_state, and the cache is enabled again.
RestartRestore(p) ==
  /\ pc[p] = "restore"
  /\ ZCSG' = [ZCSG EXCEPT !.emptying = FALSE, !.memory_exhausted = FALSE,
                          !.accelerator_enabled = ZCSG.cache_status_before_restart]
  /\ Goto(p, "leave")
  /\ UNCHANGED <<lock, ZCG, budget, historyVars>>

\* Slip: the locks go before the restart is over.
RestartLeave_UnlocksFirst(p) ==
  /\ pc[p] = "leave"
  /\ ZCSG' = [ZCSG EXCEPT !.restart_in_progress = FALSE]
  /\ lock' = [lock EXCEPT !.restart = None, !.alloc = None]
  /\ Goto(p, "unlock")
  /\ UNCHANGED <<ZCG, budget, historyVars>>

\* accel_restart_leave: the flag, then byte 2; then the allocation lock.
RestartLeave(p) ==
  /\ pc[p] = "leave"
  /\ ZCSG' = [ZCSG EXCEPT !.restart_in_progress = FALSE]
  /\ Goto(p, "unlock")
  /\ UNCHANGED <<lock, ZCG, budget, historyVars>>

RestartUnlock(p) ==
  /\ pc[p] = "unlock"
  /\ lock' = [lock EXCEPT !.restart = None, !.alloc = None]
  /\ Goto(p, "snap")
  /\ UNCHANGED <<ZCSG, ZCG, budget, historyVars>>

\* The process's own copy of the flag, good for the whole request.
Snapshot(p) ==
  /\ pc[p] = "snap"
  /\ ZCG' = [ZCG EXCEPT ![p].accelerator_enabled = ZCSG.accelerator_enabled]
  /\ Goto(p, "run")
  /\ UNCHANGED <<ZCSG, lock, budget, historyVars>>

-----------------------------------------------------------------------------
(* Forcing a restart: kill_all_lockers, under the allocation lock.         *)

\* The kernel drops the locks of a dead process.
LocksWithout(q) ==
  [lock EXCEPT !.usage = @ \ {q},
               !.alloc = IF @ = q THEN None ELSE @,
               !.restart = IF @ = q THEN None ELSE @,
               !.victim = IF @ = q \/ lock.alloc = q THEN None ELSE @]

\* q is gone and a new process takes its place.
Replaced(q) ==
  /\ ZCG' = [ZCG EXCEPT ![q] = Fresh]
  /\ late' = late \ {q}

\* SIGTERM, then SIGKILL: the victim dies, whatever it is doing by now; then
\* F_GETLK names the next one.
KillVictim(p) ==
  /\ pc[p] = "kill" /\ lock.victim # None
  /\ LET q == lock.victim
         others == Lockers(p) \ {q}
     IN /\ Replaced(q)
        /\ pc' = [pc EXCEPT ![q] = "idle"]
        /\ \E v \in IF others = {} THEN {None} ELSE others :
             lock' = [LocksWithout(q) EXCEPT !.victim = v]
  /\ UNCHANGED <<ZCSG, budget, past>>

\* Nobody is left; the restart is for the next request, and the timeout
\* stays disarmed.
KillDone(p) ==
  /\ pc[p] = "kill" /\ lock.victim = None
  /\ lock' = [lock EXCEPT !.alloc = None]
  /\ past' = past \cup {"round"}
  /\ Goto(p, "snap")
  /\ UNCHANGED <<ZCSG, ZCG, budget, late>>

\* Slip: the timeout stays disarmed.
KillRefused_NotRearmed(p) ==
  /\ pc[p] = "kill" /\ lock.victim # None /\ budget.refused > 0
  /\ lock' = [lock EXCEPT !.alloc = None, !.victim = None]
  /\ budget' = [budget EXCEPT !.refused = @ - 1]
  /\ Goto(p, "idle")
  /\ UNCHANGED <<ZCSG, ZCG, historyVars>>

\* kill fails, as for a process of another user: a fatal error ends the
\* request, and its shutdown releases the allocation lock.
KillRefused(p) ==
  /\ pc[p] = "kill" /\ lock.victim # None /\ budget.refused > 0
  /\ ZCSG' = [ZCSG EXCEPT !.force_restart_time = "due"]
  /\ lock' = [lock EXCEPT !.alloc = None, !.victim = None]
  /\ budget' = [budget EXCEPT !.refused = @ - 1]
  /\ Goto(p, "idle")
  /\ UNCHANGED <<ZCG, historyVars>>

\* Time; the timeout is only looked at while a restart is pending.
TimeoutDue ==
  /\ ZCSG.restart_pending /\ ZCSG.force_restart_time = "armed"
  /\ ZCSG' = [ZCSG EXCEPT !.force_restart_time = "due"]
  /\ UNCHANGED <<lock, ZCG, pc, budget, historyVars>>

-----------------------------------------------------------------------------
(* persistent_compile_file.                                                *)

\* Every way to the cache starts with the copy of the flag.
Uses(p) == pc[p] = "run" /\ ZCG[p].accelerator_enabled

StartsLate(p) == late' = IF Underway THEN late \cup {p} ELSE late

CompileCall(p) ==
  /\ Uses(p)
  /\ Goto(p, IF ZCSG.restart_in_progress THEN "getlk" ELSE "find")
  /\ StartsLate(p)
  /\ UNCHANGED <<ZCSG, lock, ZCG, budget, past>>

\* accel_restart_is_active: somebody holds byte 2, and the script is compiled
\* without the cache; or nobody does, and the flag was left by a dead process.
RestartActive(p) ==
  /\ pc[p] = "getlk" /\ lock.restart # None
  /\ late' = IF ZCG[p].counted THEN late ELSE late \ {p}
  /\ Goto(p, "run")
  /\ UNCHANGED <<ZCSG, lock, ZCG, budget, past>>

RestartNotActive(p) ==
  /\ pc[p] = "getlk" /\ lock.restart = None
  /\ Goto(p, "clear")
  /\ UNCHANGED <<ZCSG, lock, ZCG, budget, historyVars>>

ClearFlag(p) ==
  /\ pc[p] = "clear"
  /\ ZCSG' = [ZCSG EXCEPT !.restart_in_progress = FALSE]
  /\ Goto(p, "find")
  /\ UNCHANGED <<lock, ZCG, budget, historyVars>>

Obtains(p) == ZCG' = [ZCG EXCEPT ![p].scripts = @ \cup {ZCSG.epoch}]

\* zend_accel_hash_find, before byte 1 is locked.
Find(p) ==
  /\ pc[p] = "find"
  /\ \/ ZCSG.hash /\ Obtains(p) /\ Goto(p, "count_hit")
     \/ ~ZCSG.hash /\ UNCHANGED ZCG /\ Goto(p, "count_miss")
  /\ UNCHANGED <<ZCSG, lock, budget, historyVars>>

\* accel_activate_add, once per request; then the file may turn out to be
\* newer than the script.
Count(p) ==
  /\ pc[p] \in {"count_hit", "count_miss"}
  /\ lock' = [lock EXCEPT !.usage = @ \cup {p}]
  /\ ZCG' = [ZCG EXCEPT ![p].counted = TRUE]
  /\ \E l \in IF pc[p] = "count_hit" THEN {"run", "stale"} ELSE {"miss"} : Goto(p, l)
  /\ UNCHANGED <<ZCSG, budget, historyVars>>

Miss(p) ==
  /\ pc[p] = "miss"
  /\ Goto(p, IF ZCSG.memory_exhausted \/ ZCSG.restart_pending THEN "run" ELSE "store")
  /\ UNCHANGED <<ZCSG, lock, ZCG, budget, historyVars>>

\* cache_script_in_shared_memory: another process was faster, there is room,
\* or there is none; a restart is asked for if enough memory is wasted.
Store(p) ==
  /\ pc[p] = "store" /\ lock.alloc = None
  /\ \/ ZCSG.hash /\ Obtains(p) /\ UNCHANGED ZCSG
     \/ ~ZCSG.hash /\ Obtains(p) /\ ZCSG' = [ZCSG EXCEPT !.hash = TRUE]
     \/ /\ ~ZCSG.hash
        /\ LET full == [ZCSG EXCEPT !.memory_exhausted = TRUE]
           IN \/ ZCSG' = full
              \/ ZCSG' = Scheduled(full)
        /\ UNCHANGED ZCG
  /\ Goto(p, "run")
  /\ UNCHANGED <<lock, budget, historyVars>>

-----------------------------------------------------------------------------
(* zend_accel_invalidate.                                                  *)

\* accelerator_shm_read_lock: byte 1, then a look at restart_in_progress.
InvalidateCall(p) ==
  /\ Uses(p)
  /\ \/ ZCG[p].counted /\ Goto(p, "inval") /\ UNCHANGED <<lock, late>>
     \/ /\ ~ZCG[p].counted /\ Goto(p, "rlock") /\ StartsLate(p)
        /\ lock' = [lock EXCEPT !.usage = @ \cup {p}]
  /\ UNCHANGED <<ZCSG, ZCG, budget, past>>

ReadLocked(p) ==
  /\ pc[p] = "rlock" /\ ~ZCSG.restart_in_progress
  /\ ZCG' = [ZCG EXCEPT ![p].counted = TRUE]
  /\ Goto(p, "inval")
  /\ UNCHANGED <<ZCSG, lock, budget, historyVars>>

ReadRefused(p) ==
  /\ pc[p] = "rlock" /\ ZCSG.restart_in_progress
  /\ lock' = [lock EXCEPT !.usage = @ \ {p}]
  /\ late' = late \ {p}
  /\ Goto(p, "run")
  /\ UNCHANGED <<ZCSG, ZCG, budget, past>>

InvalidateFind(p) ==
  /\ pc[p] = "inval"
  /\ \/ ZCSG.hash /\ Obtains(p) /\ Goto(p, "discard")
     \/ ~ZCSG.hash /\ UNCHANGED ZCG /\ Goto(p, "run")
  /\ UNCHANGED <<ZCSG, lock, budget, historyVars>>

\* zend_accel_discard_script: an entry in the hash that nobody finds any more.
\* A stale script is compiled anew.
Discard(p) ==
  /\ pc[p] \in {"discard", "stale"} /\ lock.alloc = None
  /\ LET gone == [ZCSG EXCEPT !.hash = FALSE]
     IN \/ ZCSG' = gone
        \/ /\ ZCSG.hash /\ ZCSG.memory_exhausted
           /\ ZCSG' = Scheduled(gone)
  /\ Goto(p, IF pc[p] = "stale" THEN "miss" ELSE "run")
  /\ UNCHANGED <<lock, ZCG, budget, historyVars>>

-----------------------------------------------------------------------------
(* The end of a request, and of a process.                                 *)

\* accel_post_deactivate.  The copy of accelerator_enabled is not read again
\* before accel_activate sets it.
EndRequest(p) ==
  /\ pc[p] = "run"
  /\ lock' = [lock EXCEPT !.usage = @ \ {p}]
  /\ ZCG' = [ZCG EXCEPT ![p] = Fresh]
  /\ late' = late \ {p}
  /\ Goto(p, "idle")
  /\ UNCHANGED <<ZCSG, budget, past>>

Hang(p) ==
  /\ pc[p] = "run" /\ budget.hangs > 0
  /\ budget' = [budget EXCEPT !.hangs = @ - 1]
  /\ Goto(p, "hung")
  /\ UNCHANGED <<ZCSG, lock, ZCG, historyVars>>

\* Wherever a process dies, unless it was about to make the cache usable
\* again or had disarmed the force timeout, the others can go on.
Die(p) ==
  /\ pc[p] # "idle" /\ budget.deaths > 0
  /\ budget' = [budget EXCEPT !.deaths = @ - 1]
  /\ past' = past \cup (IF pc[p] \in {"enter", "wipe", "restore"} THEN {"restart"} ELSE {})
                  \cup (IF pc[p] = "kill" THEN {"force"} ELSE {})
  /\ Replaced(p)
  /\ lock' = LocksWithout(p)
  /\ Goto(p, "idle")
  /\ UNCHANGED ZCSG

\* The steps that the code of a process takes by itself.
Step(p) ==
  \/ Activate(p) \/ Snapshot(p)
  \/ RestartDoneByOther(p) \/ RestartPutOff(p) \/ RestartBegin(p) \/ RestartForced(p)
  \/ RestartEnter(p) \/ RestartWipe(p) \/ RestartRestore(p) \/ RestartLeave(p)
  \/ RestartUnlock(p)
  \/ KillVictim(p) \/ KillDone(p)
  \/ ResetSchedules(p)
  \/ RestartActive(p) \/ RestartNotActive(p) \/ ClearFlag(p)
  \/ Find(p) \/ Count(p) \/ Miss(p) \/ Store(p)
  \/ ReadLocked(p) \/ ReadRefused(p) \/ InvalidateFind(p) \/ Discard(p)

Next ==
  \/ \E p \in Process : \/ Step(p) \/ EndRequest(p) \/ KillRefused(p)
                        \/ ResetCall(p) \/ CompileCall(p) \/ InvalidateCall(p)
                        \/ Hang(p) \/ Die(p)
  \/ TimeoutDue

Spec == Init /\ [][Next]_vars

\* Processes run, time passes, requests arrive; a request that does not hang
\* ends, however many scripts it includes before.
FairSpec ==
  /\ Spec
  /\ \A p \in Process : WF_vars(Step(p)) /\ SF_vars(EndRequest(p))
  /\ WF_vars(TimeoutDue)

-----------------------------------------------------------------------------
(* Safety.                                                                 *)

\* A process that had locked byte 1 before a restart was decided on never
\* holds a script of an emptied cache, nor is the cache being emptied under
\* it, whoever crashes or is killed meanwhile.  The processes in late are
\* those that were between their checks and the lock at that moment, or
\* that start while the restart runs: neither F_GETLK nor restart_in_progress
\* stops them.
LockedScriptsStay ==
  \A p \in Process \ late :
    ZCG[p].scripts # {} => ~ZCSG.emptying /\ ZCG[p].scripts = {ZCSG.epoch}

\* No script is put into memory that is being emptied: the process that
\* stores waits for the allocation lock, and finds the cache whole again,
\* unless the one that emptied it died.
NothingStoredWhileEmptied ==
  ZCSG.emptying /\ ZCSG.hash => "restart" \in past

\* The memory of the cache is emptied under nobody who was in time: neither
\* under one who reads nor under one who stores.
ScriptsStay == LockedScriptsStay /\ NothingStoredWhileEmptied

\* The cache is disabled only for as long as a restart is pending or running,
\* and that restart enables it again, unless a process died while emptying it.
CacheComesBack ==
  "restart" \notin past =>
    /\ ZCSG.restart_pending => ZCSG.cache_status_before_restart
    /\ ~ZCSG.accelerator_enabled =>
         ZCSG.restart_pending \/ \E p \in Process : pc[p] \in {"enter", "wipe", "restore"}

-----------------------------------------------------------------------------
(* Liveness.                                                               *)

\* A scheduled restart is carried out, even if a request hangs for good with
\* the usage lock held: the one that hangs is killed when the timeout is due.
\* The timeout serves one round of killing only.  A process that dies in the
\* middle of it, or a request that had taken its copy of the flag before, and
\* locks byte 1 after the round and hangs, puts the restart off for good.
RestartHappens ==
  ZCSG.restart_pending ~>
    \/ ~ZCSG.restart_pending
    \/ "force" \in past
    \/ "round" \in past /\ \E p \in lock.usage : pc[p] = "hung"
=============================================================================
