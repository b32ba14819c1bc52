------------------------ MODULE OpcacheRestart_proofs ------------------------
(* Proofs about OpcacheRestart, for every number of processes and every    *)
(* bound.                                                                  *)
EXTENDS OpcacheRestart, TLAPS

\* A restart that is pending or has just begun has a number left, and nobody
\* asks for another one while a process carries one out.
PendingOK ==
  /\ ZCSG.restart_pending => ZCSG.epoch < MaxRestarts
  /\ \A p \in Process :
       /\ pc[p] \in {"enter", "wipe"} => ZCSG.epoch < MaxRestarts
       /\ pc[p] \in Restarting => ~ZCSG.restart_pending

\* What the process that carries out a restart will put back, and that the
\* memory is unusable for its sake only.
StatusKept ==
  "restart" \notin past =>
    /\ \A p \in Process :
         pc[p] \in {"enter", "wipe", "restore"} => ZCSG.cache_status_before_restart
    /\ ZCSG.emptying => \E p \in Process : pc[p] = "restore"

\* Byte 1 is locked by the processes that count as users of the cache, and by
\* one that is just trying; who has a script counts, or is about to.
UsageOK ==
  \A p \in Process :
    /\ p \in lock.usage <=> ZCG[p].counted \/ pc[p] = "rlock"
    /\ pc[p] \in {"stale", "miss", "store", "inval", "discard"} => ZCG[p].counted
    /\ pc[p] \in {"idle", "lock", "kill", "snap", "rlock"} \cup Restarting => ~ZCG[p].counted
    /\ ZCG[p].scripts # {} => ZCG[p].counted \/ pc[p] = "count_hit"

\* While a restart is under way, whoever is not late keeps off the cache.
LateOK ==
  Underway => \A p \in Process \ late : p \notin lock.usage /\ pc[p] \notin Approaching

IInv == /\ TypeOK /\ PendingOK /\ StatusKept /\ UsageOK /\ LateOK
        /\ ScriptsStay /\ CacheComesBack

LEMMA Bounds ==
  {MaxRestarts, MaxDeaths, MaxHangs, MaxRefused} \subseteq Nat /\ None \notin Process
BY OpcacheAssumption

\* What asking for a restart does to the shared globals.
LEMMA ScheduledFields ==
  ASSUME NEW z \in Shared
  PROVE  LET s == Scheduled(z) IN
         /\ s \in Shared
         /\ s.epoch = z.epoch /\ s.hash = z.hash /\ s.emptying = z.emptying
         /\ s.restart_in_progress = z.restart_in_progress
         /\ \/ s = z
            \/ /\ ~z.restart_pending /\ z.epoch < MaxRestarts
               /\ s.restart_pending /\ ~s.accelerator_enabled
               /\ s.cache_status_before_restart = z.accelerator_enabled
<1>1. z.epoch \in Nat /\ z.epoch <= MaxRestarts /\ MaxRestarts \in Nat
  BY OpcacheAssumption DEF Shared, Epoch
<1>2. CASE z.restart_pending \/ z.epoch = MaxRestarts BY <1>2 DEF Scheduled
<1>3. CASE ~(z.restart_pending \/ z.epoch = MaxRestarts)
  <2>1. Scheduled(z) =
          [z EXCEPT !.restart_pending = TRUE,
                    !.cache_status_before_restart = z.accelerator_enabled,
                    !.accelerator_enabled = FALSE,
                    !.force_restart_time = IF force_restart_timeout THEN "armed" ELSE "off"]
    BY <1>3 DEF Scheduled
  <2>2. Scheduled(z) \in Shared BY <2>1 DEF Shared
  <2>3. z.epoch < MaxRestarts BY <1>1, <1>3
  <2> QED BY <1>3, <2>1, <2>2, <2>3 DEF Shared
<1> QED BY <1>2, <1>3

\* A step under the allocation lock that stores, discards or schedules.
Schedules(p) ==
  /\ lock.alloc = None /\ ZCSG' \in Shared
  /\ UNCHANGED <<lock, budget, historyVars>>
  /\ ZCSG'.epoch = ZCSG.epoch /\ ZCSG'.emptying = ZCSG.emptying
  /\ ZCSG'.restart_in_progress = ZCSG.restart_in_progress
  /\ \/ /\ ZCSG'.restart_pending = ZCSG.restart_pending
        /\ ZCSG'.accelerator_enabled = ZCSG.accelerator_enabled
        /\ ZCSG'.cache_status_before_restart = ZCSG.cache_status_before_restart
     \/ /\ ~ZCSG.restart_pending /\ ZCSG.epoch < MaxRestarts
        /\ ZCSG'.restart_pending /\ ~ZCSG'.accelerator_enabled
        /\ ZCSG'.cache_status_before_restart = ZCSG.accelerator_enabled

LEMMA SchedulingSteps ==
  ASSUME NEW p \in Process, IInv, Store(p) \/ Discard(p) \/ ResetSchedules(p)
  PROVE  Schedules(p)
<1>0. ZCSG \in Shared BY DEF IInv, TypeOK
<1>1. CASE ResetSchedules(p)
  <2>1. ZCSG' = Scheduled(ZCSG) /\ lock.alloc = None
        /\ UNCHANGED <<lock, budget, historyVars>>
    BY <1>1 DEF ResetSchedules
  <2> QED BY <1>0, <2>1, ScheduledFields DEF Schedules
<1>2. CASE Store(p)
  <2> DEFINE full == [ZCSG EXCEPT !.memory_exhausted = TRUE]
             in == [ZCSG EXCEPT !.hash = TRUE]
  <2>1. lock.alloc = None /\ UNCHANGED <<lock, budget, historyVars>>
        /\ ZCSG' \in {ZCSG, in, full, Scheduled(full)}
    BY <1>2 DEF Store
  <2>2. /\ in \in Shared /\ full \in Shared
        /\ \A z \in {in, full} :
             /\ z.epoch = ZCSG.epoch /\ z.emptying = ZCSG.emptying
             /\ z.restart_in_progress = ZCSG.restart_in_progress
             /\ z.restart_pending = ZCSG.restart_pending
             /\ z.accelerator_enabled = ZCSG.accelerator_enabled
             /\ z.cache_status_before_restart = ZCSG.cache_status_before_restart
    BY <1>0 DEF Shared
  <2> HIDE DEF full, in
  <2> QED BY <1>0, <2>1, <2>2, ScheduledFields DEF Schedules
<1>3. CASE Discard(p)
  <2> DEFINE gone == [ZCSG EXCEPT !.hash = FALSE]
  <2>1. lock.alloc = None /\ UNCHANGED <<lock, budget, historyVars>>
        /\ ZCSG' \in {gone, Scheduled(gone)}
    BY <1>3 DEF Discard
  <2>2. /\ gone \in Shared
        /\ gone.epoch = ZCSG.epoch /\ gone.emptying = ZCSG.emptying
        /\ gone.restart_in_progress = ZCSG.restart_in_progress
        /\ gone.restart_pending = ZCSG.restart_pending
        /\ gone.accelerator_enabled = ZCSG.accelerator_enabled
        /\ gone.cache_status_before_restart = ZCSG.cache_status_before_restart
    BY <1>0 DEF Shared
  <2> HIDE DEF gone
  <2> QED BY <2>1, <2>2, ScheduledFields DEF Schedules
<1> QED BY <1>1, <1>2, <1>3

-----------------------------------------------------------------------------
(* One lemma for each action, or group of actions alike.                   *)

WaitStep(p) ==
  \/ RestartDoneByOther(p) \/ RestartPutOff(p) \/ RestartActive(p)
  \/ RestartNotActive(p) \/ ClearFlag(p)

ServeStep(p) ==
  \/ Activate(p) \/ Miss(p) \/ ResetCall(p) \/ CompileCall(p) \/ InvalidateCall(p)
  \/ ReadRefused(p) \/ Hang(p)

ReadStep(p) ==
  \/ Snapshot(p) \/ Find(p) \/ Count(p) \/ ReadLocked(p) \/ InvalidateFind(p)
  \/ EndRequest(p)

\* Nobody else holds byte 1, and whoever is on the way to it is late.
LEMMA RestartBeginOK ==
  ASSUME NEW p \in Process, IInv, RestartBegin(p)
  PROVE  IInv'
<1> USE DEF RestartBegin, Locked, accel_is_inactive, Lockers, Goto, historyVars,
            IInv, TypeOK
<1>1. ZCSG' \in Shared /\ TypeLock' /\ ZCG' \in [Process -> Local] /\ pc' \in [Process -> PC]
  BY Bounds DEF Shared, TypeLock, Local, Epoch, PendingOK, PC, Restarting, Approaching
<1>2. TypeBudget' /\ late' \in SUBSET Process /\ past' \in SUBSET Past
  BY Bounds DEF TypeBudget, Past
<1>3. Held' /\ PendingOK'
  BY Bounds DEF Shared, TypeLock, Local, Held, PendingOK, Restarting
<1>4. StatusKept' /\ CacheComesBack'
  BY Bounds DEF Shared, TypeLock, Local, Held, StatusKept, CacheComesBack, Restarting
<1>5. UsageOK' /\ LateOK'
  BY Bounds DEF Shared, TypeLock, Local, UsageOK, LateOK, Underway, Restarting,
              Approaching
<1>6. ScriptsStay'
  BY Bounds DEF Shared, TypeLock, Local, Held, UsageOK, LateOK, Underway, StatusKept,
              ScriptsStay, LockedScriptsStay, NothingStoredWhileEmptied, Restarting,
              Approaching
<1> QED BY <1>1, <1>2, <1>3, <1>4, <1>5, <1>6

\* The cache is emptied: nobody who was in time has anything of it.
LEMMA RestartWipeOK ==
  ASSUME NEW p \in Process, IInv, RestartWipe(p)
  PROVE  IInv'
<1> USE DEF RestartWipe, Goto, historyVars, IInv, TypeOK
<1>1. ZCSG' \in Shared /\ TypeLock' /\ ZCG' \in [Process -> Local] /\ pc' \in [Process -> PC]
  <2>1. ZCSG.epoch \in Nat /\ ZCSG.epoch < MaxRestarts BY Bounds DEF Shared, Epoch, PendingOK
  <2>2. ZCSG.epoch + 1 \in Epoch BY Bounds, <2>1 DEF Epoch
  <2>3. ZCSG' \in Shared BY <2>2 DEF Shared
  <2> QED BY <2>3 DEF TypeLock, PC, Restarting
<1>2. TypeBudget' /\ late' \in SUBSET Process /\ past' \in SUBSET Past
  BY Bounds DEF TypeBudget, Past
<1>3. Held' /\ PendingOK'
  BY Bounds DEF Shared, TypeLock, Local, Held, PendingOK, Restarting
<1>4. StatusKept' /\ CacheComesBack'
  BY Bounds DEF Shared, TypeLock, Local, Held, StatusKept, CacheComesBack, Restarting
<1>5. UsageOK' /\ LateOK'
  BY Bounds DEF Shared, TypeLock, Local, UsageOK, LateOK, Underway, Restarting,
              Approaching
<1>6. ScriptsStay'
  BY Bounds DEF Shared, TypeLock, Local, Held, UsageOK, LateOK, Underway, StatusKept,
              ScriptsStay, LockedScriptsStay, NothingStoredWhileEmptied, Restarting,
              Approaching
<1> QED BY <1>1, <1>2, <1>3, <1>4, <1>5, <1>6

\* The saved status is put back.
LEMMA RestartRestoreOK ==
  ASSUME NEW p \in Process, IInv, RestartRestore(p)
  PROVE  IInv'
<1> USE DEF RestartRestore, Goto, historyVars, IInv, TypeOK
<1>1. ZCSG' \in Shared /\ TypeLock' /\ ZCG' \in [Process -> Local] /\ pc' \in [Process -> PC]
  BY Bounds DEF Shared, TypeLock, Local, Epoch, PendingOK, PC, Restarting, Approaching
<1>2. TypeBudget' /\ late' \in SUBSET Process /\ past' \in SUBSET Past
  BY Bounds DEF TypeBudget, Past
<1>3. Held' /\ PendingOK'
  BY Bounds DEF Shared, TypeLock, Local, Held, PendingOK, Restarting
<1>4. StatusKept' /\ CacheComesBack'
  BY Bounds DEF Shared, TypeLock, Local, Held, StatusKept, CacheComesBack, Restarting
<1>5. UsageOK' /\ LateOK'
  BY Bounds DEF Shared, TypeLock, Local, UsageOK, LateOK, Underway, Restarting,
              Approaching
<1>6. ScriptsStay'
  BY Bounds DEF Shared, TypeLock, Local, Held, UsageOK, LateOK, Underway, StatusKept,
              ScriptsStay, LockedScriptsStay, NothingStoredWhileEmptied, Restarting,
              Approaching
<1> QED BY <1>1, <1>2, <1>3, <1>4, <1>5, <1>6

\* Byte 2 and the flag, and back; the memory is not touched.
LEMMA RestartEnterOK ==
  ASSUME NEW p \in Process, IInv, RestartEnter(p)
  PROVE  IInv'
<1> USE DEF RestartEnter, Goto, historyVars, IInv, TypeOK
<1>1. ZCSG' \in Shared /\ TypeLock' /\ ZCG' \in [Process -> Local] /\ pc' \in [Process -> PC]
  BY Bounds DEF Shared, TypeLock, Local, Epoch, PendingOK, PC, Restarting, Approaching
<1>2. TypeBudget' /\ late' \in SUBSET Process /\ past' \in SUBSET Past
  BY Bounds DEF TypeBudget, Past
<1>3. Held' /\ PendingOK'
  BY Bounds DEF Shared, TypeLock, Local, Held, PendingOK, Restarting
<1>4. StatusKept' /\ CacheComesBack'
  BY Bounds DEF Shared, TypeLock, Local, Held, StatusKept, CacheComesBack, Restarting
<1>5. UsageOK' /\ LateOK'
  BY Bounds DEF Shared, TypeLock, Local, UsageOK, LateOK, Underway, Restarting,
              Approaching
<1>6. ScriptsStay'
  BY Bounds DEF Shared, TypeLock, Local, Held, UsageOK, LateOK, Underway, StatusKept,
              ScriptsStay, LockedScriptsStay, NothingStoredWhileEmptied, Restarting,
              Approaching
<1> QED BY <1>1, <1>2, <1>3, <1>4, <1>5, <1>6

LEMMA RestartLeaveOK ==
  ASSUME NEW p \in Process, IInv, RestartLeave(p)
  PROVE  IInv'
<1> USE DEF RestartLeave, Goto, historyVars, IInv, TypeOK
<1>1. ZCSG' \in Shared /\ TypeLock' /\ ZCG' \in [Process -> Local] /\ pc' \in [Process -> PC]
  BY Bounds DEF Shared, TypeLock, Local, Epoch, PendingOK, PC, Restarting, Approaching
<1>2. TypeBudget' /\ late' \in SUBSET Process /\ past' \in SUBSET Past
  BY Bounds DEF TypeBudget, Past
<1>3. Held' /\ PendingOK'
  BY Bounds DEF Shared, TypeLock, Local, Held, PendingOK, Restarting
<1>4. StatusKept' /\ CacheComesBack'
  BY Bounds DEF Shared, TypeLock, Local, Held, StatusKept, CacheComesBack, Restarting
<1>5. UsageOK' /\ LateOK'
  BY Bounds DEF Shared, TypeLock, Local, UsageOK, LateOK, Underway, Restarting,
              Approaching
<1>6. ScriptsStay'
  BY Bounds DEF Shared, TypeLock, Local, Held, UsageOK, LateOK, Underway, StatusKept,
              ScriptsStay, LockedScriptsStay, NothingStoredWhileEmptied, Restarting,
              Approaching
<1> QED BY <1>1, <1>2, <1>3, <1>4, <1>5, <1>6

LEMMA RestartUnlockOK ==
  ASSUME NEW p \in Process, IInv, RestartUnlock(p)
  PROVE  IInv'
<1> USE DEF RestartUnlock, Goto, historyVars, IInv, TypeOK
<1>1. ZCSG' \in Shared /\ TypeLock' /\ ZCG' \in [Process -> Local] /\ pc' \in [Process -> PC]
  BY Bounds DEF Shared, TypeLock, Local, Epoch, PendingOK, PC, Restarting, Approaching
<1>2. TypeBudget' /\ late' \in SUBSET Process /\ past' \in SUBSET Past
  BY Bounds DEF TypeBudget, Past
<1>3. Held' /\ PendingOK'
  BY Bounds DEF Shared, TypeLock, Local, Held, PendingOK, Restarting
<1>4. StatusKept' /\ CacheComesBack'
  BY Bounds DEF Shared, TypeLock, Local, Held, StatusKept, CacheComesBack, Restarting
<1>5. UsageOK' /\ LateOK'
  BY Bounds DEF Shared, TypeLock, Local, UsageOK, LateOK, Underway, Restarting,
              Approaching
<1>6. ScriptsStay'
  BY Bounds DEF Shared, TypeLock, Local, Held, UsageOK, LateOK, Underway, StatusKept,
              ScriptsStay, LockedScriptsStay, NothingStoredWhileEmptied, Restarting,
              Approaching
<1> QED BY <1>1, <1>2, <1>3, <1>4, <1>5, <1>6

\* kill_all_lockers: the one that kills holds the allocation lock, so it never
\* kills a process that carries out a restart.
LEMMA RestartForcedOK ==
  ASSUME NEW p \in Process, IInv, RestartForced(p)
  PROVE  IInv'
<1> USE DEF RestartForced, Locked, Lockers, Goto, historyVars, IInv, TypeOK
<1>1. ZCSG' \in Shared /\ TypeLock' /\ ZCG' \in [Process -> Local] /\ pc' \in [Process -> PC]
  <2>1. ZCSG' \in Shared BY Bounds DEF Shared, Epoch, PendingOK
  <2>2. TypeLock' BY Bounds DEF TypeLock
  <2>3. ZCG' \in [Process -> Local] BY Bounds DEF Local, Shared, Epoch
  <2>4. pc' \in [Process -> PC] BY DEF PC, Restarting, Approaching
  <2> QED BY <2>1, <2>2, <2>3, <2>4
<1>2. TypeBudget' /\ late' \in SUBSET Process /\ past' \in SUBSET Past
  BY Bounds DEF TypeBudget, Past
<1>3. Held' /\ PendingOK'
  BY Bounds DEF Shared, TypeLock, Local, Held, PendingOK, Restarting
<1>4. StatusKept' /\ CacheComesBack'
  BY Bounds DEF Shared, TypeLock, Local, Held, StatusKept, CacheComesBack, Restarting
<1>5. UsageOK' /\ LateOK'
  BY Bounds DEF Shared, TypeLock, Local, UsageOK, LateOK, Underway, Restarting,
              Approaching
<1>6. ScriptsStay'
  BY Bounds DEF Shared, TypeLock, Local, Held, UsageOK, LateOK, Underway, StatusKept,
              ScriptsStay, LockedScriptsStay, NothingStoredWhileEmptied, Restarting,
              Approaching
<1> QED BY <1>1, <1>2, <1>3, <1>4, <1>5, <1>6

LEMMA KillDoneOK ==
  ASSUME NEW p \in Process, IInv, KillDone(p)
  PROVE  IInv'
<1> USE DEF KillDone, Goto, historyVars, IInv, TypeOK
<1>1. ZCSG' \in Shared /\ TypeLock' /\ ZCG' \in [Process -> Local] /\ pc' \in [Process -> PC]
  BY Bounds DEF Shared, TypeLock, Local, Epoch, PendingOK, PC, Restarting, Approaching
<1>2. TypeBudget' /\ late' \in SUBSET Process /\ past' \in SUBSET Past
  BY Bounds DEF TypeBudget, Past
<1>3. Held' /\ PendingOK'
  BY Bounds DEF Shared, TypeLock, Local, Held, PendingOK, Restarting
<1>4. StatusKept' /\ CacheComesBack'
  BY Bounds DEF Shared, TypeLock, Local, Held, StatusKept, CacheComesBack, Restarting
<1>5. UsageOK' /\ LateOK'
  BY Bounds DEF Shared, TypeLock, Local, UsageOK, LateOK, Underway, Restarting,
              Approaching
<1>6. ScriptsStay'
  BY Bounds DEF Shared, TypeLock, Local, Held, UsageOK, LateOK, Underway, StatusKept,
              ScriptsStay, LockedScriptsStay, NothingStoredWhileEmptied, Restarting,
              Approaching
<1> QED BY <1>1, <1>2, <1>3, <1>4, <1>5, <1>6

LEMMA KillRefusedOK ==
  ASSUME NEW p \in Process, IInv, KillRefused(p)
  PROVE  IInv'
<1> USE DEF KillRefused, Goto, historyVars, IInv, TypeOK
<1>1. ZCSG' \in Shared /\ TypeLock' /\ ZCG' \in [Process -> Local] /\ pc' \in [Process -> PC]
  BY Bounds DEF Shared, TypeLock, Local, Epoch, PendingOK, PC, Restarting, Approaching
<1>2. TypeBudget' /\ late' \in SUBSET Process /\ past' \in SUBSET Past
  BY Bounds DEF TypeBudget, Past
<1>3. Held' /\ PendingOK'
  BY Bounds DEF Shared, TypeLock, Local, Held, PendingOK, Restarting
<1>4. StatusKept' /\ CacheComesBack'
  BY Bounds DEF Shared, TypeLock, Local, Held, StatusKept, CacheComesBack, Restarting
<1>5. UsageOK' /\ LateOK'
  BY Bounds DEF Shared, TypeLock, Local, UsageOK, LateOK, Underway, Restarting,
              Approaching
<1>6. ScriptsStay'
  BY Bounds DEF Shared, TypeLock, Local, Held, UsageOK, LateOK, Underway, StatusKept,
              ScriptsStay, LockedScriptsStay, NothingStoredWhileEmptied, Restarting,
              Approaching
<1> QED BY <1>1, <1>2, <1>3, <1>4, <1>5, <1>6

LEMMA KillVictimOK ==
  ASSUME NEW p \in Process, IInv, KillVictim(p)
  PROVE  IInv'
<1> USE DEF KillVictim, Replaced, LocksWithout, Fresh, Lockers, Goto, historyVars,
            IInv, TypeOK
<1>1. ZCSG' \in Shared /\ TypeLock' /\ ZCG' \in [Process -> Local] /\ pc' \in [Process -> PC]
  <2>1. PICK v \in Process \cup {None} : lock' = [LocksWithout(lock.victim) EXCEPT !.victim = v]
    BY DEF TypeLock
  <2>2. LocksWithout(lock.victim) \in
          [alloc : Process \cup {None}, usage : SUBSET Process,
           restart : Process \cup {None}, victim : Process \cup {None}]
    BY DEF TypeLock
  <2> HIDE DEF LocksWithout
  <2>3. TypeLock' BY <2>1, <2>2 DEF TypeLock
  <2> QED BY <2>3 DEF Local, PC, TypeLock, LocksWithout
<1>2. TypeBudget' /\ late' \in SUBSET Process /\ past' \in SUBSET Past
  BY Bounds DEF TypeBudget, Past
<1>3. Held' /\ PendingOK'
  BY Bounds DEF Shared, TypeLock, Local, Held, PendingOK, Restarting
<1>4. StatusKept' /\ CacheComesBack'
  BY Bounds DEF Shared, TypeLock, Local, Held, StatusKept, CacheComesBack, Restarting
<1>5. UsageOK' /\ LateOK'
  BY Bounds DEF Shared, TypeLock, Local, UsageOK, LateOK, Underway, Restarting,
              Approaching
<1>6. ScriptsStay'
  BY Bounds DEF Shared, TypeLock, Local, Held, UsageOK, LateOK, Underway, StatusKept,
              ScriptsStay, LockedScriptsStay, NothingStoredWhileEmptied, Restarting,
              Approaching
<1> QED BY <1>1, <1>2, <1>3, <1>4, <1>5, <1>6

\* Wherever a process dies, the kernel drops its locks with it.
LEMMA DieOK ==
  ASSUME NEW p \in Process, IInv, Die(p)
  PROVE  IInv'
<1> USE DEF Die, Replaced, LocksWithout, Fresh, Goto, historyVars, IInv, TypeOK
<1>1. ZCSG' \in Shared /\ TypeLock' /\ ZCG' \in [Process -> Local] /\ pc' \in [Process -> PC]
  <2>1. ZCSG' \in Shared BY Bounds DEF Shared, Epoch, PendingOK
  <2>2. TypeLock' BY ZenonT(60), Bounds DEF TypeLock
  <2>3. ZCG' \in [Process -> Local] BY Bounds DEF Local, Shared, Epoch
  <2>4. pc' \in [Process -> PC] BY DEF PC, Restarting, Approaching
  <2> QED BY <2>1, <2>2, <2>3, <2>4
<1>2. TypeBudget' /\ late' \in SUBSET Process /\ past' \in SUBSET Past
  BY Bounds DEF TypeBudget, Past
<1>3. Held' /\ PendingOK'
  BY Bounds DEF Shared, TypeLock, Local, Held, PendingOK, Restarting
<1>4. StatusKept' /\ CacheComesBack'
  BY Bounds DEF Shared, TypeLock, Local, Held, StatusKept, CacheComesBack, Restarting
<1>5. UsageOK' /\ LateOK'
  BY Bounds DEF Shared, TypeLock, Local, UsageOK, LateOK, Underway, Restarting,
              Approaching
<1>6. ScriptsStay'
  BY Bounds DEF Shared, TypeLock, Local, Held, UsageOK, LateOK, Underway, StatusKept,
              ScriptsStay, LockedScriptsStay, NothingStoredWhileEmptied, Restarting,
              Approaching
<1> QED BY <1>1, <1>2, <1>3, <1>4, <1>5, <1>6

\* Steps that show in the flag of readers at most.
LEMMA WaitOK ==
  ASSUME NEW p \in Process, IInv, WaitStep(p)
  PROVE  IInv'
<1> USE DEF WaitStep, RestartDoneByOther, RestartPutOff, RestartActive,
            RestartNotActive, ClearFlag, Locked, Goto, historyVars, IInv, TypeOK
<1>1. ZCSG' \in Shared /\ TypeLock' /\ ZCG' \in [Process -> Local] /\ pc' \in [Process -> PC]
  <2>1. ZCSG' \in Shared BY DEF Shared
  <2>2. pc' \in [Process -> PC] BY DEF PC, Approaching
  <2> QED BY <2>1, <2>2 DEF TypeLock
<1>2. TypeBudget' /\ late' \in SUBSET Process /\ past' \in SUBSET Past
  BY Bounds DEF TypeBudget, Past
<1>3. Held' /\ PendingOK'
  BY Bounds DEF Shared, TypeLock, Local, Held, PendingOK, Restarting
<1>4. StatusKept' /\ CacheComesBack'
  BY Bounds DEF Shared, TypeLock, Local, Held, StatusKept, CacheComesBack, Restarting
<1>5. UsageOK' /\ LateOK'
  BY Bounds DEF Shared, TypeLock, Local, UsageOK, LateOK, Underway, Restarting,
              Approaching
<1>6. ScriptsStay'
  BY Bounds DEF Shared, TypeLock, Local, Held, UsageOK, LateOK, Underway, StatusKept,
              ScriptsStay, LockedScriptsStay, NothingStoredWhileEmptied, Restarting,
              Approaching
<1> QED BY <1>1, <1>2, <1>3, <1>4, <1>5, <1>6

\* Steps of a request that change nothing of what it has of the cache, unless
\* it locks byte 1 or gives it up.
LEMMA ServeOK ==
  ASSUME NEW p \in Process, IInv, ServeStep(p)
  PROVE  IInv'
<1> USE DEF ServeStep, Activate, Miss, ResetCall, CompileCall, InvalidateCall,
            ReadRefused, Hang, StartsLate, Uses, Goto, historyVars, IInv, TypeOK
<1>1. ZCSG' \in Shared /\ TypeLock' /\ ZCG' \in [Process -> Local] /\ pc' \in [Process -> PC]
  BY Bounds DEF Shared, TypeLock, Local, Epoch, PendingOK, PC, Restarting, Approaching
<1>2. TypeBudget' /\ late' \in SUBSET Process /\ past' \in SUBSET Past
  BY Bounds DEF TypeBudget, Past
<1>3. UsageOK' /\ LateOK'
  BY Bounds DEF Shared, TypeLock, Local, UsageOK, LateOK, Underway, Restarting,
              Approaching
<1>4. StatusKept' /\ CacheComesBack'
  BY Bounds DEF Shared, TypeLock, Local, Held, StatusKept, CacheComesBack, Restarting
<1>5. Held' /\ PendingOK'
  <2>1. Held'
    <3>1. \A q \in Process : ZCG'[q].counted => q \in lock'.usage
      BY <1>3 DEF UsageOK
    <3> QED BY <3>1 DEF Held, TypeLock, Restarting
  <2>2. PendingOK' BY DEF PendingOK, Shared, Restarting
  <2> QED BY <2>1, <2>2
<1>6. ScriptsStay'
  BY Bounds DEF Shared, TypeLock, Local, Held, UsageOK, LateOK, Underway, StatusKept,
              ScriptsStay, LockedScriptsStay, NothingStoredWhileEmptied, Restarting,
              Approaching
<1> QED BY <1>1, <1>2, <1>3, <1>4, <1>5, <1>6

\* Steps that change what a process has of the cache.
LEMMA ReadOK ==
  ASSUME NEW p \in Process, IInv, ReadStep(p)
  PROVE  IInv'
<1> USE DEF ReadStep, Snapshot, Find, Count, ReadLocked, InvalidateFind, EndRequest,
            Obtains, Fresh, Goto, historyVars, IInv, TypeOK
<1>1. ZCSG' \in Shared /\ TypeLock' /\ ZCG' \in [Process -> Local] /\ pc' \in [Process -> PC]
  <2>1. ZCSG' \in Shared /\ TypeLock' BY DEF Shared, TypeLock
  <2>2. pc' \in [Process -> PC] BY DEF PC, Approaching
  <2>3. PICK v \in Local : ZCG' = [ZCG EXCEPT ![p] = v]
    <3> DEFINE mine == ZCG[p]
    <3>1. mine \in Local /\ ZCSG.epoch \in Epoch BY DEF Shared
    <3>2. CASE Snapshot(p)
      <4>1. [mine EXCEPT !.accelerator_enabled = ZCSG.accelerator_enabled] \in Local
        BY <3>1 DEF Local, Shared
      <4> QED BY <3>2, <4>1
    <3>3. CASE Find(p) \/ InvalidateFind(p) BY <3>1, <3>3 DEF Local
    <3>4. CASE Count(p) \/ ReadLocked(p) BY <3>1, <3>4 DEF Local
    <3>5. CASE EndRequest(p) BY <3>5 DEF Local
    <3> QED BY <3>2, <3>3, <3>4, <3>5
  <2>4. ZCG' \in [Process -> Local] BY <2>3
  <2> QED BY <2>1, <2>2, <2>4
<1>2. TypeBudget' /\ late' \in SUBSET Process /\ past' \in SUBSET Past
  BY Bounds DEF TypeBudget, Past
<1>3. UsageOK' /\ LateOK'
  BY Bounds DEF Shared, TypeLock, Local, UsageOK, LateOK, Underway, Restarting,
              Approaching
<1>4. StatusKept' /\ CacheComesBack'
  BY Bounds DEF Shared, TypeLock, Local, Held, StatusKept, CacheComesBack, Restarting
<1>5. Held' /\ PendingOK'
  <2>1. Held'
    <3>1. \A q \in Process : ZCG'[q].counted => q \in lock'.usage
      BY <1>3 DEF UsageOK
    <3> QED BY <3>1 DEF Held, TypeLock, Restarting
  <2>2. PendingOK' BY DEF PendingOK, Shared, Restarting
  <2> QED BY <2>1, <2>2
<1>6. ScriptsStay'
  BY SMTT(30), Bounds DEF Shared, TypeLock, Local, Held, UsageOK, LateOK, Underway, StatusKept,
              ScriptsStay, LockedScriptsStay, NothingStoredWhileEmptied, Restarting,
              Approaching
<1> QED BY <1>1, <1>2, <1>3, <1>4, <1>5, <1>6

\* Who stores, discards or schedules waits for the allocation lock, so nobody is
\* carrying out a restart meanwhile.
LEMMA SchedulesOK ==
  ASSUME NEW p \in Process, IInv, Store(p) \/ Discard(p) \/ ResetSchedules(p)
  PROVE  IInv'
<1>0. Schedules(p) BY SchedulingSteps
<1> USE DEF Store, Discard, ResetSchedules, Obtains, Goto, Schedules, historyVars,
            IInv, TypeOK, Restarting, Approaching
<1>1. /\ ZCSG' \in Shared /\ TypeLock' /\ pc' \in [Process -> PC]
      /\ TypeBudget' /\ late' \in SUBSET Process /\ past' \in SUBSET Past
  BY <1>0 DEF PC, TypeLock, TypeBudget
<1>2. ZCG' \in [Process -> Local] BY SMTT(30), <1>0 DEF Local, Shared
<1>3. UsageOK' BY <1>0 DEF UsageOK, Local
<1>4. Held' BY <1>0 DEF Held, TypeLock, Local
<1>5. PendingOK' BY <1>0, Bounds DEF PendingOK, Held
<1>6. StatusKept' /\ CacheComesBack'
  BY <1>0, Bounds DEF StatusKept, CacheComesBack, Held, Shared
<1>7. LateOK' BY <1>0 DEF LateOK, UsageOK, Underway
<1>8. LockedScriptsStay'
  BY SMTT(30), <1>0 DEF LateOK, UsageOK, Underway, Local, Shared, ScriptsStay, LockedScriptsStay
<1>9. NothingStoredWhileEmptied'
  BY <1>0, Bounds DEF StatusKept, Held, Shared, ScriptsStay,
                                 NothingStoredWhileEmptied
<1> QED BY <1>1, <1>2, <1>3, <1>4, <1>5, <1>6, <1>7, <1>8, <1>9 DEF ScriptsStay

LEMMA TimeoutOK == ASSUME IInv, TimeoutDue PROVE IInv'
<1> USE DEF TimeoutDue, historyVars, IInv, TypeOK
<1>1. ZCSG' \in Shared /\ TypeLock' /\ TypeBudget' /\ Held' BY DEF Shared, TypeLock, TypeBudget, Held
<1>2. PendingOK' /\ StatusKept' /\ CacheComesBack'
  BY DEF Shared, PendingOK, StatusKept, CacheComesBack
<1>3. UsageOK' /\ LateOK' BY DEF Shared, UsageOK, LateOK, Underway
<1>4. ScriptsStay'
  BY DEF Shared, ScriptsStay, LockedScriptsStay, NothingStoredWhileEmptied
<1> QED BY <1>1, <1>2, <1>3, <1>4

LEMMA StutterOK == ASSUME IInv, UNCHANGED vars PROVE IInv'
BY DEF vars, IInv, TypeOK, TypeLock, TypeBudget, Held, PendingOK, StatusKept, UsageOK,
       LateOK, Underway, ScriptsStay, LockedScriptsStay, NothingStoredWhileEmptied,
       CacheComesBack

LEMMA NextIInv == IInv /\ [Next]_vars => IInv'
<1> SUFFICES ASSUME IInv, [Next]_vars PROVE IInv' OBVIOUS
<1>1. ASSUME NEW p \in Process,
             Step(p) \/ EndRequest(p) \/ KillRefused(p) \/ ResetCall(p) \/ CompileCall(p)
             \/ InvalidateCall(p) \/ Hang(p) \/ Die(p)
      PROVE  IInv'
  BY <1>1, SchedulesOK, RestartBeginOK, RestartWipeOK, RestartRestoreOK, RestartEnterOK,
     RestartLeaveOK, RestartUnlockOK, RestartForcedOK, KillDoneOK, KillRefusedOK,
     KillVictimOK, DieOK, WaitOK, ServeOK, ReadOK
     DEF Step, WaitStep, ServeStep, ReadStep
<1> QED BY <1>1, TimeoutOK, StutterOK DEF Next

LEMMA InitIInv == Init => IInv
<1> SUFFICES ASSUME Init PROVE IInv OBVIOUS
<1>1. {MaxRestarts, MaxDeaths, MaxHangs, MaxRefused} \subseteq Nat BY Bounds
<1>2. TypeOK
  <2>1. ZCSG \in Shared BY <1>1 DEF Init, Shared, Epoch
  <2>2. ZCG \in [Process -> Local] BY DEF Init, Fresh, Local
  <2>3. TypeLock /\ TypeBudget BY <1>1 DEF Init, TypeLock, TypeBudget
  <2>4. pc \in [Process -> PC] BY DEF Init, PC
  <2>5. Held BY DEF Init, Held, Restarting, Fresh
  <2>6. late \in SUBSET Process /\ past \in SUBSET Past BY DEF Init
  <2> QED BY <2>1, <2>2, <2>3, <2>4, <2>5, <2>6 DEF TypeOK
<1>3. PendingOK /\ StatusKept /\ UsageOK /\ LateOK
  BY DEF Init, Fresh, PendingOK, StatusKept, UsageOK, LateOK, Underway, Restarting,
         Approaching
<1>4. ScriptsStay /\ CacheComesBack
  BY DEF Init, Fresh, ScriptsStay, LockedScriptsStay, NothingStoredWhileEmptied,
         CacheComesBack
<1> QED BY <1>2, <1>3, <1>4 DEF IInv

LEMMA AlwaysIInv == Spec => []IInv
BY InitIInv, NextIInv, PTL DEF Spec

\* The shared globals, the bytes of the lock file and the copies of every
\* process stay well formed; above all whoever restarts or kills holds the
\* allocation lock, whoever empties the cache holds byte 2, and whoever counts
\* as a user holds byte 1, although the kernel drops the locks of the dead.
THEOREM OpcacheTypeCorrect == Spec => []TypeOK
<1>1. IInv => TypeOK BY DEF IInv
<1> QED BY <1>1, AlwaysIInv, PTL

\* accel_is_inactive and the allocation lock protect everyone who was in time:
\* the cache is never emptied under a process that had locked byte 1 before the
\* restart was decided on, and nothing is stored while it is being emptied.
THEOREM ScriptsProtected == Spec => []ScriptsStay
<1>1. IInv => ScriptsStay BY DEF IInv
<1> QED BY <1>1, AlwaysIInv, PTL

\* zend_accel_schedule_restart saves the status that accel_activate restores:
\* however the requests for a restart and the restarts interleave, a disabled
\* cache has a restart that will enable it, unless a process died in it.
THEOREM CacheReenabled == Spec => []CacheComesBack
<1>1. IInv => CacheComesBack BY DEF IInv
<1> QED BY <1>1, AlwaysIInv, PTL
=============================================================================
