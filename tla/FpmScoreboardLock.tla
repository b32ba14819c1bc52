------------------------- MODULE FpmScoreboardLock -------------------------
(***************************************************************************)
(* How the processes of one FPM pool share its scoreboard                  *)
(* (src/sapi/cli/fpm/fpm_scoreboard.c, fpm_request.c, fpm_atomic.h), at    *)
(* the grain of single accesses to the shared memory.                      *)
(*                                                                         *)
(* The totals of the pool are guarded by writer_active and reader_count,   *)
(* each slot by a spin lock of its own.  scoreboard->lock is left out: it  *)
(* is only taken with fpm_spinlock(lock, 1), a compare-and-swap whose      *)
(* result nobody looks at, so it holds back nobody.  reader_count is not   *)
(* atomic: its += and -= are a load and a store.                           *)
(*                                                                         *)
(* Slot i belongs to the worker i; the master, process 0, has none.        *)
(***************************************************************************)
EXTENDS Integers, FiniteSets

CONSTANTS
  NWorkers,     \* scoreboard->nprocs, all in use
  MaxRetries,   \* FPM_SCOREBOARD_SPINLOCK_MAX_RETRIES
  MaxReads,     \* bound: requests of the status page
  MaxDeaths     \* bound: workers that end, are killed or crash

ASSUME LockAssumption ==
  /\ NWorkers \in Nat \ {0}
  /\ {MaxRetries, MaxReads, MaxDeaths} \subseteq Nat

Worker  == 1 .. NWorkers
Master  == 0
Process == 0 .. NWorkers

VARIABLES
  writer_active, reader_count,
  lock,             \* lock[i]: procs[i].lock is taken
  request_stage,    \* procs[i].request_stage
  local,            \* the local state of each process
  nreads, ndeaths,  \* how much of MaxReads and MaxDeaths is used
  \* history, read by the properties only
  overrun,          \* the flag was cleared under a writer, or a writer gave up
  lost_writer,      \* a writer died; nobody has committed since
  lost_slot,        \* lost_slot[i]: a reader of slot i died holding its lock
  freed_under       \* freed_under[i]: slot i was freed with somebody in it

totalVars   == <<writer_active, reader_count>>
slotVars    == <<lock, request_stage>>
boundVars   == <<nreads, ndeaths>>
historyVars == <<overrun, lost_writer, lost_slot, freed_under>>
vars == <<totalVars, slotVars, local, boundVars, historyVars>>

\* The operations, where they have got to, and the local variables: the slot
\* they work on, reader_count as loaded, and the turns of a bounded wait.
Stage == {"creating", "accepting", "reading", "info", "executing", "end", "finished"}
Op    == Stage \cup {"none", "update", "copy", "giveup", "check"}
PC    == {"idle", "dead",
          "b_check", "b_flag",              \* fpm_scoreboard_update_begin
          "commit",                         \* fpm_scoreboard_update_commit
          "a_check", "a_load", "a_store",   \* fpm_scoreboard_acquire
          "d_load", "d_store",              \* fpm_scoreboard_readers_decrement
          "s_lock", "s_in"}                 \* a slot: waiting for it, inside it
Local == [pc : PC, op : Op, at : Process, tmp : Nat, retries : 0 .. MaxRetries]
AtPc(l, o, i) == [pc |-> l, op |-> o, at |-> i, tmp |-> 0, retries |-> 0]
Idle == AtPc("idle", "none", 0)

\* The operations that call fpm_scoreboard_update_begin; those that commit.
Begins  == {"update", "accepting", "reading"}
Commits == Begins \cup {"end"}

\* Between fpm_scoreboard_update_begin and its commit; inside slot i.
Writing(a) == local[a].op \in Begins /\ local[a].pc \in {"s_lock", "s_in", "commit"}
Inside(i)  == {a \in Process : local[a].pc = "s_in" /\ local[a].at = i}

TypeOK ==
  /\ writer_active \in BOOLEAN
  /\ reader_count \in Nat
  /\ lock \in [Worker -> BOOLEAN]
  /\ request_stage \in [Worker -> Stage]
  /\ local \in [Process -> Local]
  /\ nreads \in 0 .. MaxReads /\ ndeaths \in 0 .. MaxDeaths
  /\ overrun \in BOOLEAN /\ lost_writer \in BOOLEAN
  /\ lost_slot \in [Worker -> BOOLEAN] /\ freed_under \in [Worker -> BOOLEAN]
  /\ \A a \in Process : local[a].pc \in {"s_lock", "s_in"} => local[a].at \in Worker

Init ==
  /\ writer_active = FALSE /\ reader_count = 0
  /\ lock = [i \in Worker |-> FALSE]
  /\ request_stage = [i \in Worker |-> "creating"]
  /\ local = [a \in Process |-> Idle]
  /\ nreads = 0 /\ ndeaths = 0
  /\ overrun = FALSE /\ lost_writer = FALSE
  /\ lost_slot = [i \in Worker |-> FALSE]
  /\ freed_under = [i \in Worker |-> FALSE]

Goto(a, l) == local' = [local EXCEPT ![a].pc = l, ![a].retries = 0]
Retry(a)   == local' = [local EXCEPT ![a].retries = @ + 1]
Return(a)  == local' = [local EXCEPT ![a] = Idle]
Load(a, l) == local' = [local EXCEPT ![a].pc = l, ![a].tmp = reader_count]

-----------------------------------------------------------------------------
(* fpm_scoreboard_update_begin and fpm_scoreboard_update_commit.           *)

\* Slip: a writer waits for the readers without end.
BeginCheck_NoTimeout(a) ==
  /\ local[a].pc = "b_check"
  /\ \/ reader_count = 0 /\ Goto(a, "b_flag")
     \/ reader_count > 0 /\ UNCHANGED local
  /\ UNCHANGED <<totalVars, slotVars, boundVars, historyVars>>

\* It waits for the readers; after MaxRetries turns it takes one of them for
\* crashed and counts it out.
BeginCheck(a) ==
  /\ local[a].pc = "b_check"
  /\ \/ reader_count = 0 /\ Goto(a, "b_flag")
     \/ reader_count > 0 /\ local[a].retries < MaxRetries /\ Retry(a)
     \/ reader_count > 0 /\ local[a].retries = MaxRetries /\ Goto(a, "d_load")
  /\ UNCHANGED <<totalVars, slotVars, boundVars, historyVars>>

\* A writer holds writer_active, or goes on as if it did: to the worker's own
\* slot, or in the master to the commit.
Begun(a) == Goto(a, IF local[a].op = "update" THEN "commit" ELSE "s_lock")

\* Slip: a set flag does not hold the writer back.
BeginFlag_NoTest(a) ==
  /\ local[a].pc = "b_flag"
  /\ writer_active' = TRUE /\ Begun(a)
  /\ UNCHANGED <<reader_count, slotVars, boundVars, historyVars>>

\* Then it waits for the other writer; after MaxRetries turns it goes on all
\* the same.
BeginFlag(a) ==
  /\ local[a].pc = "b_flag"
  /\ \/ ~writer_active /\ writer_active' = TRUE /\ Begun(a) /\ UNCHANGED overrun
     \/ /\ writer_active /\ local[a].retries < MaxRetries
        /\ Retry(a) /\ UNCHANGED <<writer_active, overrun>>
     \/ /\ writer_active /\ local[a].retries = MaxRetries
        /\ Begun(a) /\ overrun' = TRUE /\ UNCHANGED writer_active
  /\ UNCHANGED <<reader_count, slotVars, boundVars, lost_writer, lost_slot, freed_under>>

\* Slip: the flag stays set.
Commit_NoUnlock(a) ==
  /\ local[a].pc = "commit"
  /\ Return(a)
  /\ lost_writer' = FALSE
  /\ overrun' = \E b \in Process \ {a} : Writing(b)
  /\ UNCHANGED <<totalVars, slotVars, boundVars, lost_slot, freed_under>>

\* Whoever commits clears the flag; fpm_request_end does without having set
\* it.
Commit(a) ==
  /\ local[a].pc = "commit"
  /\ writer_active' = FALSE
  /\ Return(a)
  /\ lost_writer' = FALSE
  /\ overrun' = \E b \in Process \ {a} : Writing(b)
  /\ UNCHANGED <<reader_count, slotVars, boundVars, lost_slot, freed_under>>

-----------------------------------------------------------------------------
(* fpm_scoreboard_acquire and fpm_scoreboard_release.                      *)

\* A reader waits for the writer; after MaxRetries turns it gives up, and
\* counts a reader out that it has not counted in.
AcquireCheck(a) ==
  /\ local[a].pc = "a_check"
  /\ \/ ~writer_active /\ Goto(a, "a_load")
     \/ writer_active /\ local[a].retries < MaxRetries /\ Retry(a)
     \/ /\ writer_active /\ local[a].retries = MaxRetries
        /\ local' = [local EXCEPT ![a] = AtPc("d_load", "giveup", 0)]
  /\ UNCHANGED <<totalVars, slotVars, boundVars, historyVars>>

\* reader_count += 1
AcquireLoad(a) ==
  /\ local[a].pc = "a_load" /\ Load(a, "a_store")
  /\ UNCHANGED <<totalVars, slotVars, boundVars, historyVars>>

AcquireStore(a) ==
  /\ local[a].pc = "a_store"
  /\ reader_count' = local[a].tmp + 1
  /\ Goto(a, "s_lock")
  /\ UNCHANGED <<writer_active, slotVars, boundVars, historyVars>>

\* fpm_scoreboard_readers_decrement.  In an optimised build one load serves
\* the test and the -=; without optimisation there would be two.
DecrementLoad(a) ==
  /\ local[a].pc = "d_load" /\ Load(a, "d_store")
  /\ UNCHANGED <<totalVars, slotVars, boundVars, historyVars>>

\* Slip: zero is decremented too.
DecrementStore_NoTest(a) ==
  /\ local[a].pc = "d_store"
  /\ reader_count' = local[a].tmp - 1
  /\ IF local[a].op \in Begins THEN Goto(a, "b_check") ELSE Return(a)
  /\ UNCHANGED <<writer_active, slotVars, boundVars, historyVars>>

\* A writer then starts to wait anew; a reader is done.
DecrementStore(a) ==
  /\ local[a].pc = "d_store"
  /\ reader_count' = IF local[a].tmp > 0 THEN local[a].tmp - 1 ELSE reader_count
  /\ IF local[a].op \in Begins THEN Goto(a, "b_check") ELSE Return(a)
  /\ UNCHANGED <<writer_active, slotVars, boundVars, historyVars>>

-----------------------------------------------------------------------------
(* fpm_scoreboard_proc_acquire and fpm_scoreboard_proc_release.            *)

\* The turn of the spin that finds the lock free.
SlotLock(a) ==
  /\ local[a].pc = "s_lock" /\ ~lock[local[a].at]
  /\ lock' = [lock EXCEPT ![local[a].at] = TRUE]
  /\ Goto(a, "s_in")
  /\ UNCHANGED <<totalVars, request_stage, boundVars, historyVars>>

\* What process a leaves behind when it releases slot i.
Release(a, i) ==
  /\ lock' = [lock EXCEPT ![i] = FALSE]
  /\ lost_slot' = [lost_slot EXCEPT ![i] = FALSE]
  /\ freed_under' = [freed_under EXCEPT ![i] = @ /\ Inside(i) # {a}]

\* fpm_scoreboard_copy has copied a slot: the next one, or the release.
CopySlot(a) ==
  /\ local[a].pc = "s_in" /\ local[a].op = "copy"
  /\ Release(a, local[a].at)
  /\ IF local[a].at < NWorkers
     THEN local' = [local EXCEPT ![a] = AtPc("s_lock", "copy", @.at + 1)]
     ELSE Goto(a, "d_load")
  /\ UNCHANGED <<totalVars, request_stage, boundVars, overrun, lost_writer>>

\* fpm_request_check_timed_out has copied a slot.
CheckSlot(a) ==
  /\ local[a].pc = "s_in" /\ local[a].op = "check"
  /\ Release(a, local[a].at)
  /\ Return(a)
  /\ UNCHANGED <<totalVars, request_stage, boundVars, overrun, lost_writer>>

\* The functions of fpm_request.c have written the worker's slot; some then
\* update the pool's totals.
StageSlot(a) ==
  /\ local[a].pc = "s_in" /\ local[a].op \in Stage
  /\ request_stage' = [request_stage EXCEPT ![local[a].at] = local[a].op]
  /\ Release(a, local[a].at)
  /\ IF local[a].op \in Commits THEN Goto(a, "commit") ELSE Return(a)
  /\ UNCHANGED <<totalVars, boundVars, overrun, lost_writer>>

-----------------------------------------------------------------------------
(* The operations.                                                         *)

Call(a, l, o, i) ==
  /\ local[a] = Idle
  /\ local' = [local EXCEPT ![a] = AtPc(l, o, i)]
  /\ UNCHANGED <<totalVars, slotVars, ndeaths, historyVars>>

\* The stages of a request in the order of the accept loop.  A connection may
\* be refused, fail, ask for values only, or be kept for the next request.
After(s) ==
  CASE s = "creating"  -> {"accepting"}
    [] s = "accepting" -> {"accepting", "reading", "finished"}
    [] s = "reading"   -> {"info", "finished", "reading"}
    [] s = "info"      -> {"executing", "end"}
    [] s = "executing" -> {"end"}
    [] s = "end"       -> {"finished", "reading"}
    [] s = "finished"  -> {"accepting"}

\* fpm_request_accepting, _reading_headers, _info, _executing, _end, _finished.
WorkerStage(w) ==
  /\ \E s \in After(request_stage[w]) :
       Call(w, IF s \in Begins THEN "b_check" ELSE "s_lock", s, w)
  /\ UNCHANGED nreads

\* fpm_scoreboard_copy, for the status page.
WorkerCopy(w) ==
  /\ request_stage[w] = "executing" /\ nreads < MaxReads
  /\ nreads' = nreads + 1
  /\ Call(w, "a_check", "copy", 1)

\* fpm_scoreboard_update, and the begin and commit around the counting loop of
\* the idle maintenance.
MasterUpdate == Call(Master, "b_check", "update", 0) /\ UNCHANGED nreads

\* fpm_request_check_timed_out: one try at the slot of a live child.
MasterCheck(w) ==
  /\ local[Master] = Idle /\ ~lock[w]
  /\ lock' = [lock EXCEPT ![w] = TRUE]
  /\ local' = [local EXCEPT ![Master] = AtPc("s_in", "check", w)]
  /\ UNCHANGED <<totalVars, request_stage, boundVars, historyVars>>

\* A worker ends or is killed, wherever it is.
WorkerDies(w) ==
  /\ local[w].pc # "dead" /\ ndeaths < MaxDeaths
  /\ ndeaths' = ndeaths + 1
  /\ local' = [local EXCEPT ![w] = AtPc("dead", "none", 0)]
  /\ lost_writer' = (lost_writer \/ Writing(w))
  /\ lost_slot' = [i \in Worker |->
       lost_slot[i] \/ (local[w].pc = "s_in" /\ local[w].at = i /\ i # w)]
  /\ UNCHANGED <<totalVars, slotVars, nreads, overrun, freed_under>>

\* Slip: the slot of a dead worker keeps its lock.
fpm_scoreboard_proc_free_KeepsLock(w) ==
  /\ local[w].pc = "dead" /\ local[Master] = Idle
  /\ request_stage' = [request_stage EXCEPT ![w] = "creating"]
  /\ local' = [local EXCEPT ![w] = Idle]
  /\ UNCHANGED <<totalVars, lock, boundVars, historyVars>>

\* fpm_scoreboard_proc_free clears the dead worker's slot, lock and all; then
\* a new child uses it.
fpm_scoreboard_proc_free(w) ==
  /\ local[w].pc = "dead" /\ local[Master] = Idle
  /\ lock' = [lock EXCEPT ![w] = FALSE]
  /\ request_stage' = [request_stage EXCEPT ![w] = "creating"]
  /\ local' = [local EXCEPT ![w] = Idle]
  /\ lost_slot' = [lost_slot EXCEPT ![w] = FALSE]
  /\ freed_under' = [freed_under EXCEPT ![w] = Inside(w) # {}]
  /\ UNCHANGED <<totalVars, boundVars, overrun, lost_writer>>

-----------------------------------------------------------------------------
\* What a process does inside an operation.
Inner(a) ==
  \/ BeginCheck(a) \/ BeginFlag(a) \/ Commit(a)
  \/ AcquireCheck(a) \/ AcquireLoad(a) \/ AcquireStore(a)
  \/ DecrementLoad(a) \/ DecrementStore(a)
  \/ CopySlot(a) \/ CheckSlot(a) \/ StageSlot(a)

Next ==
  \/ \E a \in Process : Inner(a) \/ SlotLock(a)
  \/ \E w \in Worker :
       \/ WorkerStage(w) \/ WorkerCopy(w) \/ MasterCheck(w)
       \/ WorkerDies(w) \/ fpm_scoreboard_proc_free(w)
  \/ MasterUpdate

Spec == Init /\ [][Next]_vars

\* Every process that is inside an operation runs; a spin that finds its lock
\* free again and again takes it; the master reaps dead workers between its
\* operations.  Nobody has to start an operation.
Fairness ==
  /\ \A a \in Process : WF_vars(Inner(a)) /\ SF_vars(SlotLock(a))
  /\ \A w \in Worker : SF_vars(fpm_scoreboard_proc_free(w))

FairSpec == Spec /\ Fairness

-----------------------------------------------------------------------------
(* Correctness.                                                            *)

\* writer_active never stays set behind everybody's back: if it is set, a
\* writer is between its begin and its commit, or one has died there and
\* nobody has committed since.  fpm_scoreboard_update_begin going on without
\* the flag and fpm_request_end committing without it do not break this.
NoStuckWriter == writer_active => lost_writer \/ \E a \in Process : Writing(a)

\* Two processes update the totals at once only if a writer was let in by its
\* timeout or another one's commit had cleared the flag under it.
WritersExclusive ==
  \A a, b \in Process : Writing(a) /\ Writing(b) /\ a # b => overrun

\* Two processes are inside one slot only if the master has freed the slot
\* under one of them: a copy of a slot is torn in no other way.
SlotExclusive ==
  \A i \in Worker : Cardinality(Inside(i)) > 1 => freed_under[i]

\* The lock of a slot is never stuck: somebody is inside the slot, or its
\* worker died there and is still to be reaped, or a reader died inside.
SlotLockHeld ==
  \A i \in Worker :
    lock[i] => Inside(i) # {} \/ local[i].pc = "dead" \/ lost_slot[i]

\* The comment in fpm_scoreboard_acquire: "increment reader if no writer
\* active".
ReaderWaitsForWriter == [][reader_count' > reader_count => ~writer_active]_vars

\* No writer and no reader waits for ever on a process that crashed with the
\* flag set or counted in: it gets in, or its wait is given up.
WaitsEnd ==
  \A a \in Process :
    local[a].pc \in {"b_check", "b_flag", "a_check"} ~>
      local[a].pc \notin {"b_check", "b_flag", "a_check", "d_load", "d_store"}

\* The slot locks do their work in spite of deaths, of the master clearing a
\* slot and of the status page: they exclude, and they do not get stuck.
SlotLocksRight == SlotExclusive /\ SlotLockHeld
=============================================================================
