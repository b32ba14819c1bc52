---------------------- MODULE FpmScoreboardLock_proofs ----------------------
(***************************************************************************)
(* Proofs about FpmScoreboardLock, for any number of workers, any length   *)
(* of the bounded waits and any number of reads and deaths.                *)
(*                                                                         *)
(* IInv types the state and says which operations reach which step.  On    *)
(* top of it, WInv strengthens the properties of the writers, SInv those   *)
(* of the slots.  Most actions leave what WInv or SInv speaks of alone:    *)
(* WritersQuiet and SlotsQuiet cover them.                                 *)
(***************************************************************************)
EXTENDS FpmScoreboardLock, FiniteSetTheorems, TLAPS

\* Which operations reach which step, and which of them have a slot.
LocalOK(l) ==
  /\ l.pc \in {"b_check", "b_flag"} => l.op \in Begins
  /\ l.pc = "commit" => l.op \in Commits
  /\ l.pc \in {"a_check", "a_load", "a_store"} => l.op = "copy"
  /\ l.pc \in {"s_lock", "s_in"} => l.op \in Stage \cup {"copy", "check"}
  /\ l.op \in Stage \cup {"copy", "check"} => l.at \in Worker

IInv == TypeOK /\ \A a \in Process : LocalOK(local[a])

LEMMA Sorts ==
  /\ Worker \subseteq Process /\ Master \in Process /\ 0 \in Process
  /\ Worker \subseteq Nat /\ 1 \in Worker /\ Master \notin Worker
  /\ MaxRetries \in Nat /\ MaxReads \in Nat /\ MaxDeaths \in Nat /\ NWorkers \in Nat
BY LockAssumption DEF Worker, Process, Master

LEMMA Names ==
  /\ {"b_check", "b_flag", "commit", "a_check", "a_load", "a_store",
      "d_load", "d_store", "s_lock", "s_in", "dead"} \subseteq PC
  /\ {"none", "update", "copy", "giveup", "check"} \subseteq Op /\ Stage \subseteq Op
BY DEF PC, Op

LEMMA AtPcType ==
  ASSUME NEW l \in PC, NEW o \in Op, NEW i \in Process
  PROVE  AtPc(l, o, i) \in Local
BY Sorts DEF AtPc, Local

LEMMA IdleOK == Idle \in Local /\ LocalOK(Idle)
BY Sorts, AtPcType DEF Idle, AtPc, PC, Op, LocalOK, Begins, Commits, Stage

LEMMA InitIInv == Init => IInv
<1> SUFFICES ASSUME Init PROVE IInv OBVIOUS
<1>1. \A a \in Process : local[a] = Idle BY DEF Init
<1>2. local \in [Process -> Local] BY IdleOK DEF Init
<1>3. Idle.pc = "idle" BY DEF Idle, AtPc
<1>4. \A a \in Process : local[a].pc \notin {"s_lock", "s_in"} BY <1>1, <1>3
<1>5. 0 \in 0 .. MaxReads /\ 0 \in 0 .. MaxDeaths BY Sorts
<1>6. TypeOK BY <1>2, <1>4, <1>5 DEF Init, TypeOK, Stage
<1> QED BY <1>1, <1>6, IdleOK DEF IInv

\* Process a moves from one proper local state to another.
Moves(a) == \E l \in Local : LocalOK(l) /\ local' = [local EXCEPT ![a] = l]

\* The rest of the state keeps its type.
OthersType ==
  /\ writer_active \in BOOLEAN /\ reader_count \in Nat
  /\ lock \in [Worker -> BOOLEAN] /\ request_stage \in [Worker -> Stage]
  /\ nreads \in 0 .. MaxReads /\ ndeaths \in 0 .. MaxDeaths
  /\ overrun \in BOOLEAN /\ lost_writer \in BOOLEAN
  /\ lost_slot \in [Worker -> BOOLEAN] /\ freed_under \in [Worker -> BOOLEAN]

LEMMA MovesOK ==
  ASSUME IInv, NEW a \in Process, Moves(a), OthersType'
  PROVE  IInv'
<1>0. PICK l \in Local : LocalOK(l) /\ local' = [local EXCEPT ![a] = l] BY DEF Moves
<1>1. local \in [Process -> Local] BY DEF IInv, TypeOK
<1>2. local' \in [Process -> Local] BY <1>0, <1>1
<1>3. \A b \in Process : LocalOK(local'[b]) BY <1>0, <1>1 DEF IInv
<1>4. \A b \in Process : local'[b].pc \in {"s_lock", "s_in"} => local'[b].at \in Worker
  BY <1>3 DEF LocalOK
<1>5. TypeOK' BY <1>2, <1>4 DEF TypeOK, OthersType
<1>6. (\A b \in Process : LocalOK(local[b]))' BY <1>3 DEF LocalOK, Worker
<1> QED BY <1>5, <1>6 DEF IInv

LEMMA Fields ==
  ASSUME IInv, NEW a \in Process
  PROVE  /\ local \in [Process -> Local] /\ reader_count \in Nat
         /\ local[a] \in Local /\ LocalOK(local[a])
         /\ local[a].pc \in PC /\ local[a].op \in Op /\ local[a].at \in Process
         /\ local[a].tmp \in Nat /\ local[a].retries \in 0 .. MaxRetries
BY DEF IInv, TypeOK, Local

\* What operation o on slot i needs to be at step x.
Fits(x, o, i) ==
  /\ x \in {"b_check", "b_flag"} => o \in Begins
  /\ x = "commit" => o \in Commits
  /\ x \in {"a_check", "a_load", "a_store"} => o = "copy"
  /\ x \in {"s_lock", "s_in"} => o \in Stage \cup {"copy", "check"}
  /\ o \in Stage \cup {"copy", "check"} => i \in Worker

LEMMA GotoMoves ==
  ASSUME IInv, NEW a \in Process, NEW x \in PC, Goto(a, x),
         Fits(x, local[a].op, local[a].at)
  PROVE  Moves(a)
<1> DEFINE m == [local[a] EXCEPT !.pc = x, !.retries = 0]
<1>f. /\ local \in [Process -> Local] /\ local[a] \in Local /\ LocalOK(local[a])
  BY Fields
<1>0. 0 \in 0 .. MaxRetries BY Sorts
<1>1. m \in Local BY <1>f, <1>0 DEF Local
<1>3. LocalOK(m) BY <1>f DEF Local, LocalOK, Fits
<1>2. local' = [local EXCEPT ![a] = m] BY <1>f DEF Goto
<1> QED BY <1>1, <1>2, <1>3 DEF Moves

LEMMA RetryMoves ==
  ASSUME IInv, NEW a \in Process, Retry(a), local[a].retries < MaxRetries
  PROVE  Moves(a)
<1> DEFINE m == [local[a] EXCEPT !.retries = @ + 1]
<1>f. /\ local \in [Process -> Local] /\ local[a] \in Local /\ LocalOK(local[a])
      /\ local[a].retries \in 0 .. MaxRetries
  BY Fields
<1>0. local[a].retries + 1 \in 0 .. MaxRetries BY <1>f, Sorts
<1>1. m \in Local
  <2>1. PICK r \in 0 .. MaxRetries : r = local[a].retries + 1 BY <1>0
  <2>2. m = [local[a] EXCEPT !.retries = r] BY <2>1
  <2>3. [local[a] EXCEPT !.retries = r] \in Local BY <1>f DEF Local
  <2> QED BY <2>2, <2>3
<1>3. LocalOK(m) BY <1>f DEF Local, LocalOK
<1>2. local' = [local EXCEPT ![a] = m] BY <1>f DEF Retry
<1> QED BY <1>1, <1>2, <1>3 DEF Moves

LEMMA LoadMoves ==
  ASSUME IInv, NEW a \in Process, NEW x \in PC, Load(a, x),
         Fits(x, local[a].op, local[a].at)
  PROVE  Moves(a)
<1> DEFINE m == [local[a] EXCEPT !.pc = x, !.tmp = reader_count]
<1>f. /\ local \in [Process -> Local] /\ local[a] \in Local /\ LocalOK(local[a])
      /\ reader_count \in Nat
  BY Fields
<1>1. m \in Local BY <1>f DEF Local
<1>3. LocalOK(m) BY <1>f DEF Local, LocalOK, Fits
<1>2. local' = [local EXCEPT ![a] = m] BY <1>f DEF Load
<1> QED BY <1>1, <1>2, <1>3 DEF Moves

LEMMA AtPcMoves ==
  ASSUME NEW a \in Process, NEW x \in PC, NEW o \in Op, NEW i \in Process,
         Fits(x, o, i), local' = [local EXCEPT ![a] = AtPc(x, o, i)]
  PROVE  Moves(a)
<1> DEFINE m == AtPc(x, o, i)
<1>1. m \in Local BY AtPcType
<1>2. LocalOK(m) BY DEF AtPc, LocalOK, Fits
<1> QED BY <1>1, <1>2 DEF Moves

LEMMA ReturnMoves ==
  ASSUME NEW a \in Process, Return(a)
  PROVE  Moves(a)
BY IdleOK DEF Return, Moves

-----------------------------------------------------------------------------
(* Typing: one lemma for each group of actions.                            *)

LEMMA BeginType ==
  ASSUME IInv, NEW a \in Process, BeginCheck(a) \/ BeginFlag(a) \/ Commit(a)
  PROVE  IInv'
<1>f. LocalOK(local[a]) BY Fields
<1> USE <1>f
<1>0. OthersType BY DEF IInv, TypeOK, OthersType
<1>1. CASE BeginCheck(a)
  <2>1. local[a].op \in Begins BY <1>1 DEF BeginCheck, LocalOK
  <2>2. ASSUME Goto(a, "b_flag") PROVE Moves(a)
    <3>1. Fits("b_flag", local[a].op, local[a].at) BY <2>1 DEF Fits, LocalOK
    <3> QED BY <2>2, <3>1, GotoMoves, Names
  <2>3. ASSUME Goto(a, "d_load") PROVE Moves(a)
    <3>1. Fits("d_load", local[a].op, local[a].at) BY DEF Fits, LocalOK
    <3> QED BY <2>3, <3>1, GotoMoves, Names
  <2>4. ASSUME local[a].retries < MaxRetries /\ Retry(a) PROVE Moves(a) BY <2>4, RetryMoves
  <2>5. Moves(a) BY <1>1, <2>2, <2>3, <2>4 DEF BeginCheck
  <2>6. OthersType'
    BY <1>0, <1>1 DEF BeginCheck, totalVars, slotVars, boundVars, historyVars, OthersType
  <2> QED BY <2>5, <2>6, MovesOK
<1>2. CASE BeginFlag(a)
  <2>1. local[a].op \in Begins BY <1>2 DEF BeginFlag, LocalOK
  <2>2. ASSUME Begun(a) PROVE Moves(a)
    <3>1. CASE local[a].op = "update"
      <4>1. Fits("commit", local[a].op, local[a].at)
        BY <2>1 DEF Fits, LocalOK, Commits
      <4>2. Goto(a, "commit") BY <2>2, <3>1 DEF Begun
      <4> QED BY <4>1, <4>2, GotoMoves, Names
    <3>2. CASE local[a].op # "update"
      <4>1. Fits("s_lock", local[a].op, local[a].at)
        BY <2>1, <3>2 DEF Fits, LocalOK, Begins, Stage
      <4>2. Goto(a, "s_lock") BY <2>2, <3>2 DEF Begun
      <4> QED BY <4>1, <4>2, GotoMoves, Names
    <3> QED BY <3>1, <3>2
  <2>3. ASSUME local[a].retries < MaxRetries /\ Retry(a) PROVE Moves(a) BY <2>3, RetryMoves
  <2>4. Moves(a) BY <1>2, <2>2, <2>3 DEF BeginFlag
  <2>5. OthersType'
    BY <1>0, <1>2 DEF BeginFlag, slotVars, boundVars, OthersType
  <2> QED BY <2>4, <2>5, MovesOK
<1>3. CASE Commit(a)
  <2>1. Moves(a) BY <1>3, ReturnMoves DEF Commit
  <2>2. OthersType'
    BY <1>0, <1>3 DEF Commit, slotVars, boundVars, OthersType
  <2> QED BY <2>1, <2>2, MovesOK
<1> QED BY <1>1, <1>2, <1>3

LEMMA ReaderType ==
  ASSUME IInv, NEW a \in Process,
         AcquireCheck(a) \/ AcquireLoad(a) \/ AcquireStore(a)
         \/ DecrementLoad(a) \/ DecrementStore(a)
  PROVE  IInv'
<1>f. LocalOK(local[a]) BY Fields
<1> USE <1>f
<1>0. OthersType BY DEF IInv, TypeOK, OthersType
<1>1. CASE AcquireCheck(a)
  <2>1. local[a].op = "copy" BY <1>1 DEF AcquireCheck, LocalOK
  <2>2. ASSUME Goto(a, "a_load") PROVE Moves(a)
    <3>1. Fits("a_load", local[a].op, local[a].at) BY <2>1 DEF Fits, LocalOK
    <3> QED BY <2>2, <3>1, GotoMoves, Names
  <2>3. ASSUME local[a].retries < MaxRetries /\ Retry(a) PROVE Moves(a) BY <2>3, RetryMoves
  <2>4. ASSUME local' = [local EXCEPT ![a] = AtPc("d_load", "giveup", 0)] PROVE Moves(a)
    <3>1. Fits("d_load", "giveup", 0) BY DEF Fits, Stage
    <3> QED BY <2>4, <3>1, AtPcMoves, Sorts, Names
  <2>5. Moves(a) BY <1>1, <2>2, <2>3, <2>4 DEF AcquireCheck
  <2>6. OthersType'
    BY <1>0, <1>1 DEF AcquireCheck, totalVars, slotVars, boundVars, historyVars, OthersType
  <2> QED BY <2>5, <2>6, MovesOK
<1>2. CASE AcquireLoad(a)
  <2>0. Fits("a_store", local[a].op, local[a].at)
    BY <1>2 DEF AcquireLoad, Fits, LocalOK
  <2>1. Moves(a) BY <1>2, <2>0, LoadMoves, Names DEF AcquireLoad
  <2>2. OthersType'
    BY <1>0, <1>2 DEF AcquireLoad, totalVars, slotVars, boundVars, historyVars, OthersType
  <2> QED BY <2>1, <2>2, MovesOK
<1>3. CASE AcquireStore(a)
  <2>0. Fits("s_lock", local[a].op, local[a].at)
    BY <1>3 DEF AcquireStore, Fits, LocalOK
  <2>1. Moves(a) BY <1>3, <2>0, GotoMoves, Names DEF AcquireStore
  <2>2. OthersType'
    BY <1>0, <1>3, Fields DEF AcquireStore, slotVars, boundVars, historyVars, OthersType
  <2> QED BY <2>1, <2>2, MovesOK
<1>4. CASE DecrementLoad(a)
  <2>0. Fits("d_store", local[a].op, local[a].at) BY DEF Fits, LocalOK
  <2>1. Moves(a) BY <1>4, <2>0, LoadMoves, Names DEF DecrementLoad
  <2>2. OthersType'
    BY <1>0, <1>4 DEF DecrementLoad, totalVars, slotVars, boundVars, historyVars, OthersType
  <2> QED BY <2>1, <2>2, MovesOK
<1>5. CASE DecrementStore(a)
  <2>1. ASSUME local[a].op \in Begins PROVE Moves(a)
    <3>1. Fits("b_check", local[a].op, local[a].at) BY <2>1 DEF Fits, LocalOK
    <3> QED BY <1>5, <2>1, <3>1, GotoMoves, Names DEF DecrementStore
  <2>2. ASSUME local[a].op \notin Begins PROVE Moves(a) BY <1>5, <2>2, ReturnMoves DEF DecrementStore
  <2>3. OthersType'
    BY <1>0, <1>5, Fields DEF DecrementStore, slotVars, boundVars, historyVars, OthersType
  <2> QED BY <2>1, <2>2, <2>3, MovesOK
<1> QED BY <1>1, <1>2, <1>3, <1>4, <1>5

LEMMA ReleaseType ==
  ASSUME IInv, NEW a, NEW i \in Worker, Release(a, i)
  PROVE  /\ lock' \in [Worker -> BOOLEAN] /\ lost_slot' \in [Worker -> BOOLEAN]
         /\ freed_under' \in [Worker -> BOOLEAN]
<1>1. lock' \in [Worker -> BOOLEAN] /\ lost_slot' \in [Worker -> BOOLEAN]
  BY DEF Release, IInv, TypeOK
<1>2. freed_under \in [Worker -> BOOLEAN] BY DEF IInv, TypeOK
<1>3. (freed_under[i] /\ Inside(i) # {a}) \in BOOLEAN OBVIOUS
<1>4. freed_under' = [freed_under EXCEPT ![i] = (freed_under[i] /\ Inside(i) # {a})]
  BY DEF Release
<1>5. freed_under' \in [Worker -> BOOLEAN] BY <1>2, <1>3, <1>4, Zenon
<1> QED BY <1>1, <1>5

LEMMA SlotType ==
  ASSUME IInv, NEW a \in Process,
         SlotLock(a) \/ CopySlot(a) \/ CheckSlot(a) \/ StageSlot(a)
  PROVE  IInv'
<1>f. LocalOK(local[a]) BY Fields
<1> USE <1>f
<1>0. OthersType BY DEF IInv, TypeOK, OthersType
<1>1. local[a].at \in Worker /\ local[a].op \in Stage \cup {"copy", "check"}
  BY DEF SlotLock, CopySlot, CheckSlot, StageSlot, LocalOK
<1>r. ASSUME Release(a, local[a].at)
      PROVE  /\ lock' \in [Worker -> BOOLEAN] /\ lost_slot' \in [Worker -> BOOLEAN]
             /\ freed_under' \in [Worker -> BOOLEAN]
  BY <1>1, <1>r, ReleaseType
<1>2. CASE SlotLock(a)
  <2>0. Fits("s_in", local[a].op, local[a].at) BY <1>1 DEF Fits
  <2>1. Moves(a) BY <1>2, <2>0, GotoMoves, Names DEF SlotLock
  <2>2. OthersType'
    BY <1>0, <1>1, <1>2 DEF SlotLock, totalVars, boundVars, historyVars, OthersType
  <2> QED BY <2>1, <2>2, MovesOK
<1>3. CASE CopySlot(a)
  <2>1. ASSUME local[a].at < NWorkers PROVE Moves(a)
    <3>1. local[a].at + 1 \in Worker /\ local[a].at + 1 \in Process
      BY <1>1, <2>1, Sorts DEF Worker, Process
    <3>2. local' = [local EXCEPT ![a] = AtPc("s_lock", "copy", local[a].at + 1)]
      BY <1>3, <2>1 DEF CopySlot
    <3>3. Fits("s_lock", "copy", local[a].at + 1) BY <3>1 DEF Fits
    <3> QED BY <3>1, <3>2, <3>3, AtPcMoves, Names
  <2>2. ASSUME ~(local[a].at < NWorkers) PROVE Moves(a)
    <3>1. Fits("d_load", local[a].op, local[a].at) BY <1>1 DEF Fits
    <3> QED BY <1>3, <2>2, <3>1, GotoMoves, Names DEF CopySlot
  <2>3. OthersType'
    BY <1>0, <1>r, <1>3 DEF CopySlot, totalVars, boundVars, OthersType
  <2> QED BY <2>1, <2>2, <2>3, MovesOK
<1>4. CASE CheckSlot(a)
  <2>1. Moves(a) BY <1>4, ReturnMoves DEF CheckSlot
  <2>2. OthersType'
    BY <1>0, <1>r, <1>4 DEF CheckSlot, totalVars, boundVars, OthersType
  <2> QED BY <2>1, <2>2, MovesOK
<1>5. CASE StageSlot(a)
  <2>1. ASSUME local[a].op \in Commits PROVE Moves(a)
    <3>1. Fits("commit", local[a].op, local[a].at) BY <1>1, <2>1 DEF Fits
    <3> QED BY <1>5, <2>1, <3>1, GotoMoves, Names DEF StageSlot
  <2>2. ASSUME local[a].op \notin Commits PROVE Moves(a) BY <1>5, <2>2, ReturnMoves DEF StageSlot
  <2>3. OthersType'
    BY <1>0, <1>r, <1>5 DEF StageSlot, totalVars, boundVars, OthersType
  <2> QED BY <2>1, <2>2, <2>3, MovesOK
<1> QED BY <1>2, <1>3, <1>4, <1>5

LEMMA CallType ==
  ASSUME IInv, NEW a \in Process, NEW x \in PC, NEW o \in Op, NEW i \in Process,
         Fits(x, o, i), Call(a, x, o, i), nreads' \in 0 .. MaxReads
  PROVE  IInv'
<1>1. Moves(a) BY AtPcMoves DEF Call
<1>2. OthersType'
  BY DEF Call, totalVars, slotVars, historyVars, IInv, TypeOK, OthersType
<1> QED BY <1>1, <1>2, MovesOK

LEMMA OperationType ==
  ASSUME IInv, NEW w \in Worker,
         WorkerStage(w) \/ WorkerCopy(w) \/ MasterCheck(w) \/ WorkerDies(w)
         \/ fpm_scoreboard_proc_free(w) \/ MasterUpdate
  PROVE  IInv'
<1> USE Sorts
<1>0. OthersType BY DEF IInv, TypeOK, OthersType
<1>1. CASE WorkerStage(w)
  <2>1. PICK s \in After(request_stage[w]) :
          Call(w, IF s \in Begins THEN "b_check" ELSE "s_lock", s, w)
    BY <1>1 DEF WorkerStage
  <2>2. s \in Stage BY <2>1 DEF IInv, TypeOK, Stage, After
  <2>3. nreads' \in 0 .. MaxReads BY <1>1 DEF WorkerStage, IInv, TypeOK
  <2>4. CASE s \in Begins
    <3>1. Fits("b_check", s, w) BY <2>4 DEF Fits
    <3>2. Call(w, "b_check", s, w) BY <2>1, <2>4
    <3> QED BY <2>2, <2>3, <3>1, <3>2, CallType, Names
  <2>5. CASE s \notin Begins
    <3>1. Fits("s_lock", s, w) BY <2>2 DEF Fits
    <3>2. Call(w, "s_lock", s, w) BY <2>1, <2>5
    <3> QED BY <2>2, <2>3, <3>1, <3>2, CallType, Names
  <2> QED BY <2>4, <2>5
<1>2. CASE WorkerCopy(w)
  <2>1. nreads' \in 0 .. MaxReads BY <1>2 DEF WorkerCopy, IInv, TypeOK
  <2>2. Fits("a_check", "copy", 1) BY DEF Fits
  <2>3. Call(w, "a_check", "copy", 1) BY <1>2 DEF WorkerCopy
  <2> QED BY <2>1, <2>2, <2>3, CallType, Names
<1>3. CASE MasterCheck(w)
  <2>1. local' = [local EXCEPT ![Master] = AtPc("s_in", "check", w)]
        /\ lock' = [lock EXCEPT ![w] = TRUE]
        /\ UNCHANGED <<totalVars, request_stage, boundVars, historyVars>>
    BY <1>3 DEF MasterCheck
  <2>0. Fits("s_in", "check", w) BY DEF Fits
  <2>2. Moves(Master) BY <2>0, <2>1, AtPcMoves, Names
  <2>3. OthersType' BY <1>0, <2>1 DEF totalVars, boundVars, historyVars, OthersType
  <2> QED BY <2>2, <2>3, MovesOK
<1>4. CASE WorkerDies(w)
  <2>0. Fits("dead", "none", 0) BY DEF Fits, Stage
  <2>1. Moves(w) BY <1>4, <2>0, AtPcMoves, Names DEF WorkerDies
  <2>2. ndeaths' \in 0 .. MaxDeaths /\ lost_writer' \in BOOLEAN
        /\ lost_slot' \in [Worker -> BOOLEAN]
    <3>1. lost_writer' \in BOOLEAN BY <1>4 DEF WorkerDies
    <3>2. ndeaths' \in 0 .. MaxDeaths BY <1>0, <1>4 DEF WorkerDies, OthersType
    <3>3. \A i \in Worker :
            (lost_slot[i] \/ (local[w].pc = "s_in" /\ local[w].at = i /\ i # w)) \in BOOLEAN
      OBVIOUS
    <3>4. lost_slot' = [i \in Worker |->
            lost_slot[i] \/ (local[w].pc = "s_in" /\ local[w].at = i /\ i # w)]
      BY <1>4 DEF WorkerDies
    <3>5. lost_slot' \in [Worker -> BOOLEAN] BY <3>3, <3>4, Zenon
    <3> QED BY <3>1, <3>2, <3>5
  <2>3. OthersType' BY <1>0, <1>4, <2>2 DEF WorkerDies, totalVars, slotVars, OthersType
  <2> QED BY <2>1, <2>3, MovesOK
<1>5. CASE fpm_scoreboard_proc_free(w)
  <2>1. Return(w) BY <1>5 DEF fpm_scoreboard_proc_free, Return
  <2>2. Moves(w) BY <2>1, ReturnMoves
  <2>3. freed_under' \in [Worker -> BOOLEAN]
    <3>1. freed_under' = [freed_under EXCEPT ![w] = (Inside(w) # {})]
      BY <1>5 DEF fpm_scoreboard_proc_free
    <3>2. (Inside(w) # {}) \in BOOLEAN OBVIOUS
    <3> QED BY <1>0, <3>1, <3>2 DEF OthersType
  <2>4. OthersType'
    BY <1>0, <1>5, <2>3
    DEF fpm_scoreboard_proc_free, totalVars, boundVars, OthersType, Stage
  <2> QED BY <2>2, <2>4, MovesOK
<1>6. CASE MasterUpdate
  <2>1. nreads' \in 0 .. MaxReads BY <1>6 DEF MasterUpdate, IInv, TypeOK
  <2>2. Fits("b_check", "update", 0) BY DEF Fits, Begins, Stage
  <2>3. Call(Master, "b_check", "update", 0) BY <1>6 DEF MasterUpdate
  <2> QED BY <2>1, <2>2, <2>3, CallType, Names
<1> QED BY <1>1, <1>2, <1>3, <1>4, <1>5, <1>6

LEMMA NextIInv == IInv /\ [Next]_vars => IInv'
<1> SUFFICES ASSUME IInv, [Next]_vars PROVE IInv' OBVIOUS
<1>1. ASSUME NEW a \in Process, Inner(a) \/ SlotLock(a) PROVE IInv'
  BY <1>1, BeginType, ReaderType, SlotType DEF Inner
<1>2. ASSUME NEW w \in Worker,
             WorkerStage(w) \/ WorkerCopy(w) \/ MasterCheck(w) \/ WorkerDies(w)
             \/ fpm_scoreboard_proc_free(w)
      PROVE  IInv'
  BY <1>2, OperationType
<1>3. CASE MasterUpdate BY <1>3, Sorts, OperationType
<1>4. CASE UNCHANGED vars
  BY <1>4 DEF vars, totalVars, slotVars, boundVars, historyVars, IInv, TypeOK, Local,
              LocalOK, Worker, Process
<1> QED BY <1>1, <1>2, <1>3, <1>4 DEF Next

LEMMA AlwaysIInv == Spec => []IInv
BY InitIInv, NextIInv, PTL DEF Spec

\* Every reachable state of the scoreboard is well typed; reader_count, an
\* unsigned int, never goes below zero although its updates race.
THEOREM ScoreboardTyped == Spec => []TypeOK
<1>1. IInv => TypeOK BY DEF IInv
<1> QED BY <1>1, AlwaysIInv, PTL

-----------------------------------------------------------------------------
(* The writers.                                                            *)

\* A writer that holds the flag or knows that somebody has overrun it.
WInv ==
  /\ NoStuckWriter
  /\ WritersExclusive
  /\ \A a \in Process : Writing(a) => writer_active \/ overrun

\* Process a moves; neither the flag nor who writes changes.
QuietWriter(a) ==
  /\ writer_active' = writer_active /\ overrun' = overrun /\ lost_writer' = lost_writer
  /\ \A b \in Process \ {a} : local'[b] = local[b]
  /\ (local'[a].op \in Begins /\ local'[a].pc \in {"s_lock", "s_in", "commit"})
       <=> Writing(a)

LEMMA WritersQuiet ==
  ASSUME WInv, NEW a \in Process, QuietWriter(a)
  PROVE  WInv'
<1>1. ASSUME NEW b \in Process PROVE Writing(b)' <=> Writing(b)
  BY DEF QuietWriter, Writing
<1>2. WritersExclusive' BY <1>1 DEF WInv, WritersExclusive, QuietWriter, Process
<1>3. NoStuckWriter' BY <1>1 DEF WInv, NoStuckWriter, QuietWriter, Process
<1>4. (\A b \in Process : Writing(b) => writer_active \/ overrun)'
  BY <1>1 DEF WInv, QuietWriter, Process
<1> QED BY <1>2, <1>3, <1>4 DEF WInv

LEMMA WritersBegin ==
  ASSUME IInv, WInv, NEW a \in Process, BeginCheck(a) \/ BeginFlag(a)
  PROVE  WInv'
<1>f. local \in [Process -> Local] /\ LocalOK(local[a]) BY Fields
<1>1. CASE BeginCheck(a) \/ (BeginFlag(a) /\ Retry(a) /\ UNCHANGED <<writer_active, overrun>>)
  <2>1. \A b \in Process \ {a} : local'[b] = local[b]
    BY <1>f, <1>1 DEF BeginCheck, Goto, Retry
  <2>2. local'[a].pc \in {"b_check", "b_flag", "d_load"} /\ ~Writing(a)
    BY <1>f, <1>1 DEF BeginCheck, BeginFlag, Goto, Retry, Writing, Local
  <2>3. QuietWriter(a)
    BY <1>1, <2>1, <2>2 DEF QuietWriter, BeginCheck, BeginFlag, totalVars, historyVars
  <2> QED BY <2>3, WritersQuiet
<1>2. CASE BeginFlag(a) /\ Begun(a)
  <2>1. \A b \in Process \ {a} : local'[b] = local[b] BY <1>f, <1>2 DEF Begun, Goto
  <2>2. local'[a].pc \in {"commit", "s_lock"} /\ local'[a].op \in Begins
    BY <1>f, <1>2 DEF BeginFlag, Begun, Goto, Local, LocalOK
  <2>3. Writing(a)' /\ ~Writing(a) BY <1>2, <2>2 DEF Writing, BeginFlag
  <2>4. ASSUME NEW b \in Process, b # a PROVE Writing(b)' <=> Writing(b)
    BY <2>1, <2>4 DEF Writing
  <2>5. NoStuckWriter' BY <2>3 DEF NoStuckWriter, Process
  <2>6. (writer_active \/ overrun)' BY <1>2 DEF BeginFlag
  <2>7. (\A b \in Process : Writing(b) => writer_active \/ overrun)' BY <2>6
  <2>8. ASSUME NEW b \in Process, NEW c \in Process,
               Writing(b)', Writing(c)', b # c
        PROVE  overrun'
    <3>1. CASE ~writer_active
      <4>1. Writing(b) \/ Writing(c) BY <2>4, <2>8
      <4>2. overrun /\ overrun' = overrun
        BY <1>2, <3>1, <4>1 DEF WInv, BeginFlag
      <4> QED BY <4>2
    <3>2. CASE writer_active
      <4>1. local[a].retries = MaxRetries \/ (local[a].retries < MaxRetries /\ Retry(a))
        BY <1>2, <3>2 DEF BeginFlag
      <4>2. ~Retry(a)
        <5>1. local'[a].pc = "b_flag" \/ ~Retry(a)
          BY <1>f, <1>2 DEF BeginFlag, Retry, Local
        <5> QED BY <2>2, <5>1
      <4> QED BY <1>2, <3>2, <4>2 DEF BeginFlag
    <3> QED BY <3>1, <3>2
  <2>9. WritersExclusive' BY <2>8 DEF WritersExclusive, Process
  <2> QED BY <2>5, <2>7, <2>9 DEF WInv
<1> QED BY <1>1, <1>2 DEF BeginFlag

LEMMA WritersCommit ==
  ASSUME IInv, WInv, NEW a \in Process, Commit(a)
  PROVE  WInv'
<1>f. local \in [Process -> Local] BY Fields
<1>1. \A b \in Process \ {a} : local'[b] = local[b] BY <1>f DEF Commit, Return
<1>2. local'[a] = Idle BY <1>f DEF Commit, Return
<1>3. ~Writing(a)' BY <1>2 DEF Writing, Idle, AtPc
<1>4. ASSUME NEW b \in Process, Writing(b)' PROVE overrun'
  <2>1. b # a BY <1>3, <1>4
  <2>2. Writing(b) BY <1>1, <1>4, <2>1 DEF Writing
  <2> QED BY <2>1, <2>2 DEF Commit
<1>5. NoStuckWriter' BY DEF Commit, NoStuckWriter
<1>6. WritersExclusive' BY <1>4 DEF WritersExclusive, Process
<1>7. (\A b \in Process : Writing(b) => writer_active \/ overrun)'
  BY <1>4 DEF Process
<1> QED BY <1>5, <1>6, <1>7 DEF WInv

LEMMA WritersReader ==
  ASSUME IInv, WInv, NEW a \in Process,
         AcquireCheck(a) \/ AcquireLoad(a) \/ AcquireStore(a)
         \/ DecrementLoad(a) \/ DecrementStore(a)
  PROVE  WInv'
<1>f. local \in [Process -> Local] /\ LocalOK(local[a]) BY Fields
<1>1. \A b \in Process \ {a} : local'[b] = local[b]
  BY <1>f DEF AcquireCheck, AcquireLoad, AcquireStore, DecrementLoad, DecrementStore,
              Goto, Retry, Return, Load
<1>2. ~Writing(a)
  BY DEF AcquireCheck, AcquireLoad, AcquireStore, DecrementLoad, DecrementStore, Writing
<1>3. CASE AcquireCheck(a) \/ AcquireLoad(a) \/ AcquireStore(a)
  <2>1. local[a].op = "copy"
    BY <1>f, <1>3 DEF AcquireCheck, AcquireLoad, AcquireStore, LocalOK
  <2>2. local'[a].op \in {"copy", "giveup"}
    BY <1>f, <1>3, <2>1
    DEF AcquireCheck, AcquireLoad, AcquireStore, Goto, Retry, Load, AtPc, Local
  <2>3. local'[a].op \notin Begins BY <2>2 DEF Begins
  <2>4. QuietWriter(a)
    BY <1>1, <1>2, <1>3, <2>3
    DEF QuietWriter, AcquireCheck, AcquireLoad, AcquireStore, totalVars, historyVars
  <2> QED BY <2>4, WritersQuiet
<1>4. CASE DecrementLoad(a)
  <2>1. local'[a].pc = "d_store" BY <1>f, <1>4 DEF DecrementLoad, Load, Local
  <2>2. QuietWriter(a)
    BY <1>1, <1>2, <1>4, <2>1 DEF QuietWriter, DecrementLoad, totalVars, historyVars
  <2> QED BY <2>2, WritersQuiet
<1>5. CASE DecrementStore(a)
  <2>1. local'[a].pc \in {"b_check", "idle"}
    BY <1>f, <1>5 DEF DecrementStore, Goto, Return, Idle, AtPc, Local
  <2>2. QuietWriter(a)
    BY <1>1, <1>2, <1>5, <2>1 DEF QuietWriter, DecrementStore, historyVars
  <2> QED BY <2>2, WritersQuiet
<1> QED BY <1>3, <1>4, <1>5
LEMMA WritersSlot ==
  ASSUME IInv, WInv, NEW a \in Process,
         SlotLock(a) \/ CopySlot(a) \/ CheckSlot(a) \/ StageSlot(a)
  PROVE  WInv'
<1>f. local \in [Process -> Local] /\ local[a] \in Local BY Fields
<1>1. \A b \in Process \ {a} : local'[b] = local[b]
  BY <1>f DEF SlotLock, CopySlot, CheckSlot, StageSlot, Goto, Return
<1>2. writer_active' = writer_active /\ overrun' = overrun /\ lost_writer' = lost_writer
  BY DEF SlotLock, CopySlot, CheckSlot, StageSlot, totalVars, historyVars
<1>3. CASE SlotLock(a)
  <2>1. local'[a].pc = "s_in" /\ local'[a].op = local[a].op /\ local[a].pc = "s_lock"
    BY <1>f, <1>3 DEF SlotLock, Goto, Local
  <2>2. QuietWriter(a) BY <1>1, <1>2, <2>1 DEF QuietWriter, Writing
  <2> QED BY <2>2, WritersQuiet
<1>4. CASE CopySlot(a) \/ CheckSlot(a)
  <2>1. ~Writing(a) BY <1>4 DEF CopySlot, CheckSlot, Writing, Begins
  <2>2. local'[a].op \in {"copy", "none"}
    BY <1>f, <1>4 DEF CopySlot, CheckSlot, Goto, Return, Idle, AtPc, Local
  <2>3. local'[a].op \notin Begins BY <2>2 DEF Begins
  <2>4. QuietWriter(a) BY <1>1, <1>2, <2>1, <2>3 DEF QuietWriter
  <2> QED BY <2>4, WritersQuiet
<1>5. CASE StageSlot(a)
  <2>1. CASE local[a].op \in Commits
    <3>1. local'[a].pc = "commit" /\ local'[a].op = local[a].op /\ local[a].pc = "s_in"
      BY <1>f, <1>5, <2>1 DEF StageSlot, Goto, Local
    <3>2. QuietWriter(a) BY <1>1, <1>2, <3>1 DEF QuietWriter, Writing
    <3> QED BY <3>2, WritersQuiet
  <2>2. CASE local[a].op \notin Commits
    <3>1. ~Writing(a) BY <2>2 DEF Writing, Commits
    <3>2. local'[a].pc = "idle"
      BY <1>f, <1>5, <2>2 DEF StageSlot, Return, Idle, AtPc
    <3>3. QuietWriter(a) BY <1>1, <1>2, <3>1, <3>2 DEF QuietWriter
    <3> QED BY <3>3, WritersQuiet
  <2> QED BY <2>1, <2>2
<1> QED BY <1>3, <1>4, <1>5

LEMMA WritersCall ==
  ASSUME IInv, WInv, NEW a \in Process, NEW x \in PC, NEW o \in Op, NEW i \in Process,
         local[a] = Idle \/ local[a].pc = "dead",
         local' = [local EXCEPT ![a] = AtPc(x, o, i)],
         x \in {"s_lock", "s_in"} => o \notin Begins, x # "commit",
         UNCHANGED <<writer_active, overrun, lost_writer>>
  PROVE  WInv'
<1>f. local \in [Process -> Local] BY Fields
<1>1. \A b \in Process \ {a} : local'[b] = local[b] BY <1>f
<1>2. ~Writing(a) BY DEF Writing, Idle, AtPc
<1>3. local'[a].pc = x /\ local'[a].op = o BY <1>f DEF AtPc
<1>4. QuietWriter(a) BY <1>1, <1>2, <1>3 DEF QuietWriter
<1> QED BY <1>4, WritersQuiet

LEMMA WritersOperation ==
  ASSUME IInv, WInv, NEW w \in Worker,
         WorkerStage(w) \/ WorkerCopy(w) \/ MasterCheck(w) \/ WorkerDies(w)
         \/ fpm_scoreboard_proc_free(w) \/ MasterUpdate
  PROVE  WInv'
<1> USE Sorts
<1>1. CASE WorkerStage(w)
  <2>1. PICK s \in After(request_stage[w]) :
          Call(w, IF s \in Begins THEN "b_check" ELSE "s_lock", s, w)
    BY <1>1 DEF WorkerStage
  <2>2. s \in Stage BY <2>1 DEF IInv, TypeOK, Stage, After
  <2>3. PICK x \in {"b_check", "s_lock"} :
          Call(w, x, s, w) /\ (x = "s_lock" => s \notin Begins)
    BY <2>1
  <2> QED BY <2>2, <2>3, WritersCall, Names DEF Call, totalVars, historyVars
<1>2. CASE WorkerCopy(w)
  <2>1. Call(w, "a_check", "copy", 1) BY <1>2 DEF WorkerCopy
  <2> QED BY <2>1, WritersCall, Names DEF Call, totalVars, historyVars
<1>3. CASE MasterCheck(w)
  <2>1. "check" \notin Begins BY DEF Begins
  <2> QED BY <1>3, <2>1, WritersCall, Names DEF MasterCheck, totalVars, historyVars
<1>4. CASE WorkerDies(w)
  <2>f. local \in [Process -> Local] BY Fields
  <2>1. \A b \in Process \ {w} : local'[b] = local[b] BY <1>4, <2>f DEF WorkerDies
  <2>2. ~Writing(w)' BY <1>4, <2>f DEF WorkerDies, Writing, AtPc
  <2>3. ASSUME NEW b \in Process PROVE Writing(b)' <=> (Writing(b) /\ b # w)
    BY <2>1, <2>2 DEF Writing
  <2>4. writer_active' = writer_active /\ overrun' = overrun
        /\ lost_writer' = (lost_writer \/ Writing(w))
    BY <1>4 DEF WorkerDies, totalVars
  <2>5. NoStuckWriter' BY <2>3, <2>4 DEF WInv, NoStuckWriter, Process
  <2>6. WritersExclusive' BY <2>3, <2>4 DEF WInv, WritersExclusive, Process
  <2>7. (\A b \in Process : Writing(b) => writer_active \/ overrun)'
    BY <2>3, <2>4 DEF WInv, Process
  <2> QED BY <2>5, <2>6, <2>7 DEF WInv
<1>5. CASE fpm_scoreboard_proc_free(w)
  <2>1. "idle" \in PC /\ "idle" \notin {"s_lock", "s_in", "commit"} BY DEF PC
  <2> QED BY <1>5, <2>1, WritersCall, Names
      DEF fpm_scoreboard_proc_free, Idle, totalVars
<1>6. CASE MasterUpdate
  <2>1. Call(Master, "b_check", "update", 0) BY <1>6 DEF MasterUpdate
  <2> QED BY <2>1, WritersCall, Names DEF Call, totalVars, historyVars
<1> QED BY <1>1, <1>2, <1>3, <1>4, <1>5, <1>6

LEMMA NextWInv == IInv /\ WInv /\ [Next]_vars => WInv'
<1> SUFFICES ASSUME IInv, WInv, [Next]_vars PROVE WInv' OBVIOUS
<1>1. ASSUME NEW a \in Process, Inner(a) \/ SlotLock(a) PROVE WInv'
  BY <1>1, WritersBegin, WritersCommit, WritersReader, WritersSlot DEF Inner
<1>2. ASSUME NEW w \in Worker,
             WorkerStage(w) \/ WorkerCopy(w) \/ MasterCheck(w) \/ WorkerDies(w)
             \/ fpm_scoreboard_proc_free(w)
      PROVE  WInv'
  BY <1>2, WritersOperation
<1>3. CASE MasterUpdate BY <1>3, Sorts, WritersOperation
<1>4. CASE UNCHANGED vars
  BY <1>4 DEF vars, totalVars, historyVars, WInv, NoStuckWriter, WritersExclusive,
              Writing, Process
<1> QED BY <1>1, <1>2, <1>3, <1>4 DEF Next

LEMMA AlwaysWInv == Spec => []WInv
<1>1. Init => WInv
  BY DEF Init, WInv, NoStuckWriter, WritersExclusive, Writing, Idle, AtPc
<1> QED BY <1>1, AlwaysIInv, NextWInv, PTL DEF Spec

\* The flag of the totals is never left set by nobody: a writer is at work or
\* has died since the last commit.
THEOREM FlagNeverStuck == Spec => []NoStuckWriter
<1>1. WInv => NoStuckWriter BY DEF WInv
<1> QED BY <1>1, AlwaysWInv, PTL

\* Two writers at once only after a timeout or after the commit of a process
\* that had not begun.
THEOREM WritersKeptApart == Spec => []WritersExclusive
<1>1. WInv => WritersExclusive BY DEF WInv
<1> QED BY <1>1, AlwaysWInv, PTL

-----------------------------------------------------------------------------
(* The slots.                                                              *)

\* Unless the slot was freed under somebody, at most one process is inside,
\* and none while the lock is free.
SlotOK(i) ==
  ~freed_under[i] =>
    /\ \A a, b \in Inside(i) : a = b
    /\ ~lock[i] => Inside(i) = {}

\* A taken lock is accounted for.
HeldOK(i) == lock[i] => Inside(i) # {} \/ local[i].pc = "dead" \/ lost_slot[i]

SInv == \A i \in Worker : SlotOK(i) /\ HeldOK(i)

\* Process a moves; neither the slots nor who is inside one changes.
QuietSlot(a) ==
  /\ lock' = lock /\ lost_slot' = lost_slot /\ freed_under' = freed_under
  /\ \A b \in Process \ {a} : local'[b] = local[b]
  /\ local[a].pc \notin {"s_in", "dead"} /\ local'[a].pc # "s_in"

LEMMA SlotsQuiet ==
  ASSUME SInv, NEW a \in Process, QuietSlot(a)
  PROVE  SInv'
<1>1. ASSUME NEW i \in Worker PROVE Inside(i)' = Inside(i)
  BY DEF QuietSlot, Inside, Process
<1>2. ASSUME NEW i \in Worker PROVE local[i].pc = "dead" => local'[i].pc = "dead"
  BY Sorts DEF QuietSlot
<1>3. ASSUME NEW i \in Worker PROVE SlotOK(i)' /\ HeldOK(i)'
  BY <1>1, <1>2 DEF SInv, SlotOK, HeldOK, QuietSlot
<1> QED BY <1>3 DEF SInv, Worker

LEMMA SlotsInner ==
  ASSUME IInv, SInv, NEW a \in Process,
         BeginCheck(a) \/ BeginFlag(a) \/ Commit(a)
         \/ AcquireCheck(a) \/ AcquireLoad(a) \/ AcquireStore(a)
         \/ DecrementLoad(a) \/ DecrementStore(a)
  PROVE  SInv'
<1>f. local \in [Process -> Local] BY Fields
<1>1. \A b \in Process \ {a} : local'[b] = local[b]
  BY <1>f DEF BeginCheck, BeginFlag, Begun, Commit, AcquireCheck, AcquireLoad, AcquireStore,
              DecrementLoad, DecrementStore, Goto, Retry, Return, Load
<1>2. local[a].pc \notin {"s_in", "dead"}
  BY DEF BeginCheck, BeginFlag, Commit, AcquireCheck, AcquireLoad, AcquireStore,
         DecrementLoad, DecrementStore
<1>3. CASE BeginCheck(a) \/ BeginFlag(a) \/ Commit(a)
  <2>1. local'[a].pc # "s_in"
    <3>1. CASE BeginCheck(a) BY <1>f, <3>1 DEF BeginCheck, Goto, Retry, Local
    <3>2. CASE BeginFlag(a)
      <4>1. CASE Begun(a) BY <1>f, <4>1 DEF Begun, Goto, Local
      <4>2. CASE Retry(a) BY <1>f, <1>2, <4>2 DEF Retry, Local
      <4> QED BY <3>2, <4>1, <4>2 DEF BeginFlag
    <3>3. CASE Commit(a) BY <1>f, <3>3 DEF Commit, Return, Idle, AtPc
    <3> QED BY <1>3, <3>1, <3>2, <3>3
  <2>2. QuietSlot(a)
    BY <1>1, <1>2, <1>3, <2>1
    DEF QuietSlot, BeginCheck, BeginFlag, Commit, slotVars, historyVars
  <2> QED BY <2>2, SlotsQuiet
<1>4. CASE AcquireCheck(a) \/ AcquireLoad(a) \/ AcquireStore(a)
           \/ DecrementLoad(a) \/ DecrementStore(a)
  <2>1. local'[a].pc # "s_in"
    <3>1. CASE AcquireCheck(a)
      BY <1>f, <3>1 DEF AcquireCheck, Goto, Retry, AtPc, Local
    <3>2. CASE AcquireLoad(a) \/ AcquireStore(a)
      BY <1>f, <3>2 DEF AcquireLoad, AcquireStore, Goto, Load, Local
    <3>3. CASE DecrementLoad(a) \/ DecrementStore(a)
      BY <1>f, <3>3 DEF DecrementLoad, DecrementStore, Goto, Return, Load, Idle, AtPc, Local
    <3> QED BY <1>4, <3>1, <3>2, <3>3
  <2>2. QuietSlot(a)
    BY <1>1, <1>2, <1>4, <2>1
    DEF QuietSlot, AcquireCheck, AcquireLoad, AcquireStore, DecrementLoad, DecrementStore,
        slotVars, historyVars
  <2> QED BY <2>2, SlotsQuiet
<1> QED BY <1>3, <1>4

\* A process enters a slot whose lock is free.
LEMMA SlotsEnter ==
  ASSUME IInv, SInv, NEW a \in Process, NEW j \in Worker, ~lock[j],
         lock' = [lock EXCEPT ![j] = TRUE], lost_slot' = lost_slot,
         freed_under' = freed_under,
         \A b \in Process \ {a} : local'[b] = local[b],
         local[a].pc \notin {"s_in", "dead"}, local'[a].pc = "s_in", local'[a].at = j
  PROVE  SInv'
<1>f. lock \in [Worker -> BOOLEAN] BY DEF IInv, TypeOK
<1>1. ASSUME NEW i \in Worker, i # j PROVE Inside(i)' = Inside(i)
  BY <1>1 DEF Inside, Process
<1>2. Inside(j)' = Inside(j) \cup {a} BY DEF Inside, Process
<1>3. ASSUME NEW i \in Worker PROVE local[i].pc = "dead" => local'[i].pc = "dead"
  BY Sorts
<1>4. ASSUME NEW i \in Worker, i # j PROVE SlotOK(i)' /\ HeldOK(i)'
  <2>1. lock'[i] = lock[i] BY <1>f, <1>4
  <2> QED BY <1>1, <1>3, <1>4, <2>1 DEF SInv, SlotOK, HeldOK
<1>5. SlotOK(j)' /\ HeldOK(j)'
  <2>1. lock'[j] BY <1>f
  <2>2. HeldOK(j)' BY <1>2 DEF HeldOK
  <2>3. SlotOK(j)' BY <1>2, <2>1 DEF SInv, SlotOK
  <2> QED BY <2>2, <2>3
<1> QED BY <1>4, <1>5 DEF SInv, Worker

\* A process leaves the slot it is inside.
LEMMA SlotsLeave ==
  ASSUME IInv, SInv, NEW a \in Process, NEW j \in Worker, Release(a, j),
         \A b \in Process \ {a} : local'[b] = local[b],
         local[a].pc = "s_in", local[a].at = j, local'[a].pc # "s_in"
  PROVE  SInv'
<1>f. /\ lock \in [Worker -> BOOLEAN] /\ lost_slot \in [Worker -> BOOLEAN]
      /\ freed_under \in [Worker -> BOOLEAN]
  BY DEF IInv, TypeOK
<1>1. ASSUME NEW i \in Worker, i # j PROVE Inside(i)' = Inside(i)
  BY <1>1 DEF Inside, Process
<1>2. Inside(j)' = Inside(j) \ {a} /\ a \in Inside(j) BY DEF Inside, Process
<1>3. ASSUME NEW i \in Worker PROVE local[i].pc = "dead" => local'[i].pc = "dead"
  BY Sorts
<1>4. ASSUME NEW i \in Worker, i # j PROVE SlotOK(i)' /\ HeldOK(i)'
  <2>1. lock'[i] = lock[i] /\ lost_slot'[i] = lost_slot[i]
        /\ freed_under'[i] = freed_under[i]
    BY <1>f, <1>4 DEF Release
  <2> QED BY <1>1, <1>3, <1>4, <2>1 DEF SInv, SlotOK, HeldOK
<1>5. SlotOK(j)' /\ HeldOK(j)'
  <2>1. ~lock'[j] BY <1>f DEF Release
  <2>2. freed_under'[j] <=> freed_under[j] /\ Inside(j) # {a} BY <1>f DEF Release
  <2>3. HeldOK(j)' BY <2>1 DEF HeldOK
  <2>4. CASE Inside(j) = {a}
    <3>1. Inside(j)' = {} BY <1>2, <2>4
    <3> QED BY <2>3, <3>1 DEF SlotOK
  <2>5. CASE freed_under'[j] BY <2>3, <2>5 DEF SlotOK
  <2>6. CASE ~freed_under[j]
    <3>1. Inside(j) = {a} BY <1>2, <2>6 DEF SInv, SlotOK
    <3> QED BY <2>4, <3>1
  <2> QED BY <2>2, <2>4, <2>5, <2>6
<1> QED BY <1>4, <1>5 DEF SInv, Worker

LEMMA SlotsSlot ==
  ASSUME IInv, SInv, NEW a \in Process,
         SlotLock(a) \/ CopySlot(a) \/ CheckSlot(a) \/ StageSlot(a)
  PROVE  SInv'
<1>f. local \in [Process -> Local] /\ local[a] \in Local /\ LocalOK(local[a]) BY Fields
<1>1. \A b \in Process \ {a} : local'[b] = local[b]
  BY <1>f DEF SlotLock, CopySlot, CheckSlot, StageSlot, Goto, Return
<1>2. PICK j \in Worker : j = local[a].at
  BY <1>f DEF SlotLock, CopySlot, CheckSlot, StageSlot, LocalOK
<1>3. CASE SlotLock(a)
  <2>1. /\ local'[a].pc = "s_in" /\ local'[a].at = j
        /\ local[a].pc \notin {"s_in", "dead"}
    BY <1>f, <1>2, <1>3 DEF SlotLock, Goto, Local
  <2>2. /\ ~lock[j] /\ lock' = [lock EXCEPT ![j] = TRUE]
        /\ lost_slot' = lost_slot /\ freed_under' = freed_under
    BY <1>2, <1>3 DEF SlotLock, historyVars
  <2> QED BY <1>1, <2>1, <2>2, SlotsEnter
<1>4. CASE CopySlot(a) \/ CheckSlot(a) \/ StageSlot(a)
  <2>1. Release(a, j) /\ local[a].pc = "s_in"
    BY <1>2, <1>4 DEF CopySlot, CheckSlot, StageSlot
  <2>2. local'[a].pc \in {"s_lock", "d_load", "idle", "commit"}
    BY <1>f, <1>4 DEF CopySlot, CheckSlot, StageSlot, Goto, Return, Idle, AtPc, Local
  <2> QED BY <1>1, <1>2, <2>1, <2>2, SlotsLeave
<1> QED BY <1>3, <1>4

LEMMA SlotsOperation ==
  ASSUME IInv, SInv, NEW w \in Worker,
         WorkerStage(w) \/ WorkerCopy(w) \/ MasterCheck(w) \/ WorkerDies(w)
         \/ fpm_scoreboard_proc_free(w) \/ MasterUpdate
  PROVE  SInv'
<1> USE Sorts
<1>f. local \in [Process -> Local] /\ local[w] \in Local BY Fields
<1>t. /\ lock \in [Worker -> BOOLEAN] /\ lost_slot \in [Worker -> BOOLEAN]
      /\ freed_under \in [Worker -> BOOLEAN]
  BY DEF IInv, TypeOK
<1>c. ASSUME NEW a \in Process, NEW x \in {"b_check", "s_lock", "a_check"}, NEW o, NEW i,
             Call(a, x, o, i)
      PROVE  SInv'
  <2>1. QuietSlot(a) BY <1>f, <1>c DEF Call, Idle, AtPc, QuietSlot, slotVars, historyVars
  <2> QED BY <2>1, SlotsQuiet
<1>1. CASE WorkerStage(w)
  <2>1. PICK s \in After(request_stage[w]) :
          Call(w, IF s \in Begins THEN "b_check" ELSE "s_lock", s, w)
    BY <1>1 DEF WorkerStage
  <2>2. PICK x \in {"b_check", "s_lock"} : Call(w, x, s, w) BY <2>1
  <2> QED BY <1>c, <2>2
<1>2. CASE WorkerCopy(w) BY <1>2, <1>c DEF WorkerCopy
<1>3. CASE MasterUpdate BY <1>3, <1>c DEF MasterUpdate
<1>4. CASE MasterCheck(w)
  <2>1. \A b \in Process \ {Master} : local'[b] = local[b] BY <1>f, <1>4 DEF MasterCheck
  <2>2. /\ local'[Master].pc = "s_in" /\ local'[Master].at = w
        /\ local[Master].pc \notin {"s_in", "dead"}
    BY <1>f, <1>4 DEF MasterCheck, Idle, AtPc
  <2>3. /\ ~lock[w] /\ lock' = [lock EXCEPT ![w] = TRUE]
        /\ lost_slot' = lost_slot /\ freed_under' = freed_under
    BY <1>4 DEF MasterCheck, historyVars
  <2> QED BY <2>1, <2>2, <2>3, SlotsEnter
<1>5. CASE WorkerDies(w)
  <2>1. \A b \in Process \ {w} : local'[b] = local[b] BY <1>f, <1>5 DEF WorkerDies
  <2>2. local'[w].pc = "dead" BY <1>f, <1>5 DEF WorkerDies, AtPc
  <2>3. ASSUME NEW i \in Worker PROVE Inside(i)' = Inside(i) \ {w}
    BY <2>1, <2>2 DEF Inside, Process
  <2>4. lock' = lock /\ freed_under' = freed_under BY <1>5 DEF WorkerDies, slotVars
  <2>5. ASSUME NEW i \in Worker
        PROVE  lost_slot'[i] <=>
                 lost_slot[i] \/ (local[w].pc = "s_in" /\ local[w].at = i /\ i # w)
    BY <1>5 DEF WorkerDies
  <2>6. ASSUME NEW i \in Worker PROVE SlotOK(i)'
    BY <2>3, <2>4 DEF SInv, SlotOK
  <2>7. ASSUME NEW i \in Worker PROVE HeldOK(i)'
    <3>1. CASE i = w BY <2>2, <3>1 DEF HeldOK
    <3>2. CASE i # w /\ w \in Inside(i)
      <4>1. lost_slot'[i] BY <2>5, <3>2 DEF Inside
      <4> QED BY <4>1 DEF HeldOK
    <3>3. CASE i # w /\ w \notin Inside(i)
      <4>1. Inside(i)' = Inside(i) BY <2>3, <3>3
      <4>2. local'[i] = local[i] BY <2>1, <3>3
      <4> QED BY <2>4, <2>5, <4>1, <4>2 DEF SInv, HeldOK
    <3> QED BY <3>1, <3>2, <3>3
  <2> QED BY <2>6, <2>7 DEF SInv, Worker
<1>6. CASE fpm_scoreboard_proc_free(w)
  <2>1. \A b \in Process \ {w} : local'[b] = local[b]
    BY <1>f, <1>6 DEF fpm_scoreboard_proc_free
  <2>2. local'[w].pc = "idle" /\ local[w].pc = "dead"
    BY <1>f, <1>6 DEF fpm_scoreboard_proc_free, Idle, AtPc
  <2>3. ASSUME NEW i \in Worker PROVE Inside(i)' = Inside(i)
    BY <2>1, <2>2 DEF Inside, Process
  <2>4. ASSUME NEW i \in Worker, i # w PROVE SlotOK(i)' /\ HeldOK(i)'
    <3>1. lock'[i] = lock[i] /\ lost_slot'[i] = lost_slot[i]
          /\ freed_under'[i] = freed_under[i] /\ local'[i] = local[i]
      BY <1>6, <1>t, <2>1, <2>4 DEF fpm_scoreboard_proc_free
    <3> QED BY <2>3, <2>4, <3>1 DEF SInv, SlotOK, HeldOK
  <2>5. SlotOK(w)' /\ HeldOK(w)'
    <3>1. ~lock'[w] /\ (freed_under'[w] <=> Inside(w) # {})
      BY <1>6, <1>t DEF fpm_scoreboard_proc_free
    <3> QED BY <2>3, <3>1 DEF SlotOK, HeldOK
  <2> QED BY <2>4, <2>5 DEF SInv, Worker
<1> QED BY <1>1, <1>2, <1>3, <1>4, <1>5, <1>6

LEMMA NextSInv == IInv /\ SInv /\ [Next]_vars => SInv'
<1> SUFFICES ASSUME IInv, SInv, [Next]_vars PROVE SInv' OBVIOUS
<1>1. ASSUME NEW a \in Process, Inner(a) \/ SlotLock(a) PROVE SInv'
  BY <1>1, SlotsInner, SlotsSlot DEF Inner
<1>2. ASSUME NEW w \in Worker,
             WorkerStage(w) \/ WorkerCopy(w) \/ MasterCheck(w) \/ WorkerDies(w)
             \/ fpm_scoreboard_proc_free(w)
      PROVE  SInv'
  BY <1>2, SlotsOperation
<1>3. CASE MasterUpdate BY <1>3, Sorts, SlotsOperation
<1>4. CASE UNCHANGED vars
  BY <1>4 DEF vars, slotVars, historyVars, SInv, SlotOK, HeldOK, Inside, Worker, Process
<1> QED BY <1>1, <1>2, <1>3, <1>4 DEF Next

LEMMA AlwaysSInv == Spec => []SInv
<1>1. Init => SInv
  BY Sorts DEF Init, SInv, SlotOK, HeldOK, Inside, Idle, AtPc
<1> QED BY <1>1, AlwaysIInv, NextSInv, PTL DEF Spec

\* The lock of a slot is never stuck without a dead process to blame for it.
THEOREM SlotLockAccounted == Spec => []SlotLockHeld
<1>1. SInv => SlotLockHeld BY DEF SInv, HeldOK, SlotLockHeld
<1> QED BY <1>1, AlwaysSInv, PTL

\* Two processes meet inside a slot only after the master has freed it under
\* one of them.
THEOREM SlotsExclusive == Spec => []SlotExclusive
<1>1. ASSUME SInv, NEW i \in Worker, ~freed_under[i]
      PROVE  ~(Cardinality(Inside(i)) > 1)
  <2>1. \A a, b \in Inside(i) : a = b BY <1>1 DEF SInv, SlotOK
  <2>2. CASE Inside(i) = {} BY <2>2, FS_EmptySet
  <2>3. CASE Inside(i) # {}
    <3>1. PICK a \in Inside(i) : TRUE BY <2>3
    <3>2. Inside(i) = {a} BY <2>1, <3>1
    <3>3. Cardinality({a}) = 1 BY FS_Singleton
    <3> QED BY <3>2, <3>3
  <2> QED BY <2>2, <2>3
<1>2. SInv => SlotExclusive BY <1>1 DEF SlotExclusive
<1> QED BY <1>2, AlwaysSInv, PTL

\* The slot locks exclude and do not get stuck, for any number of workers.
THEOREM SlotLocksCorrect == Spec => []SlotLocksRight
<1>1. SlotExclusive /\ SlotLockHeld => SlotLocksRight BY DEF SlotLocksRight
<1> QED BY <1>1, SlotLockAccounted, SlotsExclusive, PTL
=============================================================================
