------------------------- MODULE FpmMaster_proofs --------------------------
(* Proofs about FpmMaster, for every number of pools, every configuration   *)
(* fpm_conf.c accepts and every bound, and of its refinement: each of its  *)
(* steps is mapped to one of FpmSupervisor, or to none.                    *)
EXTENDS FpmMaster_refines, FiniteSetTheorems, TLAPS

\* The control frame: a handler that loops over the pools is at a pool, and
\* fpm_children_make has a caller and a bound within pm.max_children.
FrameOK ==
  /\ mpc \in {"start", "make", "maint"} => wp \in Pool
  /\ mpc = "make" => /\ ret # "none"
                     /\ max <= config[wp].pm_max_children

\* The kernel's processes are the listed children, each with a slot.
Listed ==
  /\ \A c \in Pid : proc[c] # "none" <=> child_wp[c] # 0
  /\ \A c \in Pid : child_wp[c] # 0 => scoreboard_i[c] \in Slot(child_wp[c])

\* What the loop of fpm_children_make compares with its bounds.
LimitsOK ==
  /\ \A p \in Pool : running[p] <= config[p].pm_max_children
  /\ process_max > 0 => running_all <= process_max

\* The inductive core that typing and the limits rest on.
IInv == TypeOK /\ FrameOK /\ Listed /\ CountersExact /\ LimitsOK

LEMMA ConfigFacts ==
  ASSUME NEW p \in Pool
  PROVE  /\ config[p].pm_max_children \in Nat
         /\ config[p].pm_max_children >= 1
         /\ config[p].pm_start_servers \in Nat
         /\ config[p].pm_min_spare_servers \in Nat
         /\ config[p].pm_max_spawn_rate \in Nat
         /\ config[p].pm = "dynamic" => config[p].pm_start_servers <= config[p].pm_max_children
         /\ 0 \in Slot(p)
<1> DEFINE r == config[p]
<1>1. ConfigOK(r) BY ConstantsAssumption
<1>2. {r.pm_max_children, r.pm_start_servers, r.pm_min_spare_servers,
       r.pm_max_spare_servers, r.pm_max_spawn_rate} \subseteq Nat
  BY <1>1 DEF ConfigOK
<1> HIDE DEF r
<1>3. r.pm_max_children \in Nat /\ r.pm_start_servers \in Nat
      /\ r.pm_min_spare_servers \in Nat /\ r.pm_max_spare_servers \in Nat
      /\ r.pm_max_spawn_rate \in Nat
  BY <1>2
<1>4. r.pm_max_children >= 1 BY <1>1 DEF ConfigOK
<1>5. r.pm = "dynamic" => r.pm_start_servers <= r.pm_max_children
  BY <1>1, <1>3 DEF ConfigOK
<1>6. 0 \in Slot(p) BY <1>3, <1>4 DEF Slot, r
<1> QED BY <1>3, <1>4, <1>5, <1>6 DEF r

LEMMA PoolFacts == Pool \subseteq Nat /\ 0 \notin Pool /\ 1 \in Pool /\ NPools \in Nat
BY ConstantsAssumption DEF Pool

LEMMA InitIInv == Init => IInv
<1> SUFFICES ASSUME Init PROVE IInv OBVIOUS
<1> USE PoolFacts
<1>1. TypeOK
  <2>1. /\ MaxSignals \in Nat /\ MaxFaults \in Nat /\ Backlog \in Nat
    BY ConstantsAssumption
  <2>2. \A p \in Pool : 0 \in Slot(p) BY ConfigFacts
  <2>1a. TypePctl BY DEF Init, TypePctl, State
  <2>1b. TypeLoop
    <3>1. sigpipe = <<>> /\ bury_timer = FALSE /\ chld = FALSE BY DEF Init
    <3>2. sigpipe \in Seq({"T", "Q", "2"}) BY <3>1
    <3>3. bury_timer \in BOOLEAN /\ chld \in BOOLEAN BY <3>1
    <3> QED BY <3>2, <3>3 DEF TypeLoop
  <2>1c. TypeCtl BY DEF Init, TypeCtl, Pool
  <2>3. TypePool BY DEF Init, TypePool
  <2>4. TypeChild BY DEF Init, TypeChild
  <2>5. TypeSlot BY <2>2 DEF Init, TypeSlot
  <2>6. TypeWorker BY DEF Init, TypeWorker
  <2>7. TypeNet BY <2>1 DEF Init, TypeNet
  <2> QED BY <2>1a, <2>1b, <2>1c, <2>3, <2>4, <2>5, <2>6, <2>7 DEF TypeOK
<1>2. FrameOK BY DEF Init, FrameOK
<1>3. Listed BY DEF Init, Listed
<1>4. CountersExact
  <2>1. \A p \in Pool : Children(p) = {} BY DEF Init, Children
  <2>2. AllChildren = {} BY DEF Init, AllChildren
  <2> QED BY <2>1, <2>2, FS_EmptySet DEF Init, CountersExact
<1>5. LimitsOK
  <2>1. process_max \in Nat BY ConstantsAssumption
  <2> QED BY <2>1, ConfigFacts DEF Init, LimitsOK
<1> QED BY <1>1, <1>2, <1>3, <1>4, <1>5 DEF IInv

-----------------------------------------------------------------------------
(* What the operators the actions share do to the parts of IInv.           *)

LEMMA GotoOK ==
  ASSUME NEW pc \in {"start", "loop", "bury", "maint", "exec", "exited"},
         NEW p \in 0 .. NPools, pc \in {"start", "maint"} => p \in Pool,
         Goto(pc, p)
  PROVE  TypeCtl' /\ FrameOK'
BY DEF Goto, TypeCtl, FrameOK

LEMMA NextPoolOK ==
  ASSUME NEW pc \in {"start", "maint"}, wp \in Pool, NextPool(pc)
  PROVE  TypeCtl' /\ FrameOK'
<1>1. CASE wp < NPools
  <2>1. wp + 1 \in Pool /\ wp + 1 \in 0 .. NPools BY <1>1, PoolFacts DEF Pool
  <2> QED BY <1>1, <2>1, GotoOK DEF NextPool
<1>2. CASE ~(wp < NPools)
  <2>1. 0 \in 0 .. NPools BY PoolFacts
  <2> QED BY <1>2, <2>1, GotoOK DEF NextPool
<1> QED BY <1>1, <1>2

LEMMA MakeOK ==
  ASSUME NEW p \in Pool, NEW nb \in Nat,
         NEW caller \in {"start", "bury", "maint", "accept"},
         running'[p] \in Nat,
         IF caller = "start" THEN config[p].pm # "ondemand"
         ELSE running'[p] + nb <= config[p].pm_max_children,
         fpm_children_make(p, nb, caller)
  PROVE  TypeCtl' /\ FrameOK'
<1>1. MakeMax(p, nb, caller) \in Nat
      /\ MakeMax(p, nb, caller) <= config[p].pm_max_children
  <2>1. config[p].pm \in {"static", "dynamic", "ondemand"}
    BY ConstantsAssumption DEF ConfigOK
  <2> QED BY <2>1, ConfigFacts DEF MakeMax
<1>2. p \in 0 .. NPools BY PoolFacts DEF Pool
<1> QED BY <1>1, <1>2 DEF fpm_children_make, TypeCtl, FrameOK

LEMMA KillType ==
  ASSUME TypeWorker, NEW S, NEW sig \in Signal
  PROVE  Kill(S, sig) \in [Pid -> SUBSET Signal]
BY DEF TypeWorker, Kill

LEMMA ActionNextOK ==
  ASSUME TypePctl, TypeWorker, fpm_state' \in State,
         NEW sent \in Signal \cup {"none"}, NEW pc \in {"loop", "bury"},
         fpm_pctl_action_next(sent, pc)
  PROVE  /\ TypePctl' /\ TypeCtl' /\ FrameOK'
         /\ sigs' \in [Pid -> SUBSET Signal]
<1>0. 0 \in 0 .. NPools BY PoolFacts
<1>1. CASE running_all' = 0
  <2>1. fpm_pctl_action_last BY <1>1 DEF fpm_pctl_action_next
  <2>2. TypeCtl' /\ FrameOK' BY <1>0, <2>1, GotoOK DEF fpm_pctl_action_last
  <2> QED BY <2>1, <2>2 DEF fpm_pctl_action_last, TypePctl, TypeWorker
<1>2. CASE running_all' # 0
  <2> DEFINE sig == NextSignal(fpm_state', sent)
  <2>1. sig \in Signal BY DEF NextSignal, Signal
  <2>2. /\ sigs' = Kill({c \in Pid : child_wp'[c] # 0}, sig)
        /\ fpm_signal_sent' = sig /\ pctl_event' = TRUE /\ Goto(pc, 0)
    BY <1>2 DEF fpm_pctl_action_next
  <2> HIDE DEF sig
  <2>3. TypeCtl' /\ FrameOK' BY <1>0, <2>2, GotoOK
  <2>4. sigs' \in [Pid -> SUBSET Signal] BY <2>1, <2>2, KillType
  <2>5. TypePctl' BY <2>1, <2>2 DEF TypePctl
  <2> QED BY <2>3, <2>4, <2>5
<1> QED BY <1>1, <1>2

LEMMA PctlSetOK ==
  ASSUME TypePctl, TypeWorker, NEW new \in State, NEW pc \in {"loop", "bury"},
         fpm_pctl_set(new, pc)
  PROVE  /\ TypePctl' /\ TypeCtl' /\ FrameOK'
         /\ sigs' \in [Pid -> SUBSET Signal]
<1>1. CASE new # fpm_state /\ Overrides(new, fpm_state)
  BY <1>1, ActionNextOK DEF fpm_pctl_set
<1>2. CASE ~(new # fpm_state /\ Overrides(new, fpm_state))
  <2>1. Goto(pc, 0) /\ UNCHANGED <<pctlVars, sigs>> BY <1>2 DEF fpm_pctl_set
  <2>2. 0 \in 0 .. NPools BY PoolFacts
  <2>3. TypeCtl' /\ FrameOK' BY <2>1, <2>2, GotoOK
  <2> QED BY <2>1, <2>3 DEF pctlVars, TypePctl, TypeWorker
<1> QED BY <1>1, <1>2

LEMMA KeptCounts ==
  ASSUME IInv, UNCHANGED <<child_wp, running, running_all>>
  PROVE  CountersExact' /\ LimitsOK'
BY DEF IInv, CountersExact, LimitsOK, Children, AllChildren

LEMMA KeptListed ==
  ASSUME IInv, UNCHANGED <<child_wp, scoreboard_i>>,
         \A c \in Pid : proc'[c] # "none" <=> proc[c] # "none"
  PROVE  Listed'
BY DEF IInv, Listed

LEMMA KeptTypes ==
  ASSUME IInv
  PROVE  /\ UNCHANGED pctlVars => TypePctl'
         /\ UNCHANGED loopVars => TypeLoop'
         /\ UNCHANGED ctlVars => TypeCtl' /\ FrameOK'
         /\ UNCHANGED childVars => TypeChild'
         /\ UNCHANGED poolVars => TypePool'
         /\ UNCHANGED slotVars => TypeSlot'
         /\ UNCHANGED <<workerVars, sigs>> => TypeWorker'
         /\ UNCHANGED <<netVars, boundVars>> => TypeNet'
<1> USE DEF IInv, TypeOK
<1>1. UNCHANGED pctlVars => TypePctl' BY DEF pctlVars, TypePctl
<1>2. UNCHANGED loopVars => TypeLoop' BY DEF loopVars, TypeLoop
<1>3. UNCHANGED ctlVars => TypeCtl' /\ FrameOK' BY DEF ctlVars, TypeCtl, FrameOK
<1>4. UNCHANGED childVars => TypeChild' BY DEF childVars, TypeChild
<1>5. UNCHANGED poolVars => TypePool' BY DEF poolVars, TypePool
<1>6. UNCHANGED slotVars => TypeSlot' BY DEF slotVars, TypeSlot
<1>7. UNCHANGED <<workerVars, sigs>> => TypeWorker' BY DEF workerVars, TypeWorker
<1>8. UNCHANGED <<netVars, boundVars>> => TypeNet'
  BY DEF netVars, boundVars, TypeNet
<1> QED BY <1>1, <1>2, <1>3, <1>4, <1>5, <1>6, <1>7, <1>8

\* A step of the master that leaves processes, children lists and slots alone.
LEMMA MasterOnly ==
  ASSUME IInv, UNCHANGED <<childVars, slotVars, workerVars, netVars, boundVars>>,
         TypePctl', TypeLoop', TypeCtl', FrameOK', TypePool',
         sigs' \in [Pid -> SUBSET Signal]
  PROVE  IInv'
<1>1. UNCHANGED <<child_wp, scoreboard_i, running, running_all, proc>>
  BY DEF childVars, workerVars
<1>2. CountersExact' /\ LimitsOK' /\ Listed' BY <1>1, KeptCounts, KeptListed
<1>3. TypeChild' /\ TypeSlot' /\ TypeNet' BY KeptTypes
<1>4. TypeWorker' BY DEF workerVars, TypeWorker, IInv, TypeOK
<1> QED BY <1>2, <1>3, <1>4 DEF IInv, TypeOK

-----------------------------------------------------------------------------
(* The event loop's callbacks.                                             *)

LEMMA GotSignalOK == IInv /\ GotSignal => IInv'
<1> SUFFICES ASSUME IInv, GotSignal PROVE IInv' OBVIOUS
<1>1. TypePctl /\ TypeLoop /\ TypeWorker BY DEF IInv, TypeOK
<1>2. Head(sigpipe) \in {"T", "Q", "2"} /\ Tail(sigpipe) \in Seq({"T", "Q", "2"})
  BY <1>1 DEF GotSignal, TypeLoop
<1>3. Requested(Head(sigpipe)) \in State BY <1>2 DEF Requested, State
<1>4. TypePctl' /\ TypeCtl' /\ FrameOK' /\ sigs' \in [Pid -> SUBSET Signal]
  BY <1>1, <1>3, PctlSetOK DEF GotSignal
<1>5. TypeLoop' BY <1>1, <1>2 DEF GotSignal, TypeLoop
<1>6. TypePool' BY KeptTypes DEF GotSignal
<1> QED BY <1>4, <1>5, <1>6, MasterOnly DEF GotSignal

LEMMA GotChldOK == IInv /\ GotChld => IInv'
<1> SUFFICES ASSUME IInv, GotChld PROVE IInv' OBVIOUS
<1>1. TypeLoop' BY DEF GotChld, IInv, TypeOK, TypeLoop
<1>2. TypePctl' /\ TypeCtl' /\ FrameOK' /\ TypePool' BY KeptTypes DEF GotChld
<1>3. sigs' \in [Pid -> SUBSET Signal] BY DEF GotChld, IInv, TypeOK, TypeWorker
<1> QED BY <1>1, <1>2, <1>3, MasterOnly DEF GotChld

LEMMA PctlTimerOK == IInv /\ PctlTimer => IInv'
<1> SUFFICES ASSUME IInv, PctlTimer PROVE IInv' OBVIOUS
<1>1. TypePctl /\ TypeWorker BY DEF IInv, TypeOK
<1>2. fpm_state' \in State /\ fpm_signal_sent \in Signal \cup {"none"}
  BY <1>1 DEF PctlTimer, TypePctl
<1>3. TypePctl' /\ TypeCtl' /\ FrameOK' /\ sigs' \in [Pid -> SUBSET Signal]
  BY <1>1, <1>2, ActionNextOK DEF PctlTimer
<1>4. TypeLoop' /\ TypePool' BY KeptTypes DEF PctlTimer
<1> QED BY <1>3, <1>4, MasterOnly DEF PctlTimer

LEMMA BuryTimerOK == IInv /\ BuryTimer => IInv'
<1> SUFFICES ASSUME IInv, BuryTimer PROVE IInv' OBVIOUS
<1>1. TypeLoop' BY DEF BuryTimer, IInv, TypeOK, TypeLoop
<1>2. 0 \in 0 .. NPools BY PoolFacts
<1>3. TypeCtl' /\ FrameOK' BY <1>2, GotoOK DEF BuryTimer
<1>4. TypePctl' /\ TypePool' BY KeptTypes DEF BuryTimer
<1>5. sigs' \in [Pid -> SUBSET Signal] BY DEF BuryTimer, IInv, TypeOK, TypeWorker
<1> QED BY <1>1, <1>3, <1>4, <1>5, MasterOnly DEF BuryTimer

LEMMA MaintBeginOK == IInv /\ MaintBegin => IInv'
<1> SUFFICES ASSUME IInv, MaintBegin PROVE IInv' OBVIOUS
<1>1. 1 \in 0 .. NPools /\ 1 \in Pool BY PoolFacts DEF Pool
<1>2. TypeCtl' /\ FrameOK' BY <1>1, GotoOK DEF MaintBegin
<1>3. TypePctl' /\ TypeLoop' /\ TypePool' BY KeptTypes DEF MaintBegin
<1>4. sigs' \in [Pid -> SUBSET Signal] BY DEF MaintBegin, IInv, TypeOK, TypeWorker
<1> QED BY <1>2, <1>3, <1>4, MasterOnly DEF MaintBegin

LEMMA RequestTimeoutOK == IInv /\ RequestTimeout => IInv'
<1> SUFFICES ASSUME IInv, RequestTimeout PROVE IInv' OBVIOUS
<1>1. PICK S : sigs' = Kill(S, "TERM") BY DEF RequestTimeout
<1>2. sigs' \in [Pid -> SUBSET Signal]
  BY <1>1, KillType DEF IInv, TypeOK, Signal
<1>3. TypePctl' /\ TypeLoop' /\ TypeCtl' /\ FrameOK' /\ TypePool'
  BY KeptTypes DEF RequestTimeout
<1> QED BY <1>2, <1>3, MasterOnly DEF RequestTimeout

LEMMA BuryDoneOK == IInv /\ BuryDone => IInv'
<1> SUFFICES ASSUME IInv, BuryDone PROVE IInv' OBVIOUS
<1>1. 0 \in 0 .. NPools BY PoolFacts
<1>2. TypeCtl' /\ FrameOK' BY <1>1, GotoOK DEF BuryDone
<1>3. TypePctl' /\ TypeLoop' /\ TypePool' BY KeptTypes DEF BuryDone
<1>4. sigs' \in [Pid -> SUBSET Signal] BY DEF BuryDone, IInv, TypeOK, TypeWorker
<1> QED BY <1>2, <1>3, <1>4, MasterOnly DEF BuryDone

-----------------------------------------------------------------------------
(* fpm_children_make: slots, the children list and the two counters.       *)

LEMMA SlotUpdate ==
  ASSUME IInv, NEW p \in Pool, NEW i \in Slot(p), NEW st \in Stage \cup {"free"},
         procs' = [procs EXCEPT ![p][i] = st]
  PROVE  DOMAIN procs' = Pool
         /\ \A q \in Pool : procs'[q] \in [Slot(q) -> Stage \cup {"free"}]
<1>1. DOMAIN procs = Pool /\ \A q \in Pool : procs[q] \in [Slot(q) -> Stage \cup {"free"}]
  BY DEF IInv, TypeOK, TypeSlot
<1>2. procs' = [procs EXCEPT ![p] = [procs[p] EXCEPT ![i] = st]] OBVIOUS
<1>3. [procs[p] EXCEPT ![i] = st] \in [Slot(p) -> Stage \cup {"free"}] BY <1>1
<1>4. DOMAIN procs' = Pool BY <1>1, <1>2
<1>5. ASSUME NEW q \in Pool PROVE procs'[q] \in [Slot(q) -> Stage \cup {"free"}]
  BY <1>1, <1>2, <1>3, <1>5
<1> QED BY <1>4, <1>5

LEMMA HintUpdate ==
  ASSUME IInv, NEW p \in Pool, NEW i \in Slot(p),
         free_proc' = [free_proc EXCEPT ![p] = i]
  PROVE  free_proc' \in [Pool -> Nat] /\ \A q \in Pool : free_proc'[q] \in Slot(q)
<1>1. i \in Nat BY ConfigFacts DEF Slot
<1> QED BY <1>1 DEF IInv, TypeOK, TypeSlot

LEMMA AllocSlotOK ==
  ASSUME IInv, NEW p \in Pool, NEW i \in AllocSlot(p)
  PROVE  i \in Slot(p) /\ i \notin Used(p)
BY DEF AllocSlot, FreeSlots

LEMMA ProcAllocOK ==
  ASSUME IInv, NEW c \in Pid, NEW p \in Pool, NEW i \in Slot(p),
         fpm_scoreboard_proc_alloc(c, p, i)
  PROVE  /\ TypeSlot'
         /\ scoreboard_i' = [scoreboard_i EXCEPT ![c] = i]
         /\ scoreboard_i' \in [Pid -> Nat \cup {-1}]
<1> DEFINE h == IF i + 1 >= config[p].pm_max_children THEN 0 ELSE i + 1
<1>0. config[p].pm_max_children \in Nat /\ 0 \in Slot(p) BY ConfigFacts
<1>1. h \in Slot(p) /\ i \in Nat BY <1>0 DEF Slot
<1>2. /\ procs' = [procs EXCEPT ![p][i] = "creating"]
      /\ scoreboard_i' = [scoreboard_i EXCEPT ![c] = i]
      /\ free_proc' = [free_proc EXCEPT ![p] = h]
  BY DEF fpm_scoreboard_proc_alloc
<1> HIDE DEF h
<1>3. "creating" \in Stage \cup {"free"} BY DEF Stage
<1>4. TypeSlot' BY <1>1, <1>2, <1>3, SlotUpdate, HintUpdate DEF TypeSlot
<1>5. scoreboard_i' \in [Pid -> Nat \cup {-1}]
  BY <1>1, <1>2 DEF IInv, TypeOK, TypeChild
<1> QED BY <1>2, <1>4, <1>5

LEMMA FiniteChildren ==
  IsFiniteSet(AllChildren) /\ \A p \in Pool : IsFiniteSet(Children(p))
<1>1. IsFiniteSet(Pid) BY ConstantsAssumption
<1>2. AllChildren \subseteq Pid BY DEF AllChildren
<1>3. \A p \in Pool : Children(p) \subseteq Pid BY DEF Children
<1> QED BY <1>1, <1>2, <1>3, FS_Subset

\* fpm_child_link keeps the counters exact.
LEMMA LinkOK ==
  ASSUME IInv, NEW c \in Pid, NEW p \in Pool, child_wp[c] = 0, fpm_child_link(c, p)
  PROVE  /\ CountersExact'
         /\ child_wp' \in [Pid -> 0 .. NPools] /\ older' \subseteq Pid \X Pid
         /\ running' \in [Pool -> Nat] /\ running_all' \in Nat
<1>1. /\ child_wp \in [Pid -> 0 .. NPools] /\ older \subseteq Pid \X Pid
      /\ running \in [Pool -> Nat] /\ running_all \in Nat
      /\ \A q \in Pool : running[q] = Cardinality(Children(q))
      /\ running_all = Cardinality(AllChildren)
  BY DEF IInv, TypeOK, TypeChild, CountersExact
<1>2. /\ child_wp' = [child_wp EXCEPT ![c] = p]
      /\ older' = older \cup (Children(p) \X {c})
      /\ running' = [running EXCEPT ![p] = @ + 1]
      /\ running_all' = running_all + 1
  BY DEF fpm_child_link
<1>3. p \in 0 .. NPools /\ p # 0 BY PoolFacts DEF Pool
<1>4. Children(p)' = Children(p) \cup {c} BY <1>1, <1>2 DEF Children
<1>5. AllChildren' = AllChildren \cup {c} BY <1>1, <1>2, <1>3 DEF AllChildren
<1>6. \A q \in Pool \ {p} : Children(q)' = Children(q)
  BY <1>1, <1>2, PoolFacts DEF Children
<1>7. c \notin Children(p) /\ c \notin AllChildren BY <1>3 DEF Children, AllChildren
<1>8. Cardinality(Children(p)') = Cardinality(Children(p)) + 1
  BY <1>4, <1>7, FiniteChildren, FS_AddElement
<1>9. Cardinality(AllChildren') = Cardinality(AllChildren) + 1
  BY <1>5, <1>7, FiniteChildren, FS_AddElement
<1>10. \A q \in Pool : running'[q] = Cardinality(Children(q)')
  BY <1>1, <1>2, <1>6, <1>8
<1>11. CountersExact' BY <1>1, <1>2, <1>9, <1>10 DEF CountersExact
<1>12. Children(p) \subseteq Pid BY DEF Children
<1> QED BY <1>1, <1>2, <1>3, <1>11, <1>12

\* fpm_child_unlink keeps the counters exact; neither goes below zero.
LEMMA UnlinkOK ==
  ASSUME IInv, NEW c \in Pid, NEW p \in Pool, child_wp[c] = p, fpm_child_unlink(c)
  PROVE  /\ CountersExact' /\ LimitsOK'
         /\ child_wp' \in [Pid -> 0 .. NPools] /\ older' \subseteq Pid \X Pid
         /\ running' \in [Pool -> Nat] /\ running_all' \in Nat
         /\ running'[p] = running[p] - 1
<1>1. /\ child_wp \in [Pid -> 0 .. NPools] /\ older \subseteq Pid \X Pid
      /\ running \in [Pool -> Nat] /\ running_all \in Nat
      /\ \A q \in Pool : running[q] = Cardinality(Children(q))
      /\ running_all = Cardinality(AllChildren)
  BY DEF IInv, TypeOK, TypeChild, CountersExact
<1>2. p # 0 BY PoolFacts
<1>3. /\ child_wp' = [child_wp EXCEPT ![c] = 0]
      /\ older' = {x \in older : c \notin {x[1], x[2]}}
      /\ running' = [running EXCEPT ![p] = @ - 1]
      /\ running_all' = running_all - 1
  BY DEF fpm_child_unlink
<1>4. c \in Children(p) /\ c \in AllChildren BY <1>2 DEF Children, AllChildren
<1>5. Children(p)' = Children(p) \ {c} BY <1>1, <1>2, <1>3 DEF Children
<1>6. AllChildren' = AllChildren \ {c} BY <1>1, <1>3 DEF AllChildren
<1>7. \A q \in Pool \ {p} : Children(q)' = Children(q)
  BY <1>1, <1>3, PoolFacts DEF Children
<1>8. Cardinality(Children(p)') = Cardinality(Children(p)) - 1
  BY <1>4, <1>5, FiniteChildren, FS_RemoveElement
<1>9. Cardinality(AllChildren') = Cardinality(AllChildren) - 1
  BY <1>4, <1>6, FiniteChildren, FS_RemoveElement
<1>10. running[p] >= 1 /\ running_all >= 1
  <2>1. running[p] # 0 BY <1>1, <1>2, <1>4, FiniteChildren, FS_EmptySet
  <2>2. running_all # 0 BY <1>1, <1>4, FiniteChildren, FS_EmptySet
  <2> QED BY <1>1, <1>2, <2>1, <2>2
<1>11. \A q \in Pool : running'[q] = Cardinality(Children(q)')
  BY <1>1, <1>2, <1>3, <1>7, <1>8
<1>12. CountersExact' BY <1>1, <1>3, <1>9, <1>11 DEF CountersExact
<1>13. running' \in [Pool -> Nat] /\ running_all' \in Nat
  BY <1>1, <1>2, <1>3, <1>10
<1>14. \A q \in Pool : running'[q] <= running[q] BY <1>1, <1>2, <1>3
<1>15. LimitsOK'
  <2>1. \A q \in Pool : config[q].pm_max_children \in Nat BY ConfigFacts
  <2>2. process_max \in Nat BY ConstantsAssumption
  <2> QED BY <1>1, <1>3, <1>13, <1>14, <2>1, <2>2 DEF IInv, LimitsOK
<1>16. child_wp' \in [Pid -> 0 .. NPools] BY <1>1, <1>3, PoolFacts
<1>17. older' \subseteq Pid \X Pid BY <1>1, <1>3
<1>18. running'[p] = running[p] - 1 BY <1>1, <1>2, <1>3
<1> QED BY <1>2, <1>12, <1>13, <1>15, <1>16, <1>17, <1>18

-----------------------------------------------------------------------------
(* The handlers of the master.                                             *)

LEMMA StartPoolOK == IInv /\ StartPool => IInv'
<1> SUFFICES ASSUME IInv, StartPool PROVE IInv' OBVIOUS
<1>1. wp \in Pool BY DEF StartPool, IInv, FrameOK
<1>2. TypePctl' /\ TypeLoop' /\ TypeChild' /\ TypePool' /\ TypeSlot' /\ TypeWorker'
  BY KeptTypes DEF StartPool
<1>3. CountersExact' /\ LimitsOK' /\ Listed'
  <2>1. UNCHANGED <<child_wp, scoreboard_i, running, running_all, proc>>
    BY DEF StartPool, childVars, workerVars
  <2> QED BY <2>1, KeptCounts, KeptListed
<1>4. CASE config[wp].pm = "ondemand"
  <2>1. NextPool("start") BY <1>4 DEF StartPool
  <2>2. TypeCtl' /\ FrameOK' BY <1>1, <2>1, NextPoolOK
  <2>3. edge' = [edge EXCEPT ![wp] = backlog[wp] > 0] /\ UNCHANGED <<backlog, boundVars>>
    BY <1>4 DEF StartPool
  <2>4. TypeNet' BY <1>1, <2>3 DEF IInv, TypeOK, TypeNet, boundVars
  <2> QED BY <1>2, <1>3, <2>2, <2>4 DEF IInv, TypeOK
<1>5. CASE config[wp].pm # "ondemand"
  <2>1. UNCHANGED <<edge, running, backlog, boundVars>> /\ fpm_children_make(wp, 0, "start")
    BY <1>5 DEF StartPool
  <2>2. running'[wp] \in Nat BY <1>1, <2>1 DEF IInv, TypeOK, TypeChild
  <2>3. TypeCtl' /\ FrameOK' BY <1>1, <1>5, <2>1, <2>2, MakeOK
  <2>4. TypeNet' BY <2>1 DEF IInv, TypeOK, TypeNet, boundVars
  <2> QED BY <1>2, <1>3, <2>3, <2>4 DEF IInv, TypeOK
<1> QED BY <1>4, <1>5

LEMMA MakeForkOK == IInv /\ MakeFork => IInv'
<1> SUFFICES ASSUME IInv, MakeFork PROVE IInv' OBVIOUS
<1>1. wp \in Pool /\ max \in Nat /\ max <= config[wp].pm_max_children
  BY DEF MakeFork, IInv, FrameOK, TypeOK, TypeCtl
<1>2. PICK c \in Pid, i \in AllocSlot(wp) :
        /\ proc[c] = "none"
        /\ fpm_scoreboard_proc_alloc(c, wp, i)
        /\ fpm_child_link(c, wp)
        /\ proc' = [proc EXCEPT ![c] = "born"]
  BY DEF MakeFork
<1>3. i \in Slot(wp) BY <1>1, AllocSlotOK
<1>4. child_wp[c] = 0 BY <1>2 DEF IInv, Listed
<1>5. TypeSlot' /\ scoreboard_i' = [scoreboard_i EXCEPT ![c] = i]
      /\ scoreboard_i' \in [Pid -> Nat \cup {-1}]
  <2> HIDE DEF IInv
  <2> QED BY <1>1, <1>2, <1>3, ProcAllocOK
<1>6. /\ CountersExact'
      /\ child_wp' \in [Pid -> 0 .. NPools] /\ older' \subseteq Pid \X Pid
      /\ running' \in [Pool -> Nat] /\ running_all' \in Nat
  BY <1>1, <1>2, <1>4, LinkOK
<1>7. TypeChild' BY <1>5, <1>6 DEF TypeChild, MakeFork, IInv, TypeOK
<1>8. TypePctl' /\ TypeLoop' /\ TypeCtl' /\ FrameOK' /\ TypePool' /\ TypeNet'
  BY KeptTypes DEF MakeFork
<1>9. proc' = [proc EXCEPT ![c] = "born"] /\ UNCHANGED <<in_shutdown, sigs>>
  BY <1>2 DEF MakeFork
<1>10. TypeWorker' BY <1>9 DEF IInv, TypeOK, TypeWorker, Live
<1>11. Listed'
  <2>1. child_wp' = [child_wp EXCEPT ![c] = wp] BY <1>2 DEF fpm_child_link
  <2>2. wp # 0 BY <1>1, PoolFacts
  <2>3. proc \in [Pid -> Live \cup Dead \cup {"none"}]
        /\ child_wp \in [Pid -> 0 .. NPools] /\ scoreboard_i \in [Pid -> Nat \cup {-1}]
    BY DEF IInv, TypeOK, TypeWorker, TypeChild
  <2>4. ASSUME NEW d \in Pid PROVE proc'[d] # "none" <=> child_wp'[d] # 0
    BY <1>9, <2>1, <2>2, <2>3 DEF IInv, Listed
  <2>5. ASSUME NEW d \in Pid, child_wp'[d] # 0
        PROVE  scoreboard_i'[d] \in Slot(child_wp'[d])
    <3>1. CASE d = c BY <1>3, <1>5, <2>1, <2>3, <3>1
    <3>2. CASE d # c BY <1>5, <2>1, <2>3, <2>5, <3>2 DEF IInv, Listed
    <3> QED BY <3>1, <3>2
  <2>6. \A q : Slot(q)' = Slot(q) BY DEF Slot
  <2> QED BY <2>4, <2>5, <2>6 DEF Listed
<1>12. LimitsOK'
  <2>1. running[wp] < max /\ (process_max < 1 \/ running_all < process_max)
    BY DEF MakeFork, MustFork
  <2>2. running' = [running EXCEPT ![wp] = @ + 1] /\ running_all' = running_all + 1
    BY <1>2 DEF fpm_child_link
  <2>3. running \in [Pool -> Nat] /\ running_all \in Nat
    BY DEF IInv, TypeOK, TypeChild
  <2>4. process_max \in Nat /\ \A q \in Pool : config[q].pm_max_children \in Nat
    BY ConstantsAssumption, ConfigFacts
  <2> QED BY <1>1, <2>1, <2>2, <2>3, <2>4 DEF IInv, LimitsOK
<1> QED BY <1>5, <1>6, <1>7, <1>8, <1>10, <1>11, <1>12 DEF IInv, TypeOK

LEMMA ReturnFromMakeOK ==
  ASSUME IInv, mpc = "make", ReturnFromMake, UNCHANGED faults
  PROVE  TypeCtl' /\ FrameOK' /\ TypePool'
<1>1. wp \in Pool /\ ret \in {"start", "bury", "maint", "accept"}
  BY DEF IInv, FrameOK, TypeOK, TypeCtl
<1>2. 0 \in 0 .. NPools BY PoolFacts
<1>3. TypeCtl' /\ FrameOK'
  <2>1. CASE ret = "bury"
    <3>1. Goto("bury", 0) BY <2>1 DEF ReturnFromMake
    <3> QED BY <1>2, <3>1, GotoOK
  <2>2. CASE ret = "accept"
    <3>1. Goto("loop", 0) BY <2>2 DEF ReturnFromMake
    <3> QED BY <1>2, <3>1, GotoOK
  <2>3. CASE ret \in {"start", "maint"}
    <3>1. NextPool(ret) BY <2>3 DEF ReturnFromMake
    <3> QED BY <1>1, <2>3, <3>1, NextPoolOK
  <2> QED BY <1>1, <2>1, <2>2, <2>3
<1>4. idle_spawn_rate \in [Pool -> Nat \ {0}] /\ faults \in Nat
  BY DEF IInv, TypeOK, TypePool
<1>5. \/ idle_spawn_rate' = [idle_spawn_rate EXCEPT ![wp] = 2 * @]
      \/ idle_spawn_rate' = idle_spawn_rate
  BY DEF ReturnFromMake
<1>6. 2 * idle_spawn_rate[wp] \in Nat \ {0} BY <1>1, <1>4
<1>7. TypePool' BY <1>4, <1>5, <1>6 DEF TypePool
<1> QED BY <1>3, <1>7

LEMMA MakeDoneOK == IInv /\ MakeDone => IInv'
<1> SUFFICES ASSUME IInv, MakeDone PROVE IInv' OBVIOUS
<1>1. TypeCtl' /\ FrameOK' /\ TypePool' BY ReturnFromMakeOK DEF MakeDone
<1>2. TypePctl' /\ TypeLoop' BY KeptTypes DEF MakeDone
<1>3. sigs' \in [Pid -> SUBSET Signal] BY DEF MakeDone, IInv, TypeOK, TypeWorker
<1> QED BY <1>1, <1>2, <1>3, MasterOnly DEF MakeDone

LEMMA MakeFailOK == IInv /\ MakeFail => IInv'
<1> SUFFICES ASSUME IInv, MakeFail PROVE IInv' OBVIOUS
<1>1. wp \in Pool BY DEF MakeFail, IInv, FrameOK
<1>2. TypeLoop' /\ TypeChild' BY KeptTypes DEF MakeFail
<1>3. CountersExact' /\ LimitsOK' /\ Listed'
  <2>1. UNCHANGED <<child_wp, scoreboard_i, running, running_all, proc>>
    BY DEF MakeFail, childVars, workerVars
  <2> QED BY <2>1, KeptCounts, KeptListed
<1>4. TypeSlot'
  <2>1. UNCHANGED procs BY DEF MakeFail
  <2>2. CASE free_proc' = free_proc BY <2>1, <2>2, KeptTypes DEF slotVars
  <2>3. CASE free_proc' # free_proc
    <3>1. PICK i \in AllocSlot(wp) : free_proc' = [free_proc EXCEPT ![wp] = i]
      BY <2>3 DEF MakeFail
    <3>2. i \in Slot(wp) BY <1>1, AllocSlotOK
    <3> QED BY <1>1, <2>1, <3>1, <3>2, HintUpdate DEF IInv, TypeOK, TypeSlot
  <2> QED BY <2>2, <2>3
<1>5. TypeNet'
  <2>1. nfaults' \in Nat /\ nfaults' <= MaxFaults /\ UNCHANGED <<netVars, nsignals>>
    BY DEF MakeFail, IInv, TypeOK, TypeNet
  <2>2. MaxFaults \in Nat BY ConstantsAssumption
  <2> QED BY <2>1, <2>2 DEF IInv, TypeOK, TypeNet, netVars
<1>6. TypePctl' /\ TypeCtl' /\ FrameOK' /\ TypePool' /\ sigs' \in [Pid -> SUBSET Signal]
  <2>1. CASE ret = "start"
    <3>1. fpm_pctl_set("terminating", "loop") /\ UNCHANGED <<idle_spawn_rate, faults>>
      BY <2>1 DEF MakeFail
    <3>2. TypePool' BY <3>1, KeptTypes DEF poolVars
    <3>3. TypePctl /\ TypeWorker BY DEF IInv, TypeOK
    <3>4. "terminating" \in State BY DEF State
    <3> QED BY <3>1, <3>2, <3>3, <3>4, PctlSetOK
  <2>2. CASE ret # "start"
    <3>1. mpc = "make" /\ ReturnFromMake /\ UNCHANGED <<pctlVars, sigs, faults>>
      BY <2>2 DEF MakeFail
    <3>2. TypePctl' BY <3>1, KeptTypes
    <3>3. sigs' \in [Pid -> SUBSET Signal] BY <3>1 DEF IInv, TypeOK, TypeWorker
    <3> QED BY <3>1, <3>2, <3>3, ReturnFromMakeOK
  <2> QED BY <2>1, <2>2
<1>7. TypeWorker'
  BY <1>6 DEF MakeFail, workerVars, IInv, TypeOK, TypeWorker
<1> QED BY <1>2, <1>3, <1>4, <1>5, <1>6, <1>7 DEF IInv, TypeOK

\* What every burial does, whatever the handler goes on to do.
LEMMA ReapOK ==
  ASSUME IInv, NEW c \in Pid, Reap(c)
  PROVE  /\ CountersExact' /\ LimitsOK' /\ Listed'
         /\ TypeChild' /\ TypeSlot' /\ TypeLoop' /\ TypeNet'
         /\ UNCHANGED <<idle_spawn_rate, in_shutdown>>
         /\ proc' \in [Pid -> Live \cup Dead \cup {"none"}]
         /\ child_wp[c] \in Pool
         /\ running'[child_wp[c]] \in Nat
         /\ running'[child_wp[c]] + 1 <= config[child_wp[c]].pm_max_children
<1>1. proc[c] # "none" BY DEF Reap, Dead
<1>2. child_wp[c] # 0 /\ scoreboard_i[c] \in Slot(child_wp[c]) BY <1>1 DEF IInv, Listed
<1>3. child_wp[c] \in Pool BY <1>2, PoolFacts DEF IInv, TypeOK, TypeChild, Pool
<1>4. PICK p \in Pool : child_wp[c] = p BY <1>3
<1>5. fpm_child_unlink(c) /\ fpm_scoreboard_proc_free(c) /\ fpm_child_close(c)
      /\ proc' = [proc EXCEPT ![c] = "none"]
  BY DEF Reap
<1>6. /\ CountersExact' /\ LimitsOK'
      /\ child_wp' \in [Pid -> 0 .. NPools] /\ older' \subseteq Pid \X Pid
      /\ running' \in [Pool -> Nat] /\ running_all' \in Nat
      /\ running'[p] = running[p] - 1
  BY <1>4, <1>5, UnlinkOK
<1>7. TypeChild'
  <2>1. idle_kill' \in [Pid -> BOOLEAN] /\ scoreboard_i' \in [Pid -> Nat \cup {-1}]
    BY <1>5 DEF fpm_child_close, IInv, TypeOK, TypeChild
  <2> QED BY <1>6, <2>1 DEF TypeChild
<1>8. TypeSlot'
  <2> DEFINE i == scoreboard_i[c]
  <2>1. procs' = [procs EXCEPT ![p][i] = "free"] /\ free_proc' = [free_proc EXCEPT ![p] = i]
    BY <1>4, <1>5 DEF fpm_scoreboard_proc_free
  <2>2. i \in Slot(p) BY <1>2, <1>4
  <2> HIDE DEF i
  <2> QED BY <2>1, <2>2, SlotUpdate, HintUpdate DEF TypeSlot
<1>9. TypeLoop' /\ TypeNet' BY KeptTypes DEF Reap
<1>10. proc' \in [Pid -> Live \cup Dead \cup {"none"}]
  BY <1>5 DEF IInv, TypeOK, TypeWorker
<1>11. Listed'
  <2>1. child_wp' = [child_wp EXCEPT ![c] = 0]
        /\ scoreboard_i' = [scoreboard_i EXCEPT ![c] = -1]
    BY <1>5 DEF fpm_child_unlink, fpm_child_close
  <2>2. child_wp \in [Pid -> 0 .. NPools] /\ scoreboard_i \in [Pid -> Nat \cup {-1}]
        /\ proc \in [Pid -> Live \cup Dead \cup {"none"}]
    BY DEF IInv, TypeOK, TypeChild, TypeWorker
  <2>3. ASSUME NEW d \in Pid
        PROVE  /\ proc'[d] # "none" <=> child_wp'[d] # 0
               /\ child_wp'[d] # 0 => scoreboard_i'[d] \in Slot(child_wp'[d])
    BY <1>5, <2>1, <2>2 DEF IInv, Listed
  <2>4. \A q : Slot(q)' = Slot(q) BY DEF Slot
  <2> QED BY <2>3, <2>4 DEF Listed
<1>12. running'[p] \in Nat /\ running'[p] + 1 <= config[p].pm_max_children
  <2>1. running[p] \in Nat /\ config[p].pm_max_children \in Nat
    BY ConfigFacts DEF IInv, TypeOK, TypeChild
  <2>2. running[p] <= config[p].pm_max_children BY DEF IInv, LimitsOK
  <2> QED BY <1>6, <2>1, <2>2
<1>13. UNCHANGED <<idle_spawn_rate, in_shutdown>> BY DEF Reap
<1> QED BY <1>4, <1>6, <1>7, <1>8, <1>9, <1>10, <1>11, <1>12, <1>13

\* The rest of IInv once a child is reaped.
LEMMA BuryRest ==
  ASSUME IInv, NEW c \in Pid, Reap(c), faults' \in Nat,
         TypePctl', TypeCtl', FrameOK', sigs' \in [Pid -> SUBSET Signal]
  PROVE  IInv'
<1>1. TypePool' BY ReapOK DEF TypePool, IInv, TypeOK
<1>2. TypeWorker' BY ReapOK DEF TypeWorker, IInv, TypeOK
<1> QED BY <1>1, <1>2, ReapOK DEF IInv, TypeOK

LEMMA BuryLastOK == \A c \in Pid : IInv /\ BuryLast(c) => IInv'
<1> SUFFICES ASSUME NEW c \in Pid, IInv, BuryLast(c) PROVE IInv' OBVIOUS
<1>1. Reap(c) /\ fpm_pctl_action_last /\ UNCHANGED <<fpm_state, faults>>
  BY DEF BuryLast
<1>2. 0 \in 0 .. NPools BY PoolFacts
<1>3. TypeCtl' /\ FrameOK' BY <1>1, <1>2, GotoOK DEF fpm_pctl_action_last
<1>4. TypePctl' /\ faults' \in Nat /\ sigs' \in [Pid -> SUBSET Signal]
  BY <1>1 DEF fpm_pctl_action_last, IInv, TypeOK, TypePctl, TypePool, TypeWorker
<1> QED BY <1>1, <1>3, <1>4, BuryRest

LEMMA BuryChildOK == \A c \in Pid : IInv /\ BuryChild(c) => IInv'
<1> SUFFICES ASSUME NEW c \in Pid, IInv, BuryChild(c) PROVE IInv' OBVIOUS
<1>1. Reap(c) /\ UNCHANGED <<pctlVars, sigs>> BY DEF BuryChild
<1>2. faults' \in Nat
  <2>1. emergency_restart_threshold \in Nat BY ConstantsAssumption
  <2>2. faults \in Nat BY DEF IInv, TypeOK, TypePool
  <2>3. faults' = faults
        \/ faults' \in 1 .. (IF faults + 1 < emergency_restart_threshold
                             THEN faults + 1 ELSE emergency_restart_threshold - 1)
    BY DEF BuryChild
  <2> QED BY <2>1, <2>2, <2>3
<1>3. TypePctl' /\ sigs' \in [Pid -> SUBSET Signal]
  BY <1>1, KeptTypes DEF IInv, TypeOK, TypeWorker
<1>4. TypeCtl' /\ FrameOK'
  <2>1. CASE RestartChild(c)
    <3>1. fpm_children_make(child_wp[c], 1, "bury") BY <2>1 DEF BuryChild
    <3>2. PICK p \in Pool : p = child_wp[c] BY <1>1, ReapOK
    <3>3. running'[p] \in Nat /\ running'[p] + 1 <= config[p].pm_max_children
      BY <1>1, <3>2, ReapOK
    <3>4. fpm_children_make(p, 1, "bury") BY <3>1, <3>2
    <3> QED BY <3>3, <3>4, MakeOK
  <2>2. CASE ~RestartChild(c)
    <3>1. Goto("bury", 0) BY <2>2 DEF BuryChild
    <3>2. 0 \in 0 .. NPools BY PoolFacts
    <3> QED BY <3>1, <3>2, GotoOK
  <2> QED BY <2>1, <2>2
<1> QED BY <1>1, <1>2, <1>3, <1>4, BuryRest

LEMMA BuryEmergencyOK == \A c \in Pid : IInv /\ BuryEmergency(c) => IInv'
<1> SUFFICES ASSUME NEW c \in Pid, IInv, BuryEmergency(c) PROVE IInv' OBVIOUS
<1>1. Reap(c) /\ fpm_pctl_set("reloading", "bury") BY DEF BuryEmergency
<1>2. faults' \in Nat BY ConstantsAssumption DEF BuryEmergency
<1>3. "reloading" \in State /\ TypePctl /\ TypeWorker BY DEF State, IInv, TypeOK
<1>4. TypePctl' /\ TypeCtl' /\ FrameOK' /\ sigs' \in [Pid -> SUBSET Signal]
  BY <1>1, <1>3, PctlSetOK
<1> QED BY <1>1, <1>2, <1>4, BuryRest

LEMMA MaintKillOK == IInv /\ MaintKill => IInv'
<1> SUFFICES ASSUME IInv, MaintKill PROVE IInv' OBVIOUS
<1>1. wp \in Pool BY DEF MaintKill, IInv, FrameOK
<1>2. PICK c \in Pid : fpm_pctl_kill_idle_child(c) BY DEF MaintKill
<1>3. sigs' \in [Pid -> SUBSET Signal]
  <2>1. (IF idle_kill[c] THEN "KILL" ELSE "QUIT") \in Signal BY DEF Signal
  <2>2. sigs' = Kill({c}, IF idle_kill[c] THEN "KILL" ELSE "QUIT")
    BY <1>2 DEF fpm_pctl_kill_idle_child
  <2> QED BY <2>1, <2>2, KillType DEF IInv, TypeOK
<1>4. TypeWorker' BY <1>3 DEF MaintKill, workerVars, IInv, TypeOK, TypeWorker
<1>5. TypeChild'
  BY <1>2 DEF fpm_pctl_kill_idle_child, MaintKill, IInv, TypeOK, TypeChild
<1>6. TypePctl' /\ TypeLoop' /\ TypeSlot' /\ TypeNet' BY KeptTypes DEF MaintKill
<1>7. TypeCtl' /\ FrameOK'
  <2>1. NextPool("maint") BY DEF MaintKill
  <2> QED BY <1>1, <2>1, NextPoolOK
<1>8. TypePool'
  <2>1. /\ idle_spawn_rate' = [idle_spawn_rate EXCEPT ![wp] = 1]
           \/ idle_spawn_rate' = idle_spawn_rate
        /\ faults' = faults
    BY DEF MaintKill
  <2> QED BY <2>1 DEF IInv, TypeOK, TypePool
<1>9. CountersExact' /\ LimitsOK' /\ Listed'
  <2>1. UNCHANGED <<child_wp, scoreboard_i, running, running_all, proc>>
    BY DEF MaintKill, workerVars
  <2> QED BY <2>1, KeptCounts, KeptListed
<1> QED BY <1>3, <1>4, <1>5, <1>6, <1>7, <1>8, <1>9 DEF IInv, TypeOK

LEMMA MaintSpawnOK == IInv /\ MaintSpawn => IInv'
<1> SUFFICES ASSUME IInv, MaintSpawn PROVE IInv' OBVIOUS
<1>1. PICK p \in Pool : p = wp BY DEF MaintSpawn, IInv, FrameOK
<1>2. running[p] \in Nat /\ running[p] <= config[p].pm_max_children
  BY DEF IInv, LimitsOK, TypeOK, TypeChild
<1>3. children_to_fork(p) \in Nat
      /\ running[p] + children_to_fork(p) <= config[p].pm_max_children
  <2> DEFINE a == idle_spawn_rate[p]
             b == config[p].pm_min_spare_servers - Cardinality(Idle(p))
             m == config[p].pm_max_children
  <2>1. a \in Nat BY DEF IInv, TypeOK, TypePool
  <2>2. Cardinality(Idle(p)) \in Nat
    <3>1. Idle(p) \subseteq Children(p) BY DEF Idle
    <3>2. IsFiniteSet(Idle(p)) BY <3>1, FiniteChildren, FS_Subset
    <3> QED BY <3>2, FS_CardinalityType
  <2>3. config[p].pm_min_spare_servers \in Nat /\ m \in Nat BY ConfigFacts
  <2>4. b \in Int BY <2>2, <2>3
  <2>5. children_to_fork(p) > 0 BY <1>1 DEF MaintSpawn
  <2>6. children_to_fork(p)
        = IF a < (IF b < m - running[p] THEN b ELSE m - running[p]) THEN a
          ELSE (IF b < m - running[p] THEN b ELSE m - running[p])
    BY DEF children_to_fork
  <2> HIDE DEF a, b, m
  <2>7. children_to_fork(p) \in Int /\ children_to_fork(p) <= m - running[p]
    BY <1>2, <2>1, <2>3, <2>4, <2>6 DEF m
  <2> QED BY <1>2, <2>3, <2>5, <2>7 DEF m
<1>4. running' = running /\ fpm_children_make(p, children_to_fork(p), "maint")
  BY <1>1 DEF MaintSpawn, childVars
<1>5. TypeCtl' /\ FrameOK'
  <2> DEFINE nb == children_to_fork(p)
  <2>1. nb \in Nat /\ running'[p] + nb <= config[p].pm_max_children
        /\ running'[p] \in Nat /\ fpm_children_make(p, nb, "maint")
    BY <1>2, <1>3, <1>4
  <2> HIDE DEF nb
  <2> QED BY <2>1, MakeOK
<1>6. TypePctl' /\ TypeLoop' /\ TypePool' BY KeptTypes DEF MaintSpawn
<1>7. sigs' \in [Pid -> SUBSET Signal] BY DEF MaintSpawn, IInv, TypeOK, TypeWorker
<1> QED BY <1>5, <1>6, <1>7, MasterOnly DEF MaintSpawn

LEMMA MaintNothingOK == IInv /\ MaintNothing => IInv'
<1> SUFFICES ASSUME IInv, MaintNothing PROVE IInv' OBVIOUS
<1>1. wp \in Pool BY DEF MaintNothing, IInv, FrameOK
<1>2. NextPool("maint") BY DEF MaintNothing
<1>3. TypeCtl' /\ FrameOK' BY <1>1, <1>2, NextPoolOK
<1>4. TypePctl' /\ TypeLoop' BY KeptTypes DEF MaintNothing
<1>5. TypePool'
  <2>1. /\ idle_spawn_rate' = [idle_spawn_rate EXCEPT ![wp] = 1]
           \/ idle_spawn_rate' = idle_spawn_rate
        /\ faults' = faults
    BY DEF MaintNothing
  <2> QED BY <2>1 DEF IInv, TypeOK, TypePool
<1>6. sigs' \in [Pid -> SUBSET Signal] BY DEF MaintNothing, IInv, TypeOK, TypeWorker
<1> QED BY <1>3, <1>4, <1>5, <1>6, MasterOnly DEF MaintNothing

LEMMA SocketAcceptOK == \A p \in Pool : IInv /\ SocketAccept(p) => IInv'
<1> SUFFICES ASSUME NEW p \in Pool, IInv, SocketAccept(p) PROVE IInv' OBVIOUS
<1>1. TypePctl' /\ TypeLoop' /\ TypeChild' /\ TypePool' /\ TypeSlot' /\ TypeWorker'
  BY KeptTypes DEF SocketAccept
<1>2. TypeNet'
  BY DEF SocketAccept, IInv, TypeOK, TypeNet, boundVars
<1>3. CountersExact' /\ LimitsOK' /\ Listed'
  <2>1. UNCHANGED <<child_wp, scoreboard_i, running, running_all, proc>>
    BY DEF SocketAccept, childVars, workerVars
  <2> QED BY <2>1, KeptCounts, KeptListed
<1>4. CASE SpawnsOnDemand(p)
  <2>1. running[p] \in Nat /\ config[p].pm_max_children \in Nat
    BY ConfigFacts DEF IInv, TypeOK, TypeChild
  <2>2. running'[p] \in Nat /\ running'[p] + 1 <= config[p].pm_max_children
    BY <1>4, <2>1 DEF SpawnsOnDemand, SocketAccept, childVars
  <2>3. fpm_children_make(p, 1, "accept") BY <1>4 DEF SocketAccept
  <2>4. TypeCtl' /\ FrameOK' BY <2>2, <2>3, MakeOK
  <2> QED BY <1>1, <1>2, <1>3, <2>4 DEF IInv, TypeOK
<1>5. CASE ~SpawnsOnDemand(p)
  <2>1. Goto("loop", 0) BY <1>5 DEF SocketAccept
  <2>2. 0 \in 0 .. NPools BY PoolFacts
  <2>3. TypeCtl' /\ FrameOK' BY <2>1, <2>2, GotoOK
  <2> QED BY <1>1, <1>2, <1>3, <2>3 DEF IInv, TypeOK
<1> QED BY <1>4, <1>5

LEMMA ReexecOK == IInv /\ Reexec => IInv'
<1> SUFFICES ASSUME IInv, Reexec PROVE IInv' OBVIOUS
<1>1. TypePctl' BY DEF Reexec, TypePctl, State
<1>2. TypeLoop'
  <2>1. sigpipe' = <<>> /\ bury_timer' = FALSE /\ chld' = FALSE BY DEF Reexec
  <2>2. sigpipe' \in Seq({"T", "Q", "2"}) BY <2>1
  <2>3. bury_timer' \in BOOLEAN /\ chld' \in BOOLEAN BY <2>1
  <2> QED BY <2>2, <2>3 DEF TypeLoop
<1>3. TypeCtl' /\ FrameOK'
  <2>1. 1 \in Pool /\ 1 \in 0 .. NPools BY PoolFacts DEF Pool
  <2> QED BY <2>1, GotoOK DEF Reexec
<1>4. TypePool' BY DEF Reexec, TypePool
<1>5. TypeSlot'
  <2>1. \A p \in Pool : 0 \in Slot(p) BY ConfigFacts
  <2> QED BY <2>1 DEF Reexec, TypeSlot
<1>6. TypeNet' BY DEF Reexec, IInv, TypeOK, TypeNet, boundVars
<1>7. TypeChild' /\ TypeWorker' BY KeptTypes DEF Reexec
<1>8. CountersExact' /\ LimitsOK' /\ Listed'
  <2>1. UNCHANGED <<child_wp, scoreboard_i, running, running_all, proc>>
    BY DEF Reexec, childVars, workerVars
  <2> QED BY <2>1, KeptCounts, KeptListed
<1> QED BY <1>1, <1>2, <1>3, <1>4, <1>5, <1>6, <1>7, <1>8 DEF IInv, TypeOK

-----------------------------------------------------------------------------
(* The workers.                                                            *)

\* A worker writes its process state and its slot's stage, nothing else.
LEMMA WorkerOnly ==
  ASSUME IInv, NEW c \in Pid, proc[c] \in Live, NEW st \in Live \cup Dead,
         proc' = [proc EXCEPT ![c] = st], UNCHANGED masterVars,
         chld' \in BOOLEAN,
         in_shutdown' \in [Pid -> BOOLEAN], sigs' \in [Pid -> SUBSET Signal],
         procs' = procs \/ (\E s \in Stage : SetStage(c, s)), TypeNet'
  PROVE  IInv'
<1>1. TypePctl' /\ TypeCtl' /\ FrameOK' /\ TypeChild' /\ TypePool'
  BY KeptTypes DEF masterVars
<1>2. TypeLoop'
  <2>1. sigpipe \in Seq({"T", "Q", "2"}) /\ sigpipe' = sigpipe
    BY DEF masterVars, IInv, TypeOK, TypeLoop
  <2>2. sigpipe' \in Seq({"T", "Q", "2"}) BY <2>1
  <2>3. bury_timer' \in BOOLEAN BY DEF masterVars, IInv, TypeOK, TypeLoop
  <2> QED BY <2>2, <2>3 DEF TypeLoop
<1>3. proc \in [Pid -> Live \cup Dead \cup {"none"}] /\ "none" \notin Live \cup Dead
  BY DEF IInv, TypeOK, TypeWorker, Live, Dead
<1>4. TypeWorker' BY <1>3 DEF TypeWorker
<1>5. UNCHANGED <<child_wp, scoreboard_i, running, running_all, free_proc>>
  BY DEF masterVars, childVars
<1>6. CountersExact' /\ LimitsOK' BY <1>5, KeptCounts
<1>7. Listed'
  <2>1. \A d \in Pid : proc'[d] # "none" <=> proc[d] # "none" BY <1>3
  <2> QED BY <1>5, <2>1, KeptListed
<1>8. TypeSlot'
  <2>1. CASE procs' = procs BY <1>5, <2>1, KeptTypes DEF slotVars
  <2>2. CASE \E s \in Stage : SetStage(c, s)
    <3>1. PICK s \in Stage : SetStage(c, s) BY <2>2
    <3>2. child_wp[c] # 0 /\ scoreboard_i[c] \in Slot(child_wp[c])
      BY <1>3 DEF IInv, Listed
    <3>3. PICK p \in Pool : p = child_wp[c]
      BY <3>2, PoolFacts DEF IInv, TypeOK, TypeChild, Pool
    <3>4. PICK i \in Slot(p) : i = scoreboard_i[c] BY <3>2, <3>3
    <3>5. procs' = [procs EXCEPT ![p][i] = s] BY <3>1, <3>3, <3>4 DEF SetStage
    <3>6. DOMAIN procs' = Pool
          /\ \A q \in Pool : procs'[q] \in [Slot(q) -> Stage \cup {"free"}]
      BY <3>5, SlotUpdate
    <3>7. free_proc' \in [Pool -> Nat] /\ \A q \in Pool : free_proc'[q] \in Slot(q)
      BY <1>5 DEF IInv, TypeOK, TypeSlot
    <3> QED BY <3>6, <3>7 DEF TypeSlot
  <2> QED BY <2>1, <2>2
<1> QED BY <1>1, <1>2, <1>4, <1>6, <1>7, <1>8 DEF IInv, TypeOK

LEMMA BecomeOK ==
  ASSUME IInv, NEW c \in Pid, proc[c] \in Live, NEW st \in Live, Become(c, st),
         procs' = procs \/ (\E s \in Stage : SetStage(c, s)), TypeNet'
  PROVE  IInv'
<1>1. in_shutdown' \in [Pid -> BOOLEAN] /\ sigs' \in [Pid -> SUBSET Signal]
      /\ chld' \in BOOLEAN
  BY DEF Become, IInv, TypeOK, TypeWorker, TypeLoop
<1> QED BY <1>1, WorkerOnly DEF Become

LEMMA DieOK ==
  ASSUME IInv, NEW c \in Pid, proc[c] \in Live, NEW how \in Dead, Die(c, how),
         UNCHANGED procs, TypeNet'
  PROVE  IInv'
<1>1. in_shutdown' \in [Pid -> BOOLEAN] /\ sigs' \in [Pid -> SUBSET Signal]
      /\ chld' \in BOOLEAN
  BY DEF Die, IInv, TypeOK, TypeWorker
<1> QED BY <1>1, WorkerOnly DEF Die

\* The bound on faults leaves room for one more.
LEMMA FaultNet ==
  ASSUME IInv, nfaults < MaxFaults, nfaults' = nfaults + 1,
         UNCHANGED <<netVars, nsignals>>
  PROVE  TypeNet'
<1>1. MaxFaults \in Nat BY ConstantsAssumption
<1> QED BY <1>1 DEF IInv, TypeOK, TypeNet, netVars

LEMMA WorkerStepOK == \A c \in Pid : IInv /\ WorkerStep(c) => IInv'
<1> SUFFICES ASSUME NEW c \in Pid, IInv, WorkerStep(c) PROVE IInv' OBVIOUS
<1>0. {"up", "idle", "conn", "busy", "born"} \subseteq Live
      /\ {"exited", "killed", "fault"} \subseteq Dead
      /\ {"accepting", "active"} \subseteq Stage
  BY DEF Live, Dead, Stage
<1>1. CASE WorkerInit(c)
  <2>1. TypeNet' BY <1>1, KeptTypes DEF WorkerInit
  <2> QED BY <1>0, <1>1, <2>1, BecomeOK DEF WorkerInit
<1>2. CASE WorkerInitFail(c)
  <2>1. TypeNet' BY <1>2, FaultNet DEF WorkerInitFail
  <2> QED BY <1>0, <1>2, <2>1, DieOK DEF WorkerInitFail
<1>3. CASE WorkerReady(c)
  <2>1. TypeNet' BY <1>3, KeptTypes DEF WorkerReady
  <2> QED BY <1>0, <1>3, <2>1, BecomeOK DEF WorkerReady
<1>4. CASE WorkerAccept(c)
  <2>1. backlog \in [Pool -> 0 .. Backlog] /\ Backlog \in Nat
    BY ConstantsAssumption DEF IInv, TypeOK, TypeNet
  <2>2. child_wp[c] # 0 BY <1>0, <1>4 DEF WorkerAccept, IInv, Listed
  <2>3. child_wp[c] \in Pool BY <2>2, PoolFacts DEF IInv, TypeOK, TypeChild, Pool
  <2>4. backlog' = [backlog EXCEPT ![child_wp[c]] = @ - 1] /\ backlog[child_wp[c]] > 0
    BY <1>4 DEF WorkerAccept
  <2>5. backlog' \in [Pool -> 0 .. Backlog] BY <2>1, <2>3, <2>4
  <2>6. TypeNet' BY <1>4, <2>5 DEF WorkerAccept, boundVars, IInv, TypeOK, TypeNet
  <2> QED BY <1>0, <1>4, <2>6, BecomeOK DEF WorkerAccept
<1>5. CASE WorkerPolled(c)
  <2>1. TypeNet' BY <1>5, KeptTypes DEF WorkerPolled
  <2>2. PICK st \in {"busy", "up"} : Become(c, st) BY <1>5 DEF WorkerPolled
  <2> QED BY <1>0, <1>5, <2>1, <2>2, BecomeOK DEF WorkerPolled
<1>6. CASE WorkerFinish(c)
  <2>1. TypeNet' BY <1>6, KeptTypes DEF WorkerFinish
  <2>2. CASE Become(c, "up") BY <1>0, <1>6, <2>1, <2>2, BecomeOK DEF WorkerFinish
  <2>3. CASE Die(c, "exited") BY <1>0, <1>6, <2>1, <2>3, DieOK DEF WorkerFinish
  <2> QED BY <1>6, <2>2, <2>3 DEF WorkerFinish
<1>7. CASE WorkerExit(c)
  <2>1. TypeNet' BY <1>7, KeptTypes DEF WorkerExit
  <2> QED BY <1>0, <1>7, <2>1, DieOK DEF WorkerExit
<1>8. CASE WorkerCrash(c)
  <2>1. TypeNet' BY <1>8, FaultNet DEF WorkerCrash
  <2> QED BY <1>0, <1>8, <2>1, DieOK DEF WorkerCrash
<1>9. CASE TakeQuit(c)
  <2>1. TypeNet' BY <1>9, KeptTypes DEF TakeQuit
  <2>2. proc[c] \in Live /\ proc' = [proc EXCEPT ![c] = proc[c]]
    BY <1>9 DEF TakeQuit, IInv, TypeOK, TypeWorker
  <2>3. in_shutdown' \in [Pid -> BOOLEAN] /\ sigs' \in [Pid -> SUBSET Signal]
        /\ chld' \in BOOLEAN
    BY <1>9 DEF TakeQuit, IInv, TypeOK, TypeWorker, TypeLoop
  <2>4. PICK st \in Live : st = proc[c] BY <2>2
  <2>5. proc' = [proc EXCEPT ![c] = st] /\ procs' = procs /\ UNCHANGED masterVars
    BY <1>9, <2>2, <2>4 DEF TakeQuit
  <2> QED BY <2>1, <2>2, <2>3, <2>5, WorkerOnly
<1>10. CASE TakeFatal(c)
  <2>1. TypeNet' BY <1>10, KeptTypes DEF TakeFatal
  <2> QED BY <1>0, <1>10, <2>1, DieOK DEF TakeFatal
<1> QED BY <1>1, <1>2, <1>3, <1>4, <1>5, <1>6, <1>7, <1>8, <1>9, <1>10 DEF WorkerStep

-----------------------------------------------------------------------------
(* The operator, the clients, and the whole.                               *)

LEMMA OutsideStepOK == IInv /\ OutsideStep => IInv'
<1> SUFFICES ASSUME IInv, OutsideStep PROVE IInv' OBVIOUS
<1>0. MaxSignals \in Nat /\ Backlog \in Nat BY ConstantsAssumption
<1>1. ASSUME NEW ch \in {"T", "Q", "2"}, sig_handler(ch) PROVE IInv'
  <2>1. TypeLoop'
    <3>1. sigpipe \in Seq({"T", "Q", "2"}) BY DEF IInv, TypeOK, TypeLoop
    <3>2. sigpipe' \in Seq({"T", "Q", "2"}) BY <1>1, <3>1 DEF sig_handler
    <3>3. bury_timer' \in BOOLEAN /\ chld' \in BOOLEAN
      BY <1>1 DEF sig_handler, IInv, TypeOK, TypeLoop
    <3> QED BY <3>2, <3>3 DEF TypeLoop
  <2>2. TypePctl' /\ TypeCtl' /\ FrameOK' /\ TypeChild' /\ TypePool' /\ TypeSlot'
        /\ TypeWorker'
    BY <1>1, KeptTypes DEF sig_handler
  <2>3. TypeNet' BY <1>0, <1>1 DEF sig_handler, netVars, IInv, TypeOK, TypeNet
  <2>4. UNCHANGED <<child_wp, scoreboard_i, running, running_all, proc>>
    BY <1>1 DEF sig_handler, childVars, workerVars
  <2>5. CountersExact' /\ LimitsOK' /\ Listed' BY <2>4, KeptCounts, KeptListed
  <2> QED BY <2>1, <2>2, <2>3, <2>5 DEF IInv, TypeOK
<1>2. CASE ExecInterrupted
  <2>1. TypePctl' /\ TypeLoop' /\ TypeChild' /\ TypePool' /\ TypeSlot' /\ TypeWorker'
    BY <1>2, KeptTypes DEF ExecInterrupted
  <2>2. 0 \in 0 .. NPools BY PoolFacts
  <2>3. TypeCtl' /\ FrameOK' BY <1>2, <2>2, GotoOK DEF ExecInterrupted
  <2>4. TypeNet' BY <1>0, <1>2 DEF ExecInterrupted, netVars, IInv, TypeOK, TypeNet
  <2>5. UNCHANGED <<child_wp, scoreboard_i, running, running_all, proc>>
    BY <1>2 DEF ExecInterrupted, childVars, workerVars
  <2>6. CountersExact' /\ LimitsOK' /\ Listed' BY <2>5, KeptCounts, KeptListed
  <2> QED BY <2>1, <2>3, <2>4, <2>6 DEF IInv, TypeOK
<1>3. ASSUME NEW p \in Pool, Connect(p) PROVE IInv'
  <2>1. TypePctl' /\ TypeLoop' /\ TypeCtl' /\ FrameOK' /\ TypeChild' /\ TypePool'
        /\ TypeSlot' /\ TypeWorker'
    BY <1>3, KeptTypes DEF Connect
  <2>2. TypeNet'
    <3>1. backlog \in [Pool -> 0 .. Backlog] /\ edge \in [Pool -> BOOLEAN]
      BY DEF IInv, TypeOK, TypeNet
    <3>2. backlog' = [backlog EXCEPT ![p] = @ + 1] /\ backlog[p] < Backlog
      BY <1>3 DEF Connect
    <3>3. backlog' \in [Pool -> 0 .. Backlog] BY <1>0, <3>1, <3>2
    <3>4. edge' \in [Pool -> BOOLEAN] BY <1>3, <3>1 DEF Connect
    <3> QED BY <1>3, <3>3, <3>4 DEF Connect, boundVars, IInv, TypeOK, TypeNet
  <2>3. UNCHANGED <<child_wp, scoreboard_i, running, running_all, proc>>
    BY <1>3 DEF Connect, childVars, workerVars
  <2>4. CountersExact' /\ LimitsOK' /\ Listed' BY <2>3, KeptCounts, KeptListed
  <2> QED BY <2>1, <2>2, <2>4 DEF IInv, TypeOK
<1> QED BY <1>1, <1>2, <1>3 DEF OutsideStep

LEMMA StutterIInv == IInv /\ UNCHANGED vars => IInv'
<1> SUFFICES ASSUME IInv, UNCHANGED vars PROVE IInv' OBVIOUS
<1>1. TypePctl' /\ TypeLoop' /\ TypeCtl' /\ FrameOK' /\ TypePool'
  BY KeptTypes DEF vars
<1>2. sigs' \in [Pid -> SUBSET Signal] BY DEF vars, IInv, TypeOK, TypeWorker
<1> QED BY <1>1, <1>2, MasterOnly DEF vars

LEMMA NextIInv == IInv /\ [Next]_vars => IInv'
<1> SUFFICES ASSUME IInv, [Next]_vars PROVE IInv' OBVIOUS
<1>1. CASE MasterStep
  BY <1>1, StartPoolOK, MakeForkOK, MakeDoneOK, MakeFailOK, ReexecOK, BuryLastOK,
     BuryChildOK, BuryEmergencyOK, BuryDoneOK, MaintKillOK, MaintSpawnOK,
     MaintNothingOK DEF MasterStep
<1>2. CASE LoopStep
  BY <1>2, GotSignalOK, GotChldOK, PctlTimerOK, BuryTimerOK, MaintBeginOK,
     RequestTimeoutOK, SocketAcceptOK DEF LoopStep
<1>3. ASSUME NEW c \in Pid, WorkerStep(c) PROVE IInv' BY <1>3, WorkerStepOK
<1>4. CASE OutsideStep BY <1>4, OutsideStepOK
<1>5. CASE UNCHANGED vars BY <1>5, StutterIInv
<1> QED BY <1>1, <1>2, <1>3, <1>4, <1>5 DEF Next, Terminated

LEMMA AlwaysIInv == Spec => []IInv
BY InitIInv, NextIInv, PTL DEF Spec

\* Every reachable state is well typed: in particular the counters, the
\* remaining backlog and the scoreboard's hint never leave their ranges.
THEOREM TypeCorrect == Spec => []TypeOK
<1>1. IInv => TypeOK BY DEF IInv
<1> QED BY <1>1, AlwaysIInv, PTL

\* wp->running_children and fpm_globals.running_children always are the
\* numbers of children in the lists (fpm_child_link, fpm_child_unlink).
THEOREM CountersCorrect == Spec => []CountersExact
<1>1. IInv => CountersExact BY DEF IInv
<1> QED BY <1>1, AlwaysIInv, PTL

\* No interleaving of fpm_run, restarts, maintenance and on-demand spawning
\* passes pm.max_children or process.max.
THEOREM LimitsRespected == Spec => []WithinLimits
<1>1. IInv => WithinLimits BY DEF IInv, CountersExact, LimitsOK, WithinLimits
<1> QED BY <1>1, AlwaysIInv, PTL

-----------------------------------------------------------------------------
(* A master that leaves: no orphans, and no step back.                     *)

\* It has no child left when it leaves, and re-executes itself for a reload
\* only.
Left ==
  /\ mpc \in {"exec", "exited"} => running_all = 0
  /\ mpc = "exec" => fpm_state = "reloading"

\* One step of NeverWeakened.
Forward ==
  /\ mpc # "exec" => Rank[fpm_state'] >= Rank[fpm_state]
  /\ mpc' = "exec" => fpm_state = "reloading" \/ fpm_state' = "reloading"

\* The master goes on with a handler in the state it had.
LEMMA StayOK ==
  ASSUME TypePctl, UNCHANGED fpm_state, mpc' \notin {"exec", "exited"}
  PROVE  Left' /\ Forward
<1>1. Rank[fpm_state] \in Int BY DEF Rank, TypePctl, State
<1> QED BY <1>1 DEF Left, Forward

\* A step that leaves mpc, fpm_state and the number of children alone.
LEMMA ElsewhereOK ==
  ASSUME TypePctl, Left, UNCHANGED <<fpm_state, mpc, running_all>>
  PROVE  Left' /\ Forward
<1>1. Rank[fpm_state] \in Int BY DEF Rank, TypePctl, State
<1> QED BY <1>1 DEF Left, Forward

LEMMA ActionNextLeft ==
  ASSUME TypePctl, Rank[fpm_state'] >= Rank[fpm_state],
         NEW sent, NEW pc \in {"loop", "bury"}, fpm_pctl_action_next(sent, pc)
  PROVE  Left' /\ Forward
BY DEF fpm_pctl_action_next, fpm_pctl_action_last, Goto, Left, Forward

LEMMA PctlSetLeft ==
  ASSUME TypePctl, NEW new \in State \ {"normal"}, NEW pc \in {"loop", "bury"},
         fpm_pctl_set(new, pc)
  PROVE  Left' /\ Forward
<1>1. CASE new # fpm_state /\ Overrides(new, fpm_state)
  <2>1. fpm_state' = new /\ fpm_pctl_action_next("none", pc)
    BY <1>1 DEF fpm_pctl_set
  <2>2. Rank[fpm_state'] >= Rank[fpm_state]
    BY <1>1, <2>1 DEF Rank, Overrides, TypePctl, State
  <2> QED BY <2>1, <2>2, ActionNextLeft
<1>2. CASE ~(new # fpm_state /\ Overrides(new, fpm_state))
  <2>1. Goto(pc, 0) /\ UNCHANGED fpm_state BY <1>2 DEF fpm_pctl_set, pctlVars
  <2>2. mpc' \notin {"exec", "exited"} BY <2>1 DEF Goto
  <2> QED BY <2>1, <2>2, StayOK
<1> QED BY <1>1, <1>2

LEMMA ReturnStays ==
  ASSUME IInv, mpc = "make", ReturnFromMake
  PROVE  mpc' \notin {"exec", "exited"}
<1>1. ret \in {"start", "bury", "maint", "accept"} BY DEF IInv, FrameOK, TypeOK, TypeCtl
<1> QED BY <1>1 DEF ReturnFromMake, Goto, NextPool

LEMMA MasterLeft == IInv /\ Left /\ MasterStep => Left' /\ Forward
<1> SUFFICES ASSUME IInv, Left, MasterStep PROVE Left' /\ Forward OBVIOUS
<1>0. TypePctl BY DEF IInv, TypeOK
<1>1. CASE StartPool
  BY <1>0, <1>1, StayOK DEF StartPool, pctlVars, NextPool, Goto, fpm_children_make
<1>2. CASE MakeFork
  <2>1. UNCHANGED fpm_state /\ mpc' = "make"
    BY <1>2 DEF MakeFork, pctlVars, ctlVars
  <2> QED BY <1>0, <2>1, StayOK
<1>3. CASE MakeDone
  <2>1. UNCHANGED fpm_state BY <1>3 DEF MakeDone, pctlVars
  <2>2. mpc' \notin {"exec", "exited"} BY <1>3, ReturnStays DEF MakeDone
  <2> QED BY <1>0, <2>1, <2>2, StayOK
<1>4. CASE MakeFail
  <2>1. CASE ret = "start"
    <3>1. fpm_pctl_set("terminating", "loop") BY <1>4, <2>1 DEF MakeFail
    <3>2. "terminating" \in State \ {"normal"} BY DEF State
    <3> QED BY <1>0, <3>1, <3>2, PctlSetLeft
  <2>2. CASE ret # "start"
    <3>1. UNCHANGED fpm_state BY <1>4, <2>2 DEF MakeFail, pctlVars
    <3>2. mpc' \notin {"exec", "exited"} BY <1>4, <2>2, ReturnStays DEF MakeFail
    <3> QED BY <1>0, <3>1, <3>2, StayOK
  <2> QED BY <2>1, <2>2
<1>5. CASE Reexec BY <1>5 DEF Reexec, Goto, Left, Forward
<1>6. ASSUME NEW c \in Pid, BuryLast(c) PROVE Left' /\ Forward
  <2>1. running_all = 1 /\ running_all' = running_all - 1
    BY <1>6 DEF BuryLast, LeavesMaster, Reap, fpm_child_unlink
  <2>2. running_all' = 0 BY <2>1
  <2>3. UNCHANGED fpm_state
        /\ mpc' = IF fpm_state' = "reloading" THEN "exec" ELSE "exited"
    BY <1>6 DEF BuryLast, fpm_pctl_action_last, Goto
  <2>4. Rank[fpm_state] \in Int BY <1>0 DEF Rank, TypePctl, State
  <2> QED BY <2>2, <2>3, <2>4 DEF Left, Forward
<1>7. ASSUME NEW c \in Pid, BuryChild(c) PROVE Left' /\ Forward
  <2>1. UNCHANGED fpm_state /\ mpc' \notin {"exec", "exited"}
    BY <1>7 DEF BuryChild, pctlVars, fpm_children_make, Goto
  <2> QED BY <1>0, <2>1, StayOK
<1>8. ASSUME NEW c \in Pid, BuryEmergency(c) PROVE Left' /\ Forward
  <2>1. fpm_pctl_set("reloading", "bury") BY <1>8 DEF BuryEmergency
  <2>2. "reloading" \in State \ {"normal"} BY DEF State
  <2> QED BY <1>0, <2>1, <2>2, PctlSetLeft
<1>9. CASE BuryDone BY <1>0, <1>9, StayOK DEF BuryDone, pctlVars, Goto
<1>10. CASE MaintKill BY <1>0, <1>10, StayOK DEF MaintKill, pctlVars, NextPool, Goto
<1>11. CASE MaintSpawn
  BY <1>0, <1>11, StayOK DEF MaintSpawn, pctlVars, fpm_children_make
<1>12. CASE MaintNothing
  BY <1>0, <1>12, StayOK DEF MaintNothing, pctlVars, NextPool, Goto
<1> QED BY <1>1, <1>2, <1>3, <1>4, <1>5, <1>6, <1>7, <1>8, <1>9, <1>10, <1>11, <1>12
        DEF MasterStep

LEMMA LoopLeft == IInv /\ Left /\ LoopStep => Left' /\ Forward
<1> SUFFICES ASSUME IInv, Left, LoopStep PROVE Left' /\ Forward OBVIOUS
<1>0. TypePctl BY DEF IInv, TypeOK
<1>1. CASE GotSignal
  <2>1. sigpipe \in Seq({"T", "Q", "2"}) /\ sigpipe # <<>>
    BY <1>1 DEF GotSignal, IInv, TypeOK, TypeLoop
  <2>2. Head(sigpipe) \in {"T", "Q", "2"} BY <2>1
  <2>3. Requested(Head(sigpipe)) \in State \ {"normal"} BY <2>2 DEF Requested, State
  <2> QED BY <1>0, <1>1, <2>3, PctlSetLeft DEF GotSignal
<1>2. CASE GotChld
  BY <1>0, <1>2, ElsewhereOK DEF GotChld, pctlVars, ctlVars, childVars
<1>3. CASE PctlTimer
  <2>1. UNCHANGED fpm_state /\ fpm_pctl_action_next(fpm_signal_sent, "loop")
    BY <1>3 DEF PctlTimer
  <2>2. Rank[fpm_state'] >= Rank[fpm_state] BY <1>0, <2>1 DEF Rank, TypePctl, State
  <2> QED BY <1>0, <2>1, <2>2, ActionNextLeft
<1>4. CASE BuryTimer BY <1>0, <1>4, StayOK DEF BuryTimer, pctlVars, Goto
<1>5. CASE MaintBegin BY <1>0, <1>5, StayOK DEF MaintBegin, pctlVars, Goto
<1>6. CASE RequestTimeout
  BY <1>0, <1>6, ElsewhereOK DEF RequestTimeout, pctlVars, ctlVars, childVars
<1>7. ASSUME NEW p \in Pool, SocketAccept(p) PROVE Left' /\ Forward
  BY <1>0, <1>7, StayOK DEF SocketAccept, pctlVars, Goto, fpm_children_make
<1> QED BY <1>1, <1>2, <1>3, <1>4, <1>5, <1>6, <1>7 DEF LoopStep

LEMMA OthersLeft ==
  ASSUME IInv, Left,
         (\E c \in Pid : WorkerStep(c)) \/ OutsideStep \/ UNCHANGED vars
  PROVE  Left' /\ Forward
<1>0. TypePctl BY DEF IInv, TypeOK
<1>1. ASSUME NEW c \in Pid, WorkerStep(c) PROVE Left' /\ Forward
  <2>1. UNCHANGED masterVars
    BY <1>1 DEF WorkerStep, WorkerInit, WorkerInitFail, WorkerReady, WorkerAccept,
                WorkerPolled, WorkerFinish, WorkerExit, WorkerCrash, TakeQuit,
                TakeFatal, Become, Die
  <2> QED BY <1>0, <2>1, ElsewhereOK DEF masterVars, pctlVars, ctlVars, childVars
<1>2. ASSUME NEW ch, sig_handler(ch) PROVE Left' /\ Forward
  BY <1>0, <1>2, ElsewhereOK DEF sig_handler, pctlVars, ctlVars, childVars
<1>3. CASE ExecInterrupted
  <2>1. UNCHANGED <<fpm_state, running_all>> /\ mpc = "exec" /\ mpc' = "exited"
    BY <1>3 DEF ExecInterrupted, pctlVars, childVars, Goto
  <2>2. Rank[fpm_state] \in Int BY <1>0 DEF Rank, TypePctl, State
  <2> QED BY <2>1, <2>2 DEF Left, Forward
<1>4. ASSUME NEW p, Connect(p) PROVE Left' /\ Forward
  BY <1>0, <1>4, ElsewhereOK DEF Connect, pctlVars, ctlVars, childVars
<1>5. CASE UNCHANGED vars
  BY <1>0, <1>5, ElsewhereOK DEF vars, pctlVars, ctlVars, childVars
<1> QED BY <1>1, <1>2, <1>3, <1>4, <1>5 DEF OutsideStep

LEMMA AlwaysLeft == Spec => [](IInv /\ Left) /\ [][Forward]_vars
<1>1. Init => Left BY DEF Init, Left
<1>2. IInv /\ Left /\ [Next]_vars => Left' /\ Forward
  <2> SUFFICES ASSUME IInv, Left, [Next]_vars PROVE Left' /\ Forward OBVIOUS
  <2>1. MasterStep \/ LoopStep \/ (\E c \in Pid : WorkerStep(c)) \/ OutsideStep
        \/ UNCHANGED vars
    BY DEF Next, Terminated
  <2> QED BY <2>1, MasterLeft, LoopLeft, OthersLeft
<1> QED BY <1>1, <1>2, AlwaysIInv, PTL DEF Spec

LEMMA NoChildLeft ==
  ASSUME IInv, Left, mpc \in {"exec", "exited"}
  PROVE  \A c \in Pid : child_wp[c] = 0 /\ proc[c] = "none"
<1>1. Cardinality(AllChildren) = 0 BY DEF Left, IInv, CountersExact
<1>2. AllChildren = {} BY <1>1, FiniteChildren, FS_EmptySet
<1> QED BY <1>2 DEF AllChildren, IInv, Listed

\* The lists are the kernel's processes, and a master that exits or
\* re-executes itself (fpm_pctl_action_last) has none.
THEOREM NothingOrphaned == Spec => []NoOrphans
<1>1. IInv /\ Left => NoOrphans
  <2> SUFFICES ASSUME IInv, Left PROVE NoOrphans OBVIOUS
  <2>1. mpc \in {"exec", "exited"} => \A c \in Pid : proc[c] = "none" BY NoChildLeft
  <2> QED BY <2>1 DEF NoOrphans, IInv, Listed
<1> QED BY <1>1, AlwaysLeft, PTL

\* fpm_pctl: a stop is never turned back into a reload or into normal
\* operation, whatever signals and faults follow it.
THEOREM StopIsFinal == Spec => NeverWeakened
<1>1. Forward <=> /\ mpc # "exec" => Rank[fpm_state'] >= Rank[fpm_state]
                  /\ mpc' = "exec" => fpm_state = "reloading" \/ fpm_state' = "reloading"
  BY DEF Forward
<1> QED BY <1>1, AlwaysLeft, PTL DEF NeverWeakened
-----------------------------------------------------------------------------
(* Slots.                                                                  *)

\* A step that shows in the slots of the scoreboard or in who has them.
SlotStep ==
  \/ UNCHANGED <<child_wp, scoreboard_i, procs>>
  \/ MakeFork
  \/ \E c \in Pid : Reap(c)
  \/ Reexec
  \/ \E c \in Pid, st \in Stage :
       proc[c] # "none" /\ SetStage(c, st) /\ UNCHANGED <<child_wp, scoreboard_i>>

LEMMA NextSlotStep == [Next]_vars => SlotStep
<1> SUFFICES ASSUME [Next]_vars PROVE SlotStep OBVIOUS
<1>1. CASE MasterStep
  BY <1>1 DEF MasterStep, StartPool, MakeDone, MakeFail, BuryLast, BuryChild,
     BuryEmergency, BuryDone, MaintKill, MaintSpawn, MaintNothing,
     childVars, slotVars, SlotStep
<1>2. CASE LoopStep
  BY <1>2 DEF LoopStep, GotSignal, GotChld, PctlTimer, BuryTimer, MaintBegin,
     RequestTimeout, SocketAccept, childVars, slotVars, SlotStep
<1>3. ASSUME NEW c \in Pid, WorkerStep(c) PROVE SlotStep
  <2>1. UNCHANGED <<child_wp, scoreboard_i>>
    BY <1>3 DEF WorkerStep, WorkerInit, WorkerInitFail, WorkerReady, WorkerAccept,
       WorkerPolled, WorkerFinish, WorkerExit, WorkerCrash, TakeQuit, TakeFatal,
       Become, Die, masterVars, childVars
  <2>2. CASE WorkerReady(c)
    BY <2>1, <2>2 DEF WorkerReady, Stage, SlotStep
  <2>3. CASE WorkerPolled(c)
    BY <2>1, <2>3 DEF WorkerPolled, Stage, SlotStep
  <2>4. CASE ~WorkerReady(c) /\ ~WorkerPolled(c)
    <3>1. UNCHANGED procs
      BY <1>3, <2>4 DEF WorkerStep, WorkerInit, WorkerInitFail, WorkerAccept,
         WorkerFinish, WorkerExit, WorkerCrash, TakeQuit, TakeFatal
    <3> QED BY <2>1, <3>1 DEF SlotStep
  <2> QED BY <2>2, <2>3, <2>4
<1>4. CASE OutsideStep
  BY <1>4 DEF OutsideStep, sig_handler, ExecInterrupted, Connect, childVars, slotVars,
     SlotStep
<1>5. CASE UNCHANGED vars BY <1>5 DEF vars, childVars, slotVars, SlotStep
<1> QED BY <1>1, <1>2, <1>3, <1>4, <1>5 DEF Next, Terminated

\* SlotsExact in terms of single children and slots.
SlotsEach ==
  /\ \A c \in Pid : child_wp[c] # 0 => procs[child_wp[c]][scoreboard_i[c]] # "free"
  /\ \A c, d \in Pid :
       child_wp[c] # 0 /\ c # d /\ child_wp[c] = child_wp[d] => scoreboard_i[c] # scoreboard_i[d]
  /\ \A p \in Pool : \A i \in Slot(p) :
       procs[p][i] # "free" => \E c \in Pid : child_wp[c] = p /\ scoreboard_i[c] = i

LEMMA SlotsExactIs == IInv => (SlotsExact <=> SlotsEach)
<1> SUFFICES ASSUME IInv PROVE SlotsExact <=> SlotsEach OBVIOUS
<1>1. \A p \in Pool : p # 0 BY PoolFacts
<1>2. \A c \in Pid : child_wp[c] # 0 => scoreboard_i[c] \in Slot(child_wp[c])
  BY DEF IInv, Listed
<1>3. \A c \in Pid : child_wp[c] # 0 => child_wp[c] \in Pool
  BY PoolFacts DEF IInv, TypeOK, TypeChild, Pool
<1> QED BY <1>1, <1>2, <1>3 DEF SlotsExact, SlotsEach, AllChildren, Children, Used

\* The process that takes a slot finds it free, and the one that is buried
\* was alone in the slot it gives back.
LEMMA SlotsKept == IInv /\ IInv' /\ Left /\ SlotsEach /\ SlotStep => SlotsEach'
<1> SUFFICES ASSUME IInv, Left, SlotsEach, SlotStep PROVE SlotsEach' OBVIOUS
<1>1. /\ \A c \in Pid : child_wp[c] # 0 => /\ child_wp[c] \in Pool
                                           /\ scoreboard_i[c] \in Slot(child_wp[c])
      /\ child_wp \in [Pid -> 0 .. NPools] /\ scoreboard_i \in [Pid -> Nat \cup {-1}]
      /\ DOMAIN procs = Pool /\ \A p \in Pool : DOMAIN procs[p] = Slot(p)
  BY PoolFacts DEF IInv, Listed, TypeOK, TypeChild, TypeSlot, Pool
<1>2. \A p : Slot(p)' = Slot(p) BY DEF Slot
<1>3. CASE UNCHANGED <<child_wp, scoreboard_i, procs>>
  BY <1>2, <1>3 DEF SlotsEach
<1>4. CASE MakeFork
  <2>1. PICK c \in Pid, i \in AllocSlot(wp) :
          /\ proc[c] = "none"
          /\ procs' = [procs EXCEPT ![wp][i] = "creating"]
          /\ scoreboard_i' = [scoreboard_i EXCEPT ![c] = i]
          /\ child_wp' = [child_wp EXCEPT ![c] = wp]
    BY <1>4 DEF MakeFork, fpm_scoreboard_proc_alloc, fpm_child_link
  <2>2. wp \in Pool BY <1>4 DEF MakeFork, IInv, FrameOK
  <2>3. i \in Slot(wp) /\ procs[wp][i] = "free" BY <2>2, AllocSlotOK DEF Used
  <2>4. child_wp[c] = 0 BY <2>1 DEF IInv, Listed
  <2>5. \A p \in Pool : \A j \in Slot(p) :
          procs'[p][j] = IF p = wp /\ j = i THEN "creating" ELSE procs[p][j]
    BY <1>1, <2>1, <2>2, <2>3
  <2>6. \A d \in Pid : /\ child_wp'[d] = IF d = c THEN wp ELSE child_wp[d]
                       /\ scoreboard_i'[d] = IF d = c THEN i ELSE scoreboard_i[d]
    BY <1>1, <2>1
  <2>7. \A d \in Pid : child_wp[d] = wp => scoreboard_i[d] # i
    BY <2>2, <2>3, PoolFacts DEF SlotsEach
  <2>8. \A d \in Pid : child_wp'[d] # 0 => procs'[child_wp'[d]][scoreboard_i'[d]] # "free"
    BY <1>1, <2>2, <2>3, <2>5, <2>6 DEF SlotsEach
  <2>9. \A d, e \in Pid : child_wp'[d] # 0 /\ d # e /\ child_wp'[d] = child_wp'[e]
                          => scoreboard_i'[d] # scoreboard_i'[e]
    BY <2>6, <2>7 DEF SlotsEach
  <2>10. ASSUME NEW p \in Pool, NEW j \in Slot(p), procs'[p][j] # "free"
         PROVE  \E d \in Pid : child_wp'[d] = p /\ scoreboard_i'[d] = j
    <3>1. CASE p = wp /\ j = i BY <2>6, <3>1
    <3>2. CASE ~(p = wp /\ j = i)
      <4>1. PICK d \in Pid : child_wp[d] = p /\ scoreboard_i[d] = j
        BY <2>5, <2>10, <3>2 DEF SlotsEach
      <4> QED BY <2>4, <2>6, <4>1, PoolFacts
    <3> QED BY <3>1, <3>2
  <2> QED BY <1>2, <2>8, <2>9, <2>10 DEF SlotsEach
<1>5. ASSUME NEW c \in Pid, Reap(c) PROVE SlotsEach'
  <2>1. child_wp[c] # 0 BY <1>5 DEF Reap, Dead, IInv, Listed
  <2> DEFINE p == child_wp[c]
             i == scoreboard_i[c]
  <2>2. p \in Pool /\ i \in Slot(p) BY <1>1, <2>1
  <2>3. /\ procs' = [procs EXCEPT ![p][i] = "free"]
        /\ scoreboard_i' = [scoreboard_i EXCEPT ![c] = -1]
        /\ child_wp' = [child_wp EXCEPT ![c] = 0]
    BY <1>5, <2>2 DEF Reap, fpm_child_unlink, fpm_scoreboard_proc_free, fpm_child_close
  <2>4. \A q \in Pool : \A j \in Slot(q) :
          procs'[q][j] = IF q = p /\ j = i THEN "free" ELSE procs[q][j]
    BY <1>1, <2>3
  <2>5. \A d \in Pid : /\ child_wp'[d] = IF d = c THEN 0 ELSE child_wp[d]
                       /\ d # c => scoreboard_i'[d] = scoreboard_i[d]
    BY <1>1, <2>3
  <2>6. \A d \in Pid : d # c /\ child_wp[d] = p => scoreboard_i[d] # i
    BY <2>1, <2>2 DEF SlotsEach
  <2> QED BY <1>1, <1>2, <2>2, <2>4, <2>5, <2>6, PoolFacts DEF SlotsEach
<1>6. CASE Reexec
  <2>1. \A c \in Pid : child_wp[c] = 0 BY <1>6, NoChildLeft DEF Reexec
  <2>2. UNCHANGED child_wp /\ procs' = [p \in Pool |-> [i \in Slot(p) |-> "free"]]
    BY <1>6 DEF Reexec, childVars
  <2> QED BY <1>2, <2>1, <2>2 DEF SlotsEach
<1>7. ASSUME NEW c \in Pid, NEW st \in Stage, proc[c] # "none", SetStage(c, st),
             UNCHANGED <<child_wp, scoreboard_i>>
      PROVE  SlotsEach'
  <2> DEFINE p == child_wp[c]
             i == scoreboard_i[c]
  <2>1. p \in Pool /\ i \in Slot(p) BY <1>1, <1>7 DEF IInv, Listed
  <2>2. \A q \in Pool : \A j \in Slot(q) :
          procs'[q][j] = IF q = p /\ j = i THEN st ELSE procs[q][j]
    BY <1>1, <1>7, <2>1 DEF SetStage
  <2>3. st # "free" BY DEF Stage
  <2> QED BY <1>1, <1>2, <1>7, <2>1, <2>2, <2>3 DEF SlotsEach
<1> QED BY <1>3, <1>4, <1>5, <1>6, <1>7 DEF SlotStep

\* Every scoreboard slot in use belongs to one listed child and every listed
\* child has one, through failed forks, burials and re-execution
\* (fpm_scoreboard_proc_alloc, fpm_scoreboard_proc_free).
THEOREM SlotsCorrect == Spec => []SlotsExact
<1>1. Init => SlotsEach BY DEF Init, SlotsEach
<1>2. IInv /\ IInv' /\ Left /\ SlotsEach /\ [Next]_vars => SlotsEach'
  BY NextSlotStep, SlotsKept
<1>3. IInv /\ SlotsEach => SlotsExact BY SlotsExactIs
<1> QED BY <1>1, <1>2, <1>3, AlwaysLeft, PTL DEF Spec
-----------------------------------------------------------------------------
(* Zombies.                                                                *)

\* Something that leads to fpm_children_bury is under way.
Noticing == chld \/ bury_timer \/ mpc = "bury" \/ (mpc = "make" /\ ret = "bury")

\* A step leaves no zombie that was not there, and goes on towards the burial
\* if it had been; or it is a death, or the end of a master.
NoticeStep ==
  \/ chld'
  \/ mpc' \in {"exec", "exited"}
  \/ Zombies' = {}
  \/ Zombies' \subseteq Zombies /\ (Noticing => Noticing')

LEMMA ReapNotices ==
  ASSUME NEW c, Reap(c), mpc' = "bury" \/ (mpc' = "make" /\ ret' = "bury")
  PROVE  NoticeStep
BY DEF Reap, NoticeStep, Noticing, Zombies, Dead, TypeOK, TypeWorker

LEMMA MasterNotices == IInv /\ Left /\ MasterStep => NoticeStep
<1> SUFFICES ASSUME IInv, Left, MasterStep PROVE NoticeStep OBVIOUS
<1>1. CASE StartPool
  BY <1>1 DEF StartPool, loopVars, workerVars, NoticeStep, Noticing, Zombies
<1>2. CASE MakeFork
  <2>1. UNCHANGED <<chld, bury_timer, mpc, ret>> BY <1>2 DEF MakeFork, loopVars, ctlVars
  <2>2. Zombies' \subseteq Zombies
    BY <1>2 DEF MakeFork, Zombies, Dead, IInv, TypeOK, TypeWorker
  <2> QED BY <2>1, <2>2 DEF NoticeStep, Noticing
<1>3. CASE MakeDone
  <2>1. mpc = "make" /\ ReturnFromMake /\ UNCHANGED <<chld, bury_timer, proc>>
    BY <1>3 DEF MakeDone, loopVars, workerVars
  <2>2. ret = "bury" => mpc' = "bury" BY <2>1 DEF ReturnFromMake, Goto
  <2> QED BY <2>1, <2>2 DEF NoticeStep, Noticing, Zombies
<1>4. CASE MakeFail
  <2>1. mpc = "make" /\ UNCHANGED <<chld, bury_timer, proc>>
    BY <1>4 DEF MakeFail, loopVars, workerVars
  <2>2. ret = "bury" => mpc' = "bury" BY <1>4 DEF MakeFail, ReturnFromMake, Goto
  <2> QED BY <2>1, <2>2 DEF NoticeStep, Noticing, Zombies
<1>5. CASE Reexec
  <2>1. Zombies = {} BY <1>5, NoChildLeft DEF Reexec, Zombies, Dead
  <2> QED BY <1>5, <2>1 DEF Reexec, workerVars, NoticeStep, Zombies
<1>6. ASSUME NEW c \in Pid, BuryLast(c) PROVE NoticeStep
  BY <1>6 DEF BuryLast, fpm_pctl_action_last, Goto, NoticeStep
<1>7. ASSUME NEW c \in Pid, BuryChild(c) PROVE NoticeStep
  BY <1>7, ReapNotices DEF BuryChild, fpm_children_make, Goto
<1>8. ASSUME NEW c \in Pid, BuryEmergency(c) PROVE NoticeStep
  <2>1. mpc' \in {"bury", "exec", "exited"} /\ Reap(c)
    BY <1>8 DEF BuryEmergency, fpm_pctl_set, fpm_pctl_action_next,
                fpm_pctl_action_last, Goto
  <2> QED BY <2>1, ReapNotices DEF NoticeStep
<1>9. CASE BuryDone
  BY <1>9 DEF BuryDone, workerVars, NoticeStep, Zombies
<1>10. CASE MaintKill
  BY <1>10 DEF MaintKill, loopVars, workerVars, NoticeStep, Noticing, Zombies
<1>11. CASE MaintSpawn
  BY <1>11 DEF MaintSpawn, loopVars, workerVars, NoticeStep, Noticing, Zombies
<1>12. CASE MaintNothing
  BY <1>12 DEF MaintNothing, loopVars, workerVars, NoticeStep, Noticing, Zombies
<1> QED BY <1>1, <1>2, <1>3, <1>4, <1>5, <1>6, <1>7, <1>8, <1>9, <1>10, <1>11, <1>12
        DEF MasterStep

LEMMA LoopNotices == LoopStep => NoticeStep
<1> USE DEF NoticeStep, Noticing, Zombies
<1>1. CASE GotSignal
  <2>1. mpc = "loop" /\ UNCHANGED <<chld, bury_timer, proc>>
    BY <1>1 DEF GotSignal, workerVars
  <2> QED BY <2>1
<1>2. CASE GotChld BY <1>2 DEF GotChld, workerVars
<1>3. CASE PctlTimer
  <2>1. mpc = "loop" /\ UNCHANGED <<chld, bury_timer, proc>>
    BY <1>3 DEF PctlTimer, loopVars, workerVars
  <2> QED BY <2>1
<1>4. CASE BuryTimer BY <1>4 DEF BuryTimer, Goto, workerVars
<1>5. CASE MaintBegin BY <1>5 DEF MaintBegin, loopVars, workerVars
<1>6. CASE RequestTimeout BY <1>6 DEF RequestTimeout, loopVars, workerVars
<1>7. ASSUME NEW p \in Pool, SocketAccept(p) PROVE NoticeStep
  BY <1>7 DEF SocketAccept, loopVars, workerVars
<1> QED BY <1>1, <1>2, <1>3, <1>4, <1>5, <1>6, <1>7 DEF LoopStep

LEMMA WorkerNotices == ASSUME NEW c \in Pid, IInv, WorkerStep(c) PROVE NoticeStep
<1>1. ASSUME NEW st \in Live, Become(c, st) PROVE NoticeStep
  <2>1. UNCHANGED <<chld, bury_timer, mpc, ret>>
    BY <1>1 DEF Become, masterVars, ctlVars
  <2>2. Zombies' \subseteq Zombies
    BY <1>1 DEF Become, Zombies, Dead, Live, IInv, TypeOK, TypeWorker
  <2> QED BY <2>1, <2>2 DEF NoticeStep, Noticing
<1>2. ASSUME NEW how, Die(c, how) PROVE NoticeStep BY <1>2 DEF Die, NoticeStep
<1>3. CASE TakeQuit(c)
  BY <1>3 DEF TakeQuit, masterVars, ctlVars, NoticeStep, Noticing, Zombies
<1>4. {"up", "idle", "conn", "busy"} \subseteq Live BY DEF Live
<1> QED BY <1>1, <1>2, <1>3, <1>4 DEF WorkerStep, WorkerInit, WorkerInitFail,
     WorkerReady, WorkerAccept, WorkerPolled, WorkerFinish, WorkerExit, WorkerCrash,
     TakeFatal

LEMMA NextNotices == IInv /\ Left /\ [Next]_vars => NoticeStep
<1> SUFFICES ASSUME IInv, Left, [Next]_vars PROVE NoticeStep OBVIOUS
<1>1. CASE OutsideStep
  BY <1>1 DEF OutsideStep, sig_handler, ExecInterrupted, Connect, Goto, loopVars,
     ctlVars, workerVars, NoticeStep, Noticing, Zombies
<1>2. CASE UNCHANGED vars
  BY <1>2 DEF vars, loopVars, ctlVars, workerVars, NoticeStep, Noticing, Zombies
<1> QED BY <1>1, <1>2, MasterNotices, LoopNotices, WorkerNotices DEF Next, Terminated

\* A SIGCHLD is never lost for good: from every death to the waitpid that
\* reaps it, the character in the self-pipe, the postponed timer or the burial
\* itself is under way (fpm_got_signal, fpm_children_bury).
THEOREM DeadAreNoticed == Spec => []ZombiesNoticed
<1>1. Init => ZombiesNoticed BY DEF Init, ZombiesNoticed, Zombies, Dead
<1>3. NoOrphans' /\ NoticeStep /\ ZombiesNoticed => ZombiesNoticed'
  BY DEF NoOrphans, NoticeStep, ZombiesNoticed, Noticing, Zombies, Dead
<1>4. IInv /\ Left /\ NoOrphans' /\ ZombiesNoticed /\ [Next]_vars => ZombiesNoticed'
  BY <1>3, NextNotices
<1> QED BY <1>1, <1>4, AlwaysLeft, NothingOrphaned, PTL DEF Spec
-----------------------------------------------------------------------------
(* The signals of a master that leaves.                                    *)

\* A step that sends no new signal of the escalation: the children it keeps
\* keep their signals, or their processes are dead.
QuietStep ==
  /\ UNCHANGED pctlVars
  /\ mpc' \in {"exec", "exited"} \/ mpc \notin {"exec", "exited"}
  /\ fpm_state # "normal" => \A c \in Pid : child_wp'[c] # 0 =>
       /\ child_wp[c] # 0
       /\ \/ proc'[c] \in Dead
          \/ /\ proc[c] \notin Dead
             /\ in_shutdown[c] => in_shutdown'[c]
             /\ \A s \in sigs[c] : s \in sigs'[c] \/ (s = "QUIT" /\ in_shutdown'[c])

LEMMA QuietStepOK == EveryChildSignalled /\ QuietStep => EveryChildSignalled'
<1> SUFFICES ASSUME EveryChildSignalled, QuietStep,
                    fpm_state # "normal", mpc' \notin {"exec", "exited"}
             PROVE  /\ pctl_event
                    /\ \A c \in AllChildren' : \/ proc'[c] \in Dead
                                               \/ fpm_signal_sent \in sigs'[c]
                                               \/ fpm_signal_sent = "QUIT" /\ in_shutdown'[c]
  BY DEF EveryChildSignalled, QuietStep, pctlVars, Dead
<1>1. /\ pctl_event
      /\ \A c \in AllChildren : \/ proc[c] \in Dead
                                \/ fpm_signal_sent \in sigs[c]
                                \/ fpm_signal_sent = "QUIT" /\ in_shutdown[c]
  BY DEF EveryChildSignalled, QuietStep
<1> QED BY <1>1 DEF QuietStep, AllChildren

\* Nothing happens to the children.
LEMMA IdleStepOK ==
  ASSUME EveryChildSignalled, UNCHANGED <<pctlVars, childVars, workerVars, sigs>>,
         mpc' \in {"exec", "exited"} \/ mpc \notin {"exec", "exited"}
  PROVE  EveryChildSignalled'
<1>1. QuietStep BY DEF QuietStep, pctlVars, childVars, workerVars
<1> QED BY <1>1, QuietStepOK

\* fpm_pctl_kill_all reaches every child that is left.
LEMMA ActionNextSignals ==
  ASSUME IInv, NEW sent, NEW pc, fpm_pctl_action_next(sent, pc),
         \A c \in Pid : child_wp'[c] # 0 => child_wp[c] # 0 /\ proc'[c] = proc[c]
  PROVE  EveryChildSignalled'
<1>1. CASE running_all' = 0
  <2>1. mpc' \in {"exec", "exited"}
    BY <1>1 DEF fpm_pctl_action_next, fpm_pctl_action_last, Goto
  <2> QED BY <2>1 DEF EveryChildSignalled
<1>2. CASE running_all' # 0
  <2> DEFINE sig == NextSignal(fpm_state', sent)
  <2>1. /\ sigs' = Kill({c \in Pid : child_wp'[c] # 0}, sig)
        /\ fpm_signal_sent' = sig /\ pctl_event' = TRUE
    BY <1>2 DEF fpm_pctl_action_next
  <2> HIDE DEF sig
  <2>2. ASSUME NEW c \in Pid, child_wp'[c] # 0
        PROVE  proc'[c] \in Dead \/ fpm_signal_sent' \in sigs'[c]
    <3>1. proc'[c] = proc[c] /\ proc[c] # "none" BY <2>2 DEF IInv, Listed
    <3>2. proc[c] \in Live \cup Dead BY <3>1 DEF IInv, TypeOK, TypeWorker
    <3> QED BY <2>1, <2>2, <3>1, <3>2 DEF Kill
  <2> QED BY <2>1, <2>2 DEF EveryChildSignalled, AllChildren, Dead
<1> QED BY <1>1, <1>2

LEMMA PctlSetSignals ==
  ASSUME IInv, EveryChildSignalled, mpc \notin {"exec", "exited"},
         NEW new, NEW pc, fpm_pctl_set(new, pc), UNCHANGED in_shutdown,
         \A c \in Pid : child_wp'[c] # 0 => child_wp[c] # 0 /\ proc'[c] = proc[c]
  PROVE  EveryChildSignalled'
<1>1. CASE new # fpm_state /\ Overrides(new, fpm_state)
  BY <1>1, ActionNextSignals DEF fpm_pctl_set
<1>2. CASE ~(new # fpm_state /\ Overrides(new, fpm_state))
  <2>1. UNCHANGED <<pctlVars, sigs>> BY <1>2 DEF fpm_pctl_set
  <2>2. QuietStep BY <2>1 DEF QuietStep, pctlVars
  <2> QED BY <2>2, QuietStepOK
<1> QED BY <1>1, <1>2

\* The child that is reaped leaves the list, the others stay as they are.
LEMMA ReapOthers ==
  ASSUME IInv, NEW c \in Pid, Reap(c)
  PROVE  /\ \A d \in Pid : child_wp'[d] # 0 =>
              /\ child_wp[d] # 0 /\ proc'[d] = proc[d] /\ idle_kill'[d] = idle_kill[d]
         /\ \A d \in Pid : idle_kill'[d] => idle_kill[d] /\ child_wp'[d] = child_wp[d]
                                            /\ proc'[d] = proc[d]
         /\ UNCHANGED in_shutdown
BY DEF Reap, fpm_child_unlink, fpm_child_close, IInv, TypeOK, TypeChild, TypeWorker

LEMMA MasterSignals ==
  IInv /\ Left /\ EveryChildSignalled /\ MasterStep => EveryChildSignalled'
<1> SUFFICES ASSUME IInv, Left, EveryChildSignalled, MasterStep
             PROVE  EveryChildSignalled' OBVIOUS
<1>1. CASE StartPool BY <1>1, IdleStepOK DEF StartPool
<1>2. CASE MakeFork
  BY <1>2 DEF MakeFork, MustFork, fpm_pctl_can_spawn_children, pctlVars,
              EveryChildSignalled
<1>3. CASE MakeDone BY <1>3, IdleStepOK DEF MakeDone
<1>4. CASE MakeFail
  <2>1. UNCHANGED <<childVars, workerVars>> /\ mpc = "make" BY <1>4 DEF MakeFail
  <2>2. CASE ret = "start"
    BY <1>4, <2>1, <2>2, PctlSetSignals DEF MakeFail, childVars, workerVars
  <2>3. CASE ret # "start" BY <1>4, <2>1, <2>3, IdleStepOK DEF MakeFail
  <2> QED BY <2>2, <2>3
<1>5. CASE Reexec BY <1>5 DEF Reexec, EveryChildSignalled
<1>6. ASSUME NEW c \in Pid, BuryLast(c) PROVE EveryChildSignalled'
  BY <1>6 DEF BuryLast, fpm_pctl_action_last, Goto, EveryChildSignalled
<1>7. ASSUME NEW c \in Pid, BuryChild(c) PROVE EveryChildSignalled'
  <2>1. Reap(c) /\ UNCHANGED <<pctlVars, sigs>> /\ mpc = "bury"
    BY <1>7 DEF BuryChild, Reap
  <2>2. QuietStep BY <2>1, ReapOthers DEF QuietStep, pctlVars
  <2> QED BY <2>2, QuietStepOK
<1>8. ASSUME NEW c \in Pid, BuryEmergency(c) PROVE EveryChildSignalled'
  <2>1. Reap(c) /\ fpm_pctl_set("reloading", "bury") /\ mpc = "bury"
    BY <1>8 DEF BuryEmergency, Reap
  <2> QED BY <2>1, ReapOthers, PctlSetSignals
<1>9. CASE BuryDone BY <1>9, IdleStepOK DEF BuryDone
<1>10. CASE MaintKill
  <2>1. PICK c \in Pid : fpm_pctl_kill_idle_child(c) BY <1>10 DEF MaintKill
  <2>2. UNCHANGED <<pctlVars, child_wp, proc, in_shutdown>> /\ mpc = "maint"
    BY <1>10 DEF MaintKill, workerVars
  <2>3. \A d \in Pid : sigs[d] \subseteq sigs'[d]
    BY <2>1 DEF fpm_pctl_kill_idle_child, Kill
  <2>4. QuietStep BY <2>2, <2>3 DEF QuietStep, pctlVars
  <2> QED BY <2>4, QuietStepOK
<1>11. CASE MaintSpawn BY <1>11, IdleStepOK DEF MaintSpawn
<1>12. CASE MaintNothing BY <1>12, IdleStepOK DEF MaintNothing
<1> QED BY <1>1, <1>2, <1>3, <1>4, <1>5, <1>6, <1>7, <1>8, <1>9, <1>10, <1>11, <1>12
        DEF MasterStep

LEMMA LoopSignals == IInv /\ EveryChildSignalled /\ LoopStep => EveryChildSignalled'
<1> SUFFICES ASSUME IInv, EveryChildSignalled, LoopStep PROVE EveryChildSignalled' OBVIOUS
<1>1. CASE GotSignal
  <2>1. UNCHANGED <<childVars, workerVars>> /\ mpc = "loop" BY <1>1 DEF GotSignal
  <2> QED BY <1>1, <2>1, PctlSetSignals DEF GotSignal, childVars, workerVars
<1>2. CASE GotChld BY <1>2, IdleStepOK DEF GotChld, ctlVars
<1>3. CASE PctlTimer
  <2>1. UNCHANGED <<childVars, workerVars>> BY <1>3 DEF PctlTimer
  <2> QED BY <1>3, <2>1, ActionNextSignals DEF PctlTimer, childVars, workerVars
<1>4. CASE BuryTimer BY <1>4, IdleStepOK DEF BuryTimer
<1>5. CASE MaintBegin BY <1>5, IdleStepOK DEF MaintBegin
<1>6. CASE RequestTimeout
  <2>1. UNCHANGED <<pctlVars, mpc, childVars, workerVars>> /\ mpc = "loop"
    BY <1>6 DEF RequestTimeout, ctlVars
  <2>2. \A d \in Pid : sigs[d] \subseteq sigs'[d] BY <1>6 DEF RequestTimeout, Kill
  <2>3. QuietStep BY <2>1, <2>2 DEF QuietStep, pctlVars, childVars, workerVars
  <2> QED BY <2>3, QuietStepOK
<1>7. ASSUME NEW p \in Pool, SocketAccept(p) PROVE EveryChildSignalled'
  BY <1>7, IdleStepOK DEF SocketAccept
<1> QED BY <1>1, <1>2, <1>3, <1>4, <1>5, <1>6, <1>7 DEF LoopStep

LEMMA WorkerSignals ==
  ASSUME NEW c \in Pid, IInv, EveryChildSignalled, WorkerStep(c)
  PROVE  EveryChildSignalled'
<1>0. /\ proc \in [Pid -> Live \cup Dead \cup {"none"}] /\ sigs \in [Pid -> SUBSET Signal]
      /\ in_shutdown \in [Pid -> BOOLEAN] /\ Live \cap Dead = {}
  BY DEF IInv, TypeOK, TypeWorker, Live, Dead
<1>1. ASSUME NEW st \in Live, Become(c, st), proc[c] \in Live PROVE QuietStep
  BY <1>0, <1>1 DEF Become, masterVars, pctlVars, ctlVars, childVars, QuietStep
<1>2. ASSUME NEW how \in Dead, Die(c, how) PROVE QuietStep
  BY <1>0, <1>2 DEF Die, masterVars, pctlVars, ctlVars, childVars, QuietStep
<1>3. ASSUME TakeQuit(c) PROVE QuietStep
  BY <1>0, <1>3 DEF TakeQuit, masterVars, pctlVars, ctlVars, childVars, QuietStep
<1>4. {"up", "idle", "conn", "busy"} \subseteq Live /\ {"exited", "fault", "killed"} \subseteq Dead
  BY DEF Live, Dead
<1>5. WorkerInit(c) \/ WorkerReady(c) \/ WorkerAccept(c) \/ WorkerPolled(c) => QuietStep
  BY <1>1, <1>4 DEF WorkerInit, WorkerReady, WorkerAccept, WorkerPolled, Live
<1>6. WorkerFinish(c) => QuietStep BY <1>1, <1>2, <1>4 DEF WorkerFinish
<1>7. WorkerInitFail(c) \/ WorkerExit(c) \/ WorkerCrash(c) \/ TakeFatal(c) => QuietStep
  BY <1>2, <1>4 DEF WorkerInitFail, WorkerExit, WorkerCrash, TakeFatal
<1> QED BY <1>3, <1>5, <1>6, <1>7, QuietStepOK DEF WorkerStep

LEMMA OutsideSignals == EveryChildSignalled /\ OutsideStep => EveryChildSignalled'
<1> SUFFICES ASSUME EveryChildSignalled, OutsideStep PROVE EveryChildSignalled' OBVIOUS
<1>1. ASSUME NEW ch, sig_handler(ch) PROVE EveryChildSignalled'
  BY <1>1, IdleStepOK DEF sig_handler
<1>2. CASE ExecInterrupted BY <1>2, IdleStepOK DEF ExecInterrupted, Goto
<1>3. ASSUME NEW p, Connect(p) PROVE EveryChildSignalled'
  BY <1>3, IdleStepOK DEF Connect, ctlVars
<1> QED BY <1>1, <1>2, <1>3 DEF OutsideStep

LEMMA NextSignals ==
  IInv /\ Left /\ EveryChildSignalled /\ [Next]_vars => EveryChildSignalled'
<1> SUFFICES ASSUME IInv, Left, EveryChildSignalled, [Next]_vars
             PROVE  EveryChildSignalled' OBVIOUS
<1>1. CASE UNCHANGED vars
  BY <1>1 DEF vars, pctlVars, ctlVars, childVars, workerVars, EveryChildSignalled,
              AllChildren
<1> QED BY <1>1, MasterSignals, LoopSignals, WorkerSignals, OutsideSignals
        DEF Next, Terminated

\* A master that leaves has its escalation timer armed, and the last signal
\* of the escalation is pending at every child it lists, or taken: no child is
\* forked behind fpm_pctl_kill_all, and none loses the signal while it starts
\* (fpm_pctl_action_next, fpm_children_make, fpm_signals_child_block).
THEOREM ChildrenSignalled == Spec => []EveryChildSignalled
<1>1. Init => EveryChildSignalled BY DEF Init, EveryChildSignalled
<1> QED BY <1>1, NextSignals, AlwaysLeft, PTL DEF Spec
-----------------------------------------------------------------------------
(* Who may be killed.                                                      *)

\* Only a master that leaves has its escalation timer armed.
Armed == pctl_event => fpm_state # "normal"

\* A child marked by the idle maintenance is listed and has been asked to quit.
Warned ==
  \A c \in Pid : idle_kill[c] =>
    /\ child_wp[c] # 0
    /\ proc[c] \in Live => in_shutdown[c] \/ "QUIT" \in sigs[c]

\* One step of KillOnlyAfterWarning.
KillWarned ==
  \A c \in Pid : "KILL" \in sigs'[c] \ sigs[c] =>
    in_shutdown[c] \/ "QUIT" \in sigs[c] \/ "TERM" \in sigs[c]

LEMMA PctlSetArmed ==
  ASSUME NEW new \in State \ {"normal"}, NEW pc, Armed, fpm_pctl_set(new, pc)
  PROVE  Armed'
BY DEF fpm_pctl_set, pctlVars, Armed

LEMMA NextArmed == IInv /\ Armed /\ [Next]_vars => Armed'
<1> SUFFICES ASSUME IInv, Armed, [Next]_vars PROVE Armed' OBVIOUS
<1>1. CASE UNCHANGED pctlVars BY <1>1 DEF pctlVars, Armed
<1>2. CASE GotSignal
  <2>1. sigpipe \in Seq({"T", "Q", "2"}) /\ sigpipe # <<>>
    BY <1>2 DEF GotSignal, IInv, TypeOK, TypeLoop
  <2>2. Head(sigpipe) \in {"T", "Q", "2"} BY <2>1
  <2>3. Requested(Head(sigpipe)) \in State \ {"normal"} BY <2>2 DEF Requested, State
  <2> QED BY <1>2, <2>3, PctlSetArmed DEF GotSignal
<1>3. CASE PctlTimer BY <1>3 DEF PctlTimer, Armed
<1>4. CASE MakeFail /\ ret = "start"
  BY <1>4, PctlSetArmed DEF MakeFail, State
<1>5. ASSUME NEW c \in Pid, BuryEmergency(c) PROVE Armed'
  BY <1>5, PctlSetArmed DEF BuryEmergency, State
<1>6. CASE Reexec BY <1>6 DEF Reexec, Armed
<1>7. MasterStep => UNCHANGED pctlVars \/ (MakeFail /\ ret = "start") \/ Reexec
                    \/ \E c \in Pid : BuryEmergency(c)
  BY DEF MasterStep, StartPool, MakeFork, MakeDone, MakeFail, BuryLast, BuryChild,
     fpm_pctl_action_last, pctlVars, BuryDone, MaintKill, MaintSpawn, MaintNothing
<1>8. LoopStep => UNCHANGED pctlVars \/ GotSignal \/ PctlTimer
  BY DEF LoopStep, GotChld, BuryTimer, MaintBegin, RequestTimeout, SocketAccept
<1>9. (\E c \in Pid : WorkerStep(c)) => UNCHANGED pctlVars
  BY DEF WorkerStep, WorkerInit, WorkerInitFail, WorkerReady, WorkerAccept,
     WorkerPolled, WorkerFinish, WorkerExit, WorkerCrash, TakeQuit, TakeFatal,
     Become, Die, masterVars
<1>10. OutsideStep \/ UNCHANGED vars => UNCHANGED pctlVars
  BY DEF OutsideStep, sig_handler, ExecInterrupted, Connect, vars
<1> QED BY <1>1, <1>2, <1>3, <1>4, <1>5, <1>6, <1>7, <1>8, <1>9, <1>10
        DEF Next, Terminated

\* The signals a handler of fpm_pctl sends: SIGKILL is not the first of them.
LEMMA FirstSignal ==
  ASSUME NEW pc, fpm_pctl_action_next("none", pc), NEW c \in Pid
  PROVE  sigs[c] \subseteq sigs'[c] /\ ("KILL" \in sigs'[c] => "KILL" \in sigs[c])
BY DEF fpm_pctl_action_next, fpm_pctl_action_last, NextSignal, Kill

LEMMA SetSignal ==
  ASSUME NEW new, NEW pc, fpm_pctl_set(new, pc), NEW c \in Pid
  PROVE  sigs[c] \subseteq sigs'[c] /\ ("KILL" \in sigs'[c] => "KILL" \in sigs[c])
BY FirstSignal DEF fpm_pctl_set

\* A step that sends no SIGKILL.
NoKill == \A c \in Pid : "KILL" \in sigs'[c] => "KILL" \in sigs[c]

\* A step that marks no child, and takes no warning back.
NoMark ==
  \A c \in Pid : idle_kill'[c] =>
    /\ idle_kill[c]
    /\ child_wp'[c] = child_wp[c]
    /\ proc'[c] \in Live =>
         /\ proc[c] \in Live
         /\ in_shutdown[c] \/ "QUIT" \in sigs[c] => in_shutdown'[c] \/ "QUIT" \in sigs'[c]

LEMMA AtRest ==
  ASSUME UNCHANGED <<childVars, workerVars>>,
         \A c \in Pid : sigs[c] \subseteq sigs'[c]
  PROVE  NoMark
BY DEF NoMark, childVars, workerVars

LEMMA MasterKills == IInv /\ Warned /\ MasterStep => MaintKill \/ (NoKill /\ NoMark)
<1> SUFFICES ASSUME IInv, Warned, MasterStep, ~MaintKill PROVE NoKill /\ NoMark OBVIOUS
<1>1. CASE UNCHANGED <<childVars, workerVars, sigs>>
  <2>1. UNCHANGED <<childVars, workerVars>> BY <1>1
  <2> QED BY <1>1, <2>1, AtRest DEF NoKill
<1>2. CASE MakeFork
  <2>1. PICK c \in Pid : /\ proc[c] = "none"
                         /\ child_wp' = [child_wp EXCEPT ![c] = wp]
                         /\ proc' = [proc EXCEPT ![c] = "born"]
    BY <1>2 DEF MakeFork, fpm_child_link
  <2>2. UNCHANGED <<idle_kill, in_shutdown, sigs>> BY <1>2 DEF MakeFork
  <2>3. ~idle_kill[c]
    BY <2>1 DEF Warned, IInv, Listed
  <2>4. \A d \in Pid \ {c} : child_wp'[d] = child_wp[d] /\ proc'[d] = proc[d]
    BY <2>1 DEF IInv, TypeOK, TypeChild, TypeWorker
  <2> QED BY <2>2, <2>3, <2>4 DEF NoKill, NoMark
<1>3. CASE MakeFail /\ ret = "start"
  <2>1. fpm_pctl_set("terminating", "loop") /\ UNCHANGED <<childVars, workerVars>>
    BY <1>3 DEF MakeFail
  <2> QED BY <2>1, SetSignal, AtRest DEF NoKill
<1>4. ASSUME NEW c \in Pid, BuryLast(c) PROVE NoKill /\ NoMark
  <2>1. Reap(c) /\ UNCHANGED sigs BY <1>4 DEF BuryLast, fpm_pctl_action_last
  <2> QED BY <2>1, ReapOthers DEF NoKill, NoMark
<1>5. ASSUME NEW c \in Pid, BuryChild(c) PROVE NoKill /\ NoMark
  <2>1. Reap(c) /\ UNCHANGED sigs BY <1>5 DEF BuryChild
  <2> QED BY <2>1, ReapOthers DEF NoKill, NoMark
<1>6. ASSUME NEW c \in Pid, BuryEmergency(c) PROVE NoKill /\ NoMark
  <2>1. Reap(c) /\ fpm_pctl_set("reloading", "bury") BY <1>6 DEF BuryEmergency
  <2>2. \A d \in Pid : sigs[d] \subseteq sigs'[d] /\ ("KILL" \in sigs'[d] => "KILL" \in sigs[d])
    BY <2>1, SetSignal
  <2> QED BY <2>1, <2>2, ReapOthers DEF NoKill, NoMark
<1>7. UNCHANGED <<childVars, workerVars, sigs>> \/ MakeFork
      \/ (MakeFail /\ ret = "start")
      \/ \E c \in Pid : BuryLast(c) \/ BuryChild(c) \/ BuryEmergency(c)
  BY DEF MasterStep, StartPool, MakeDone, MakeFail, Reexec, BuryDone, MaintSpawn,
     MaintNothing
<1> QED BY <1>1, <1>2, <1>3, <1>4, <1>5, <1>6, <1>7

LEMMA LoopKills == LoopStep => PctlTimer \/ (NoKill /\ NoMark)
<1> SUFFICES ASSUME LoopStep, ~PctlTimer PROVE NoKill /\ NoMark OBVIOUS
<1>1. UNCHANGED <<childVars, workerVars>>
  BY DEF LoopStep, GotSignal, GotChld, BuryTimer, MaintBegin, RequestTimeout,
     SocketAccept
<1>2. CASE GotSignal
  <2>1. PICK new, pc : fpm_pctl_set(new, pc) BY <1>2 DEF GotSignal
  <2> QED BY <1>1, <2>1, SetSignal, AtRest DEF NoKill
<1>3. CASE RequestTimeout BY <1>1, <1>3, AtRest DEF RequestTimeout, Kill, NoKill
<1>4. UNCHANGED sigs \/ GotSignal \/ RequestTimeout
  BY DEF LoopStep, GotChld, BuryTimer, MaintBegin, SocketAccept
<1> QED BY <1>1, <1>2, <1>3, <1>4, AtRest DEF NoKill

LEMMA WorkerKills == ASSUME NEW c \in Pid, IInv, WorkerStep(c) PROVE NoKill /\ NoMark
<1>0. /\ proc \in [Pid -> Live \cup Dead \cup {"none"}] /\ sigs \in [Pid -> SUBSET Signal]
      /\ in_shutdown \in [Pid -> BOOLEAN] /\ Live \cap Dead = {}
  BY DEF IInv, TypeOK, TypeWorker, Live, Dead
<1> USE DEF NoKill, NoMark, masterVars, childVars
<1>1. ASSUME NEW st, Become(c, st), proc[c] \in Live PROVE NoKill /\ NoMark
  BY <1>0, <1>1 DEF Become
<1>2. ASSUME NEW how \in Dead, Die(c, how) PROVE NoKill /\ NoMark
  BY <1>0, <1>2 DEF Die
<1>3. ASSUME TakeQuit(c) PROVE NoKill /\ NoMark BY <1>0, <1>3 DEF TakeQuit
<1> HIDE DEF NoKill, NoMark
<1>4. {"exited", "fault", "killed"} \subseteq Dead BY DEF Dead
<1>5. WorkerInit(c) \/ WorkerReady(c) \/ WorkerAccept(c) \/ WorkerPolled(c)
      => NoKill /\ NoMark
  BY <1>1 DEF WorkerInit, WorkerReady, WorkerAccept, WorkerPolled, Live
<1>6. WorkerFinish(c) => NoKill /\ NoMark BY <1>1, <1>2, <1>4 DEF WorkerFinish, Live
<1>7. WorkerInitFail(c) \/ WorkerExit(c) \/ WorkerCrash(c) \/ TakeFatal(c)
      => NoKill /\ NoMark
  BY <1>2, <1>4 DEF WorkerInitFail, WorkerExit, WorkerCrash, TakeFatal
<1> QED BY <1>3, <1>5, <1>6, <1>7 DEF WorkerStep

LEMMA OutsideKills == OutsideStep \/ UNCHANGED vars => NoKill /\ NoMark
<1> SUFFICES ASSUME OutsideStep \/ UNCHANGED vars PROVE NoKill /\ NoMark OBVIOUS
<1>1. UNCHANGED <<childVars, workerVars, sigs>>
  BY DEF OutsideStep, sig_handler, ExecInterrupted, Connect, vars
<1>2. UNCHANGED <<childVars, workerVars>> BY <1>1
<1> QED BY <1>1, <1>2, AtRest DEF NoKill

\* SIGKILL comes second from both of its senders.
LEMMA NextKills ==
  IInv /\ Armed /\ EveryChildSignalled /\ Warned /\ [Next]_vars => Warned' /\ KillWarned
<1> SUFFICES ASSUME IInv, Armed, EveryChildSignalled, Warned, [Next]_vars
             PROVE  Warned' /\ KillWarned
  OBVIOUS
<1>1. CASE NoKill /\ NoMark BY <1>1 DEF NoKill, NoMark, Warned, KillWarned
<1>2. CASE MaintKill
  <2>1. PICK c \in Pid : LastIdleChild(c, wp) /\ fpm_pctl_kill_idle_child(c)
    BY <1>2 DEF MaintKill
  <2>2. UNCHANGED <<child_wp, proc, in_shutdown>> BY <1>2 DEF MaintKill, workerVars
  <2>3. child_wp[c] # 0
    BY <1>2, <2>1, PoolFacts DEF MaintKill, LastIdleChild, Idle, Children, IInv, FrameOK
  <2>4. \A d \in Pid \ {c} : idle_kill'[d] = idle_kill[d] /\ sigs'[d] = sigs[d]
    BY <2>1 DEF fpm_pctl_kill_idle_child, Kill, IInv, TypeOK, TypeChild
  <2>5. proc[c] \in Live =>
          sigs'[c] = sigs[c] \cup {IF idle_kill[c] THEN "KILL" ELSE "QUIT"}
    BY <2>1 DEF fpm_pctl_kill_idle_child, Kill
  <2>6. proc[c] \notin Live => sigs'[c] = sigs[c]
    BY <2>1 DEF fpm_pctl_kill_idle_child, Kill
  <2> QED BY <2>2, <2>3, <2>4, <2>5, <2>6 DEF Warned, KillWarned
<1>3. CASE PctlTimer
  <2>1. UNCHANGED <<fpm_state, childVars, workerVars>> /\ mpc = "loop" /\ fpm_state # "normal"
    BY <1>3 DEF PctlTimer, Armed
  <2>2. CASE running_all' = 0
    <3>1. UNCHANGED sigs
      BY <1>3, <2>2 DEF PctlTimer, fpm_pctl_action_next, fpm_pctl_action_last
    <3> QED BY <2>1, <3>1 DEF childVars, workerVars, Warned, KillWarned
  <2>3. CASE running_all' # 0
    <3>1. sigs' = Kill({c \in Pid : child_wp'[c] # 0},
                       NextSignal(fpm_state', fpm_signal_sent))
      BY <1>3, <2>3 DEF PctlTimer, fpm_pctl_action_next
    <3>2. \A c \in Pid : sigs[c] \subseteq sigs'[c] BY <3>1 DEF Kill
    <3>3. Warned' BY <2>1, <3>2 DEF childVars, workerVars, Warned
    <3>4. ASSUME NEW c \in Pid, "KILL" \in sigs'[c] \ sigs[c]
          PROVE  in_shutdown[c] \/ "QUIT" \in sigs[c] \/ "TERM" \in sigs[c]
      <4>1. child_wp[c] # 0 /\ proc[c] \in Live
            /\ NextSignal(fpm_state', fpm_signal_sent) = "KILL"
        BY <2>1, <3>1, <3>4 DEF Kill, childVars
      <4>2. fpm_signal_sent \in {"TERM", "KILL"}
        BY <4>1 DEF NextSignal, IInv, TypeOK, TypePctl, Signal
      <4>3. fpm_signal_sent \in sigs[c]
        BY <2>1, <4>1, <4>2 DEF EveryChildSignalled, AllChildren, Live, Dead
      <4> QED BY <3>4, <4>2, <4>3
    <3> QED BY <3>3, <3>4 DEF KillWarned
  <2> QED BY <2>2, <2>3
<1> QED BY <1>1, <1>2, <1>3, MasterKills, LoopKills, WorkerKills, OutsideKills
        DEF Next, Terminated

\* SIGKILL never is the first signal a worker gets, neither from
\* fpm_pctl_kill_idle_child nor from the escalation of fpm_pctl_action_next.
THEOREM KilledAreWarned == Spec => KillOnlyAfterWarning
<1>1. Init => Armed /\ Warned BY DEF Init, Armed, Warned
<1>2. KillWarned <=> \A c \in Pid : "KILL" \in sigs'[c] \ sigs[c] =>
                       in_shutdown[c] \/ "QUIT" \in sigs[c] \/ "TERM" \in sigs[c]
  BY DEF KillWarned
<1> QED BY <1>1, <1>2, NextArmed, NextKills, ChildrenSignalled, AlwaysLeft, PTL
        DEF Spec, KillOnlyAfterWarning

-----------------------------------------------------------------------------
(* FpmMaster implements FpmSupervisor.  The typing and the limits come from *)
(* the invariant above; each step is mapped to the supervisor's.           *)

Inv == IInv /\ Left /\ Armed

Phase == IF mpc \in {"exec", "exited"} THEN mpc ELSE "up"
Statuses == [c \in Pid |-> Status(c)]

\* A step that neither the supervisor's state nor the workers show.
Hidden == UNCHANGED <<fpm_state, Phase, child_wp, Statuses>>

LEMMA HiddenStutters == Hidden => UNCHANGED Supervisor!vars
BY DEF Hidden, Phase, Statuses, Supervisor!vars

LEMMA SameCardinality == \A S : Supervisor!Cardinality(S) = Cardinality(S)
BY DEF Supervisor!Cardinality, Cardinality

LEMMA NoChildren ==
  ASSUME IInv', running_all' = 0
  PROVE  {c \in Pid : child_wp'[c] # 0} = {}
<1>1. Cardinality(AllChildren)' = 0 BY DEF IInv, CountersExact
<1>2. IsFiniteSet(AllChildren') BY FS_Subset, ConstantsAssumption DEF AllChildren
<1>3. AllChildren' = {} BY <1>1, <1>2, FS_EmptySet
<1> QED BY <1>3 DEF AllChildren

-----------------------------------------------------------------------------
(* The master goes on or leaves.                                           *)

\* What Onward says, in the variables of FpmMaster.
Moves ==
  /\ mpc \notin {"exec", "exited"}
  /\ Rank[fpm_state'] >= Rank[fpm_state]
  /\ \/ mpc' \notin {"exec", "exited"}
     \/ /\ fpm_state' # "normal" /\ running_all' = 0
        /\ mpc' = IF fpm_state' = "reloading" THEN "exec" ELSE "exited"

LEMMA MovesOnward == IInv' /\ Moves => Supervisor!Onward
<1> SUFFICES ASSUME IInv', Moves PROVE Supervisor!Onward OBVIOUS
<1>1. Rank = Supervisor!Rank BY DEF Rank, Supervisor!Rank
<1>2. CASE mpc' \notin {"exec", "exited"} BY <1>1, <1>2 DEF Moves, Supervisor!Onward
<1>3. CASE mpc' \in {"exec", "exited"}
  <2>1. fpm_state' # "normal" /\ running_all' = 0
        /\ mpc' = IF fpm_state' = "reloading" THEN "exec" ELSE "exited"
    BY <1>3 DEF Moves
  <2>2. Supervisor!AllWorkers' = {} BY <2>1, NoChildren DEF Supervisor!AllWorkers
  <2> QED BY <1>1, <1>3, <2>1, <2>2 DEF Moves, Supervisor!Onward
<1> QED BY <1>2, <1>3

LEMMA StayMoves ==
  ASSUME TypePctl, mpc \notin {"exec", "exited"}, mpc' \notin {"exec", "exited"},
         UNCHANGED fpm_state
  PROVE  Moves
<1>1. Rank[fpm_state] \in Int BY DEF Rank, TypePctl, State
<1> QED BY <1>1 DEF Moves

LEMMA ActionNextMoves ==
  ASSUME mpc \notin {"exec", "exited"}, Rank[fpm_state'] >= Rank[fpm_state],
         fpm_state' # "normal", NEW sent, NEW pc \in {"loop", "bury"},
         fpm_pctl_action_next(sent, pc)
  PROVE  Moves
BY DEF fpm_pctl_action_next, fpm_pctl_action_last, Goto, Moves

LEMMA PctlSetMoves ==
  ASSUME TypePctl, Armed, mpc \notin {"exec", "exited"}, NEW new \in State \ {"normal"},
         NEW pc \in {"loop", "bury"}, fpm_pctl_set(new, pc)
  PROVE  Moves /\ Armed'
<1>1. CASE new # fpm_state /\ Overrides(new, fpm_state)
  <2>1. fpm_state' = new /\ fpm_pctl_action_next("none", pc)
    BY <1>1 DEF fpm_pctl_set
  <2>2. Rank[fpm_state'] >= Rank[fpm_state]
    BY <1>1, <2>1 DEF Rank, Overrides, TypePctl, State
  <2> QED BY <2>1, <2>2, ActionNextMoves DEF Armed
<1>2. CASE ~(new # fpm_state /\ Overrides(new, fpm_state))
  <2>1. Goto(pc, 0) /\ UNCHANGED pctlVars BY <1>2 DEF fpm_pctl_set
  <2>2. mpc' \notin {"exec", "exited"} BY <2>1 DEF Goto
  <2> QED BY <2>1, <2>2, StayMoves DEF pctlVars, Armed
<1> QED BY <1>1, <1>2

-----------------------------------------------------------------------------
(* The workers.                                                            *)

LEMMA ReapMaps ==
  ASSUME Inv, IInv', Moves, NEW c \in Pid, Reap(c)
  PROVE  Supervisor!Reap(c)
<1>1. proc[c] \in Dead /\ proc' = [proc EXCEPT ![c] = "none"]
      /\ child_wp' = [child_wp EXCEPT ![c] = 0]
  BY DEF Reap, fpm_child_unlink
<1>2. proc \in [Pid -> Live \cup Dead \cup {"none"}]
  BY DEF Inv, IInv, TypeOK, TypeWorker
<1>3. Statuses' = [Statuses EXCEPT ![c] = "none"]
  BY <1>1, <1>2 DEF Statuses, Status, Dead
<1>4. Statuses[c] = "dead" BY <1>1 DEF Statuses, Status, Dead
<1> QED BY <1>1, <1>3, <1>4, MovesOnward DEF Supervisor!Reap, Statuses

\* A worker's step: its process goes on, or it dies.
LEMMA WorkerMaps ==
  ASSUME Inv, NEW c \in Pid, WorkerStep(c)
  PROVE  Supervisor!Die(c) \/ Hidden
<1>1. UNCHANGED masterVars
  BY DEF WorkerStep, WorkerInit, WorkerInitFail, WorkerReady, WorkerAccept,
         WorkerPolled, WorkerFinish, WorkerExit, WorkerCrash, TakeQuit,
         TakeFatal, Become, Die
<1>2. UNCHANGED <<fpm_state, Phase, child_wp>>
  BY <1>1 DEF masterVars, pctlVars, ctlVars, childVars, Phase
<1>3. proc \in [Pid -> Live \cup Dead \cup {"none"}]
  BY DEF Inv, IInv, TypeOK, TypeWorker
<1>4. CASE \E how \in Dead : proc[c] \in Live /\ proc' = [proc EXCEPT ![c] = how]
  <2>1. PICK how \in Dead : proc[c] \in Live /\ proc' = [proc EXCEPT ![c] = how]
    BY <1>4
  <2>2. Statuses' = [Statuses EXCEPT ![c] = "dead"]
    BY <1>3, <2>1 DEF Statuses, Status, Dead
  <2>3. Statuses[c] = "live" BY <2>1 DEF Statuses, Status, Dead, Live
  <2> QED BY <1>2, <2>2, <2>3 DEF Supervisor!Die, Statuses, Phase
<1>5. CASE \E st \in Live : proc[c] \in Live /\ proc' = [proc EXCEPT ![c] = st]
  <2>1. PICK st \in Live : proc[c] \in Live /\ proc' = [proc EXCEPT ![c] = st]
    BY <1>5
  <2>2. Statuses' = Statuses BY <1>3, <2>1 DEF Statuses, Status, Dead, Live
  <2> QED BY <1>2, <2>2 DEF Hidden
<1>6. CASE UNCHANGED proc
  BY <1>2, <1>6 DEF Hidden, Statuses, Status
<1>7. \/ \E how \in Dead : proc[c] \in Live /\ proc' = [proc EXCEPT ![c] = how]
      \/ \E st \in Live : proc[c] \in Live /\ proc' = [proc EXCEPT ![c] = st]
      \/ UNCHANGED proc
  <2>1. "exited" \in Dead /\ "killed" \in Dead /\ "fault" \in Dead BY DEF Dead
  <2>2. "born" \in Live /\ "up" \in Live /\ "idle" \in Live /\ "conn" \in Live
        /\ "busy" \in Live
    BY DEF Live
  <2>3. CASE WorkerInit(c) BY <2>2, <2>3 DEF WorkerInit, Become
  <2>4. CASE WorkerInitFail(c) BY <2>1, <2>2, <2>4 DEF WorkerInitFail, Die
  <2>5. CASE WorkerReady(c) BY <2>2, <2>5 DEF WorkerReady, Become
  <2>6. CASE WorkerAccept(c) BY <2>2, <2>6 DEF WorkerAccept, Become
  <2>7. CASE WorkerPolled(c) BY <2>2, <2>7 DEF WorkerPolled, Become
  <2>8. CASE WorkerFinish(c) BY <2>1, <2>2, <2>8 DEF WorkerFinish, Become, Die
  <2>9. CASE WorkerExit(c)
    <3>1. proc[c] \in Live BY <2>2, <2>9 DEF WorkerExit
    <3> QED BY <2>1, <2>9, <3>1 DEF WorkerExit, Die
  <2>10. CASE WorkerCrash(c) BY <2>1, <2>10 DEF WorkerCrash, Die
  <2>11. CASE TakeQuit(c) BY <2>11 DEF TakeQuit
  <2>12. CASE TakeFatal(c) BY <2>1, <2>12 DEF TakeFatal, Die
  <2> QED BY <2>3, <2>4, <2>5, <2>6, <2>7, <2>8, <2>9, <2>10, <2>11, <2>12
          DEF WorkerStep
<1> QED BY <1>4, <1>5, <1>6, <1>7

LEMMA ForkMaps ==
  ASSUME Inv, IInv', MakeFork
  PROVE  \E c \in Pid : Supervisor!Fork(c, wp)
<1>1. PICK c \in Pid : /\ proc[c] = "none"
                       /\ proc' = [proc EXCEPT ![c] = "born"]
                       /\ child_wp' = [child_wp EXCEPT ![c] = wp]
  BY DEF MakeFork, fpm_child_link
<1>2. proc \in [Pid -> Live \cup Dead \cup {"none"}]
  BY DEF Inv, IInv, TypeOK, TypeWorker
<1>3. Statuses' = [Statuses EXCEPT ![c] = "live"]
  BY <1>1, <1>2 DEF Statuses, Status, Dead
<1>4. Statuses[c] = "none" BY <1>1 DEF Statuses, Status
<1>5. mpc = "make" /\ fpm_state = "normal" /\ UNCHANGED <<fpm_state, mpc>>
  BY DEF MakeFork, MustFork, fpm_pctl_can_spawn_children, pctlVars, ctlVars
<1>6. Supervisor!WithinLimits'
  <2>1. (CountersExact /\ LimitsOK)' BY DEF IInv
  <2>2. WithinLimits' BY <2>1 DEF CountersExact, LimitsOK, WithinLimits
  <2>3. ASSUME NEW p \in Pool PROVE Cardinality(Supervisor!Workers(p)') <= config[p].pm_max_children
    BY <2>2 DEF WithinLimits, Children, Supervisor!Workers
  <2>4. process_max > 0 => Cardinality(Supervisor!AllWorkers') <= process_max
    BY <2>2 DEF WithinLimits, AllChildren, Supervisor!AllWorkers
  <2> QED BY <2>3, <2>4, SameCardinality DEF Pool, Supervisor!WithinLimits
<1> QED BY <1>1, <1>3, <1>4, <1>5, <1>6 DEF Supervisor!Fork, Statuses

-----------------------------------------------------------------------------
(* The master's steps.                                                     *)

\* A master's step that leaves the processes and the lists alone.
LEMMA DecideMaps ==
  ASSUME IInv', Moves, UNCHANGED <<child_wp, proc>>
  PROVE  Supervisor!Decide
BY MovesOnward DEF Supervisor!Decide, Status

LEMMA RestartMaps ==
  ASSUME Reexec \/ ExecInterrupted
  PROVE  Supervisor!Restart /\ (Armed => Armed')
<1>1. UNCHANGED <<child_wp, proc>>
  BY DEF Reexec, ExecInterrupted, childVars, workerVars
<1>2. CASE Reexec
  BY <1>1, <1>2 DEF Reexec, Goto, Supervisor!Restart, Status, Armed
<1>3. CASE ExecInterrupted
  BY <1>1, <1>3 DEF ExecInterrupted, Goto, pctlVars, Supervisor!Restart, Status, Armed
<1> QED BY <1>2, <1>3

\* What is left of the refinement of one step.
Maps == Armed' /\ (Supervisor!Next \/ UNCHANGED Supervisor!vars)

LEMMA StayMaps ==
  ASSUME Inv, IInv', mpc \notin {"exec", "exited"}, mpc' \notin {"exec", "exited"},
         UNCHANGED <<pctlVars, child_wp, proc>>
  PROVE  Maps
<1>1. Moves BY StayMoves DEF Inv, IInv, TypeOK, pctlVars
<1>2. Supervisor!Next BY <1>1, DecideMaps DEF Supervisor!Next
<1>3. Armed' BY DEF Inv, Armed, pctlVars
<1> QED BY <1>2, <1>3 DEF Maps

LEMMA ActionMaps ==
  ASSUME IInv', Armed', Moves, UNCHANGED <<child_wp, proc>>
  PROVE  Maps
BY DecideMaps DEF Maps, Supervisor!Next

LEMMA MasterMaps == Inv /\ IInv' /\ MasterStep => Maps
<1> SUFFICES ASSUME Inv, IInv', MasterStep PROVE Maps OBVIOUS
<1>0. IInv /\ Armed /\ TypePctl BY DEF Inv, IInv, TypeOK
<1>1. CASE StartPool
  <2>1. mpc \notin {"exec", "exited"} /\ UNCHANGED <<pctlVars, child_wp, proc>>
    BY <1>1 DEF StartPool, childVars, workerVars
  <2>2. mpc' \notin {"exec", "exited"}
    BY <1>1 DEF StartPool, NextPool, Goto, fpm_children_make
  <2> QED BY <2>1, <2>2, StayMaps
<1>2. CASE MakeFork
  <2>1. \E c \in Pid : Supervisor!Fork(c, wp) BY <1>2, ForkMaps
  <2>2. wp \in 1 .. NPools BY <1>0, <1>2 DEF MakeFork, IInv, FrameOK, Pool
  <2>3. Armed' BY <1>0, <1>2 DEF MakeFork, pctlVars, Armed
  <2> QED BY <2>1, <2>2, <2>3 DEF Maps, Supervisor!Next
<1>3. CASE MakeDone
  <2>1. mpc = "make" /\ UNCHANGED <<pctlVars, child_wp, proc>>
    BY <1>3 DEF MakeDone, childVars, workerVars
  <2>2. mpc' \notin {"exec", "exited"} BY <1>0, <1>3, ReturnStays DEF MakeDone
  <2> QED BY <2>1, <2>2, StayMaps
<1>4. CASE MakeFail
  <2>1. mpc = "make" /\ UNCHANGED <<child_wp, proc>>
    BY <1>4 DEF MakeFail, childVars, workerVars
  <2>2. CASE ret = "start"
    <3>1. fpm_pctl_set("terminating", "loop") BY <1>4, <2>2 DEF MakeFail
    <3>2. "terminating" \in State \ {"normal"} BY DEF State
    <3>3. Moves /\ Armed' BY <1>0, <2>1, <3>1, <3>2, PctlSetMoves
    <3> QED BY <2>1, <3>3, ActionMaps
  <2>3. CASE ret # "start"
    <3>1. UNCHANGED pctlVars BY <1>4, <2>3 DEF MakeFail
    <3>2. mpc' \notin {"exec", "exited"} BY <1>0, <1>4, <2>3, ReturnStays DEF MakeFail
    <3> QED BY <2>1, <3>1, <3>2, StayMaps
  <2> QED BY <2>2, <2>3
<1>5. CASE Reexec BY <1>0, <1>5, RestartMaps DEF Maps, Supervisor!Next
<1>6. ASSUME NEW c \in Pid, BuryLast(c) PROVE Maps
  <2>1. running_all = 1 /\ running_all' = running_all - 1 /\ fpm_state # "normal"
    BY <1>6 DEF BuryLast, LeavesMaster, Reap, fpm_child_unlink
  <2>2. running_all' = 0 BY <2>1
  <2>3. /\ mpc = "bury" /\ UNCHANGED <<fpm_state, pctl_event>>
        /\ mpc' = IF fpm_state' = "reloading" THEN "exec" ELSE "exited"
    BY <1>6 DEF BuryLast, Reap, fpm_pctl_action_last, Goto
  <2>4. Rank[fpm_state] \in Int BY <1>0 DEF Rank, TypePctl, State
  <2>5. Moves BY <2>1, <2>2, <2>3, <2>4 DEF Moves
  <2>6. Supervisor!Reap(c) BY <1>6, <2>5, ReapMaps DEF BuryLast
  <2>7. Armed' BY <1>0, <2>3 DEF Armed
  <2> QED BY <2>6, <2>7 DEF Maps, Supervisor!Next
<1>7. ASSUME NEW c \in Pid, BuryChild(c) PROVE Maps
  <2>1. mpc = "bury" /\ mpc' \notin {"exec", "exited"} /\ UNCHANGED pctlVars
    BY <1>7 DEF BuryChild, Reap, fpm_children_make, Goto
  <2>2. Moves BY <1>0, <2>1, StayMoves DEF pctlVars
  <2>3. Supervisor!Reap(c) BY <1>7, <2>2, ReapMaps DEF BuryChild
  <2>4. Armed' BY <1>0, <2>1 DEF Armed, pctlVars
  <2> QED BY <2>3, <2>4 DEF Maps, Supervisor!Next
<1>8. ASSUME NEW c \in Pid, BuryEmergency(c) PROVE Maps
  <2>1. mpc = "bury" /\ fpm_pctl_set("reloading", "bury")
    BY <1>8 DEF BuryEmergency, Reap
  <2>2. "reloading" \in State \ {"normal"} BY DEF State
  <2>3. Moves /\ Armed' BY <1>0, <2>1, <2>2, PctlSetMoves
  <2>4. Supervisor!Reap(c) BY <1>8, <2>3, ReapMaps DEF BuryEmergency
  <2> QED BY <2>3, <2>4 DEF Maps, Supervisor!Next
<1>9. CASE BuryDone
  BY <1>9, StayMaps DEF BuryDone, Goto, childVars, workerVars
<1>10. CASE MaintKill
  BY <1>10, StayMaps DEF MaintKill, NextPool, Goto, workerVars
<1>11. CASE MaintSpawn
  BY <1>11, StayMaps DEF MaintSpawn, fpm_children_make, childVars, workerVars
<1>12. CASE MaintNothing
  BY <1>12, StayMaps DEF MaintNothing, NextPool, Goto, childVars, workerVars
<1> QED BY <1>1, <1>2, <1>3, <1>4, <1>5, <1>6, <1>7, <1>8, <1>9, <1>10, <1>11, <1>12
        DEF MasterStep

LEMMA LoopMaps == Inv /\ IInv' /\ LoopStep => Maps
<1> SUFFICES ASSUME Inv, IInv', LoopStep PROVE Maps OBVIOUS
<1>0. IInv /\ Armed /\ TypePctl BY DEF Inv, IInv, TypeOK
<1>1. CASE GotSignal
  <2>1. sigpipe \in Seq({"T", "Q", "2"}) /\ sigpipe # <<>>
    BY <1>0, <1>1 DEF GotSignal, IInv, TypeOK, TypeLoop
  <2>2. Head(sigpipe) \in {"T", "Q", "2"} BY <2>1
  <2>3. Requested(Head(sigpipe)) \in State \ {"normal"} BY <2>2 DEF Requested, State
  <2>4. mpc = "loop" /\ fpm_pctl_set(Requested(Head(sigpipe)), "loop")
        /\ UNCHANGED <<child_wp, proc>>
    BY <1>1 DEF GotSignal, childVars, workerVars
  <2>5. Moves /\ Armed' BY <1>0, <2>3, <2>4, PctlSetMoves
  <2> QED BY <2>4, <2>5, ActionMaps
<1>2. CASE GotChld
  BY <1>2, StayMaps DEF GotChld, ctlVars, childVars, workerVars
<1>3. CASE PctlTimer
  <2>1. /\ mpc = "loop" /\ fpm_state # "normal" /\ UNCHANGED <<fpm_state, child_wp, proc>>
        /\ fpm_pctl_action_next(fpm_signal_sent, "loop")
    BY <1>0, <1>3 DEF PctlTimer, Armed, childVars, workerVars
  <2>2. Rank[fpm_state'] >= Rank[fpm_state] BY <1>0, <2>1 DEF Rank, TypePctl, State
  <2>3. Moves BY <2>1, <2>2, ActionNextMoves
  <2>4. Armed' BY <2>1 DEF Armed
  <2> QED BY <2>1, <2>3, <2>4, ActionMaps
<1>4. CASE BuryTimer
  BY <1>4, StayMaps DEF BuryTimer, Goto, childVars, workerVars
<1>5. CASE MaintBegin
  BY <1>5, StayMaps DEF MaintBegin, Goto, childVars, workerVars
<1>6. CASE RequestTimeout
  BY <1>6, StayMaps DEF RequestTimeout, ctlVars, childVars, workerVars
<1>7. ASSUME NEW p \in Pool, SocketAccept(p) PROVE Maps
  BY <1>7, StayMaps DEF SocketAccept, Goto, fpm_children_make, childVars, workerVars
<1> QED BY <1>1, <1>2, <1>3, <1>4, <1>5, <1>6, <1>7 DEF LoopStep

LEMMA HiddenMaps == Inv /\ Hidden /\ UNCHANGED pctl_event => Maps
BY HiddenStutters DEF Hidden, Inv, Armed, Maps

LEMMA OthersMap ==
  ASSUME Inv, IInv',
         (\E c \in Pid : WorkerStep(c)) \/ OutsideStep \/ UNCHANGED vars
  PROVE  Maps
<1>1. ASSUME NEW c \in Pid, WorkerStep(c) PROVE Maps
  <2>1. UNCHANGED masterVars
    BY <1>1 DEF WorkerStep, WorkerInit, WorkerInitFail, WorkerReady, WorkerAccept,
                WorkerPolled, WorkerFinish, WorkerExit, WorkerCrash, TakeQuit,
                TakeFatal, Become, Die
  <2>2. Armed' BY <2>1 DEF masterVars, pctlVars, Inv, Armed
  <2>3. Supervisor!Die(c) \/ Hidden BY <1>1, WorkerMaps
  <2> QED BY <2>2, <2>3, HiddenStutters DEF Maps, Supervisor!Next
<1>2. ASSUME NEW ch, sig_handler(ch) PROVE Maps
  BY <1>2, HiddenMaps DEF sig_handler, Hidden, Phase, Statuses, Status, pctlVars,
                          ctlVars, childVars, workerVars
<1>3. CASE ExecInterrupted
  BY <1>3, RestartMaps DEF Inv, Maps, Supervisor!Next
<1>4. ASSUME NEW p, Connect(p) PROVE Maps
  BY <1>4, HiddenMaps DEF Connect, Hidden, Phase, Statuses, Status, pctlVars,
                          ctlVars, childVars, workerVars
<1>5. CASE UNCHANGED vars
  BY <1>5, HiddenMaps DEF vars, Hidden, Phase, Statuses, Status, pctlVars,
                          ctlVars, childVars, workerVars
<1> QED BY <1>1, <1>2, <1>3, <1>4, <1>5 DEF OutsideStep

LEMMA InitMaps == Init => Armed /\ Supervisor!Init
BY DEF Init, Armed, Supervisor!Init, Status

\* FpmMaster implements FpmSupervisor: through all the handlers, timers,
\* pipes and signals of fpm_process_ctl.c, fpm_children.c and fpm_events.c a
\* worker is forked in normal operation and within the limits only, is reaped
\* once, and the master leaves without workers and never for less than it was
\* asked.
THEOREM Implementation == Spec => ImplementsSupervisor
<1>1. Inv /\ IInv' /\ [Next]_vars => Maps
  <2> SUFFICES ASSUME Inv, IInv', [Next]_vars PROVE Maps OBVIOUS
  <2>1. MasterStep \/ LoopStep \/ (\E c \in Pid : WorkerStep(c)) \/ OutsideStep
        \/ UNCHANGED vars
    BY DEF Next, Terminated
  <2> QED BY <2>1, MasterMaps, LoopMaps, OthersMap
<1>2. Maps => Armed' /\ [Supervisor!Next]_(Supervisor!vars) BY DEF Maps
<1> QED BY <1>1, <1>2, InitMaps, AlwaysLeft, PTL
        DEF Spec, Inv, ImplementsSupervisor, Supervisor!Spec
=============================================================================
