----------------------------- MODULE ZendSignal -----------------------------
(***************************************************************************)
(* Deferred signals of the engine (src/Zend/zend_signal.c, zend_signal.h). *)
(*                                                                         *)
(* Code that must not be interrupted runs between                          *)
(* HANDLE_BLOCK_INTERRUPTIONS and HANDLE_UNBLOCK_INTERRUPTIONS.  A signal  *)
(* that arrives there is put into a queue of fixed size and handled when   *)
(* the outermost section ends.  zend_signal_handler_defer is the handler   *)
(* the kernel calls.  The program is interrupted between any two of its    *)
(* own steps.                                                              *)
(*                                                                         *)
(* The signals are those of zend_sigs, the ones every request registers.   *)
(* They are all in global_sigmask, so none of them comes while the handler *)
(* of another runs: the handler is one step, finds SIGG(running) clear     *)
(* (line 105), and nothing comes between its stores (lines 125 to 137).    *)
(* SIGG(running) is left out for that reason.                              *)
(*                                                                         *)
(* This is a restriction.  zend_sigaction takes every signal, and          *)
(* pcntl_signal calls it with any; SIGCONT, SIGTSTP, SIGTTIN, SIGTTOU and  *)
(* a few others are not in global_sigmask (lines 423 to 440).  One of them *)
(* that comes while a handler runs is dropped at line 105, and one that    *)
(* comes while another signal is being queued can take the same entry.     *)
(* Nothing here is said of a program with a handler for such a signal.     *)
(* One for any other signal outside zend_sigs would use the queue as these *)
(* do; it is left out because requests do not register it, and its default *)
(* action need not end the process.                                        *)
(*                                                                         *)
(* Every signal of the model is a signal number of its own, sent once, so  *)
(* SA_RESETHAND cannot be seen.  Handlers return and have no sections.     *)
(***************************************************************************)
EXTENDS Integers, Sequences, FiniteSets, SequencesExt

CONSTANTS
  zend_sigs,     \* the signals of the program; all of them in global_sigmask
  StartHandler,  \* what the handlers found at startup may be
  NewHandler,    \* what zend_sigaction is called with
  QueueSize,     \* ZEND_SIGNAL_QUEUE_SIZE
  MaxNesting,    \* bound: sections inside sections
  MaxRequests,   \* bound: requests
  MaxChanges     \* bound: calls of zend_sigaction

ASSUME SignalAssumption ==
  /\ IsFiniteSet(zend_sigs)
  /\ StartHandler \cup NewHandler \subseteq {"function", "ignore", "default"}
  /\ {QueueSize, MaxNesting, MaxRequests, MaxChanges} \subseteq Nat \ {0}

VARIABLES
  SIGG,        \* the signal globals of the thread
  global_orig_handlers,  \* the handlers found at startup
  kernel,      \* what the kernel does with a signal
  pc,          \* where the program is
  unblocking,  \* what HANDLE_UNBLOCK_INTERRUPTIONS has read
  pending,     \* signals sent and not yet delivered by the kernel
  alive,       \* no signal with the default action has ended the process
  requests,    \* requests started so far
  changes,     \* calls of zend_sigaction so far
  \* history, read by the properties only
  section,     \* the sections the program itself is in
  handled,     \* the signals handled
  arrived,     \* the signals delivered to the process, in that order
  full,        \* signals that found the queue full
  dropped,     \* signals dropped at the end of a request
  missed,      \* in this request a section was left without its end, or its
               \* end read SIGG(blocked) before a signal came
  drained      \* a signal emptied the queue while a section was ending

setup == <<global_orig_handlers, kernel, changes>>
signalHistory == <<section, handled, arrived, full, dropped, missed, drained>>
signalVars == <<SIGG, setup, pc, unblocking, pending, alive, requests, signalHistory>>

\* What the handler of a signal is: a function, SIG_IGN or SIG_DFL.
Handler == {"function", "ignore", "default"}

Queued == Range(SIGG.queue)

SignalTypeOK ==
  /\ SIGG \in [active : BOOLEAN, depth : 0 .. MaxNesting, blocked : BOOLEAN,
               queue : Seq(zend_sigs), pavail : 0 .. QueueSize,
               handlers : [zend_sigs -> Handler]]
  /\ global_orig_handlers \in [zend_sigs -> Handler]
  /\ kernel \in [zend_sigs -> {"other", "defer", "ignore"}]
  /\ pc \in {"outside", "run", "unblock_store", "unblock_compare", "unblock", "dequeue",
             "deactivated", "splice", "empty", "crashed"}
  /\ unblocking \in [depth : 0 .. MaxNesting, blocked : {"unread", "set", "clear"}]
  /\ pending \in SUBSET zend_sigs /\ alive \in BOOLEAN
  /\ requests \in 0 .. MaxRequests /\ changes \in 0 .. MaxChanges
  /\ section \in 0 .. MaxNesting
  /\ handled \cup full \cup dropped \subseteq Range(arrived)
  /\ IsInjective(arrived) /\ IsInjective(SIGG.queue)
  /\ handled \cap Queued = {}
  /\ missed \in BOOLEAN /\ drained \in BOOLEAN

NotUnblocking == [depth |-> 0, blocked |-> "unread"]

\* zend_signal_globals_ctor and zend_signal_init.
SignalInit ==
  /\ global_orig_handlers \in [zend_sigs -> StartHandler]
  /\ kernel = [s \in zend_sigs |->
                 IF global_orig_handlers[s] = "ignore" THEN "ignore" ELSE "other"]
  /\ SIGG = [active |-> FALSE, depth |-> 0, blocked |-> FALSE, queue |-> <<>>,
             pavail |-> QueueSize, handlers |-> global_orig_handlers]
  /\ pc = "outside" /\ unblocking = NotUnblocking
  /\ pending = {} /\ alive = TRUE /\ requests = 0 /\ changes = 0
  /\ section = 0 /\ handled = {} /\ arrived = <<>>
  /\ full = {} /\ dropped = {} /\ missed = FALSE /\ drained = FALSE

-----------------------------------------------------------------------------
(* zend_signal_handler_defer and zend_signal_handler.                      *)

\* Signals handled one after the other, up to one that ends the process.
Fatal(s) == SIGG.handlers[s] = "default"
Until(ss) ==
  IF \E i \in DOMAIN ss : Fatal(ss[i])
  THEN SubSeq(ss, 1, (CHOOSE i \in DOMAIN ss : Fatal(ss[i]) /\ \A j \in 1 .. i - 1 : ~Fatal(ss[j])))
  ELSE ss

Handle(ss) ==
  /\ handled' = handled \cup Range(Until(ss))
  /\ alive' = ~\E i \in DOMAIN ss : Fatal(ss[i])

Enqueue(s) ==
  SIGG' = [SIGG EXCEPT !.blocked = TRUE, !.queue = Append(@, s), !.pavail = @ - 1]

\* Outside a request the handler runs at once.
RunDirectly(s) ==
  /\ ~SIGG.active
  /\ Handle(<<s>>)
  /\ UNCHANGED <<SIGG, full, drained>>

\* Slip: the depth is not asked.
RunAndDrain_AnyDepth(s) ==
  /\ SIGG.active
  /\ Handle(<<s>> \o SIGG.queue)
  /\ SIGG' = [SIGG EXCEPT !.blocked = FALSE, !.queue = <<>>, !.pavail = @ + Len(SIGG.queue)]
  /\ UNCHANGED <<full, drained>>

\* Slip: the entries of the queue are not given back.
RunAndDrain_Leak(s) ==
  /\ SIGG.active /\ SIGG.depth = 0
  /\ Handle(<<s>> \o SIGG.queue)
  /\ SIGG' = [SIGG EXCEPT !.blocked = FALSE, !.queue = <<>>]
  /\ drained' = (drained \/ (pc \in {"unblock_compare", "unblock"} /\ SIGG.queue # <<>>))
  /\ UNCHANGED full

\* Outside a section the handler runs, and so do those of the queue, first in
\* first out.  SIGG(running) is clear: the handler has not interrupted itself.
RunAndDrain(s) ==
  /\ SIGG.active /\ SIGG.depth = 0
  /\ Handle(<<s>> \o SIGG.queue)
  /\ SIGG' = [SIGG EXCEPT !.blocked = FALSE, !.queue = <<>>, !.pavail = @ + Len(SIGG.queue)]
  /\ drained' = (drained \/ (pc \in {"unblock_compare", "unblock"} /\ SIGG.queue # <<>>))
  /\ UNCHANGED full

\* In a section it waits in the queue; if that is full, it is forgotten.
Defer(s) ==
  /\ SIGG.active /\ SIGG.depth > 0
  /\ \/ SIGG.pavail > 0 /\ Enqueue(s) /\ UNCHANGED full
     \/ /\ SIGG.pavail = 0
        /\ SIGG' = [SIGG EXCEPT !.blocked = TRUE]
        /\ full' = full \cup {s}
  /\ UNCHANGED <<handled, alive, drained>>

\* The kernel delivers a signal unless the program has masked it: between
\* SIGNAL_BEGIN_CRITICAL and SIGNAL_END_CRITICAL.
Deliver(s) ==
  /\ s \in pending /\ pc \notin {"dequeue", "crashed"}
  /\ pending' = pending \ {s}
  /\ arrived' = Append(arrived, s)
  /\ RunDirectly(s) \/ RunAndDrain(s) \/ Defer(s)
  /\ missed' = (missed \/ (SIGG.active /\ SIGG.depth > 0 /\ unblocking.blocked = "clear"))
  /\ UNCHANGED <<setup, pc, unblocking, requests, section, dropped>>

Send(s) ==
  /\ requests > 0 /\ s \notin pending /\ s \notin Range(arrived)
  /\ kernel[s] = "defer"
  /\ pending' = pending \cup {s}
  /\ UNCHANGED <<SIGG, setup, pc, unblocking, alive, requests, signalHistory>>

-----------------------------------------------------------------------------
(* Sections.                                                               *)

Block ==
  /\ pc = "run" /\ SIGG.depth < MaxNesting
  /\ SIGG' = [SIGG EXCEPT !.depth = @ + 1]
  /\ section' = section + 1
  /\ UNCHANGED <<setup, pc, unblocking, pending, alive, requests,
                 handled, arrived, full, dropped, missed, drained>>

Flag == IF SIGG.blocked THEN "set" ELSE "clear"

\* (SIGG(depth)--) == SIGG(blocked): C does not say whether blocked is read
\* before depth is stored, or after.
UnblockRead ==
  /\ pc = "run" /\ section > 0
  /\ \E b \in {Flag, "unread"} : unblocking' = [depth |-> SIGG.depth, blocked |-> b]
  /\ pc' = "unblock_store"
  /\ UNCHANGED <<SIGG, setup, pending, alive, requests, signalHistory>>

UnblockStore ==
  /\ pc = "unblock_store"
  /\ SIGG' = [SIGG EXCEPT !.depth = unblocking.depth - 1]
  /\ section' = section - 1
  /\ pc' = "unblock_compare"
  /\ UNCHANGED <<setup, unblocking, pending, alive, requests,
                 handled, arrived, full, dropped, missed, drained>>

\* blocked is 0 or 1: the outermost section ends and signals are waiting.
UnblockCompare ==
  /\ pc = "unblock_compare"
  /\ LET blocked == IF unblocking.blocked = "unread" THEN Flag ELSE unblocking.blocked
         equal   == unblocking.depth = (IF blocked = "set" THEN 1 ELSE 0)
     IN pc' = IF equal THEN "unblock" ELSE "run"
  /\ unblocking' = NotUnblocking
  /\ UNCHANGED <<SIGG, setup, pending, alive, requests, signalHistory>>

\* zend_signal_handler_unblock masks the signals; until then they arrive.
UnblockMask ==
  /\ pc = "unblock"
  /\ pc' = "dequeue"
  /\ UNCHANGED <<SIGG, setup, unblocking, pending, alive, requests, signalHistory>>

\* It takes the first entry and calls zend_signal_handler_defer with it, which
\* takes the others.
Dequeue ==
  /\ pc = "dequeue" /\ SIGG.queue # <<>>
  /\ Handle(SIGG.queue)
  /\ SIGG' = [SIGG EXCEPT !.blocked = FALSE, !.queue = <<>>, !.pavail = @ + Len(SIGG.queue)]
  /\ pc' = "run"
  /\ UNCHANGED <<setup, unblocking, pending, requests, section, arrived, full, dropped, missed, drained>>

\* With an empty queue phead is NULL, and it is dereferenced.
DequeueNothing ==
  /\ pc = "dequeue" /\ SIGG.queue = <<>>
  /\ pc' = "crashed"
  /\ UNCHANGED <<SIGG, setup, unblocking, pending, alive, requests, signalHistory>>

-----------------------------------------------------------------------------
(* Requests.                                                               *)

\* zend_signal_activate: the handlers are those found at startup again, but
\* for a signal the kernel was told to ignore (zend_signal_register).
Activate ==
  /\ pc = "outside" /\ requests < MaxRequests
  /\ SIGG' = [SIGG EXCEPT
       !.active = TRUE, !.depth = 0,
       !.handlers = [s \in zend_sigs |->
                       IF kernel[s] = "ignore" THEN "ignore" ELSE global_orig_handlers[s]]]
  /\ kernel' = [s \in zend_sigs |-> "defer"]
  /\ requests' = requests + 1
  /\ missed' = FALSE /\ drained' = FALSE
  /\ pc' = "run"
  /\ UNCHANGED <<global_orig_handlers, changes, unblocking, pending, alive,
                 section, handled, arrived, full, dropped>>

\* zend_sigaction: the handler, and whether the kernel ignores the signal.
Sigaction(s, h) ==
  /\ pc = "run" /\ changes < MaxChanges
  /\ changes' = changes + 1
  /\ SIGG' = [SIGG EXCEPT !.handlers[s] = h]
  /\ kernel' = [kernel EXCEPT ![s] = IF h = "ignore" THEN "ignore" ELSE "defer"]
  /\ pending' = IF h = "ignore" THEN pending \ {s} ELSE pending
  /\ UNCHANGED <<global_orig_handlers, pc, unblocking, alive, requests, signalHistory>>

\* A jump out of the program leaves its sections without their end.
Bailout ==
  /\ pc = "run" /\ section > 0
  /\ section' = 0 /\ missed' = TRUE
  /\ UNCHANGED <<SIGG, setup, pc, unblocking, pending, alive, requests,
                 handled, arrived, full, dropped, drained>>

\* zend_signal_deactivate.  From its first step on the handlers run directly
\* and leave the rest alone.
Deactivate ==
  /\ pc = "run" /\ section = 0
  /\ SIGG' = [SIGG EXCEPT !.active = FALSE]
  /\ pc' = "deactivated"
  /\ UNCHANGED <<setup, unblocking, pending, alive, requests, signalHistory>>

DeactivateReset ==
  /\ pc = "deactivated"
  /\ SIGG' = [SIGG EXCEPT !.blocked = FALSE, !.depth = 0]
  /\ pc' = "splice"
  /\ UNCHANGED <<setup, unblocking, pending, alive, requests, signalHistory>>

\* The entries of the queue are available again, the list first, then the queue.
DeactivateSplice ==
  /\ pc = "splice"
  /\ SIGG' = [SIGG EXCEPT !.pavail = @ + Len(SIGG.queue)]
  /\ dropped' = dropped \cup Queued
  /\ pc' = "empty"
  /\ UNCHANGED <<setup, unblocking, pending, alive, requests,
                 section, handled, arrived, full, missed, drained>>

DeactivateEmpty ==
  /\ pc = "empty"
  /\ SIGG' = [SIGG EXCEPT !.queue = <<>>]
  /\ pc' = "outside"
  /\ UNCHANGED <<setup, unblocking, pending, alive, requests, signalHistory>>

-----------------------------------------------------------------------------
SignalProgram ==
  \/ Activate
  \/ Block
  \/ UnblockRead \/ UnblockStore \/ UnblockCompare
  \/ UnblockMask \/ Dequeue \/ DequeueNothing
  \/ \E s \in zend_sigs, h \in NewHandler : Sigaction(s, h)
  \/ Bailout
  \/ Deactivate \/ DeactivateReset \/ DeactivateSplice \/ DeactivateEmpty

SignalNext ==
  /\ alive
  /\ SignalProgram \/ \E s \in zend_sigs : Deliver(s) \/ Send(s)

\* A section that has begun is finished, the outermost one too whatever
\* sections the program begins and ends in it: sections are short and do not
\* wait.
Ending == \/ UnblockRead \/ UnblockStore \/ UnblockCompare \/ UnblockMask
          \/ Dequeue \/ DequeueNothing
SignalFairness ==
  /\ WF_signalVars(alive /\ Ending)
  /\ SF_signalVars(alive /\ section = 1 /\ UnblockRead)

SignalSpec == SignalInit /\ [][SignalNext]_signalVars /\ SignalFairness

-----------------------------------------------------------------------------
(* Properties.                                                             *)

\* No entry of the queue's storage is lost or counted twice, wherever in the
\* program a signal of zend_sigs comes (zend_signal.c:115, 126, 165, 366): the
\* next request can defer as many signals as the first.
StorageConserved ==
  pc # "empty" => SIGG.pavail + Len(SIGG.queue) = QueueSize

\* A signal of zend_sigs that reached the process has been handled, waits, found the queue
\* full, or was dropped by the end of a request, and that only if a section
\* was left without its end or the end read blocked too early ("because of a
\* missed unblock", zend_signal.c:364).
SignalsKept ==
  /\ alive => Range(arrived) = handled \cup Queued \cup full \cup dropped
  /\ pc = "splice" /\ SIGG.queue # <<>> => missed
  /\ full # {} => Cardinality(Range(arrived)) > QueueSize

\* A handler never runs inside a section of the running request, however the
\* sections nest and wherever the signal comes (zend_signal.c:101, 122).
NoHandlerInSection == [][SIGG.active /\ handled' # handled => section = 0]_signalVars

\* Deferred signals are handled in the order they came (zend_signal.c:109, 132).
InOrder ==
  \A i, j \in DOMAIN SIGG.queue :
    i < j => SelectInSeq(arrived, LAMBDA s : s = SIGG.queue[i])
               < SelectInSeq(arrived, LAMBDA s : s = SIGG.queue[j])

\* The end of a section finds a signal in the queue unless, after the section
\* had ended and before the signals were masked, another signal had emptied
\* it (zend_signal.c:162, which does not ask).
CrashOnlyIfDrained == pc = "crashed" => drained

\* What was deferred is handled once the section ends, unless the process has
\* ended or the end of the section was missed (zend_signal.c:169).
DeferredRuns ==
  Queued # {} ~> Queued = {} \/ ~alive \/ pc = "crashed" \/ missed

\* The queue of deferred signals is in order wherever in the program the
\* signals come, as long as they are signals of zend_sigs, which do not
\* interrupt each other's handlers (zend_signal.c:74, 421): its storage, what
\* is in it, the order, and that it is not read empty.
SignalQueueOK == StorageConserved /\ SignalsKept /\ InOrder /\ CrashOnlyIfDrained

\* A signal of zend_sigs that comes in a section is handled after it: not in
\* it, and not never.
SignalsDeferred == NoHandlerInSection /\ DeferredRuns
=============================================================================
