------------------------------- MODULE Pcntl -------------------------------
(***************************************************************************)
(* Signal handlers written in PHP (src/ext/pcntl/pcntl.c).  The C handler  *)
(* may not allocate memory: it moves a record from a list of spare ones to *)
(* the end of a queue, and asks the virtual machine to come by.  The       *)
(* dispatcher takes the queue, with all signals masked, and calls the PHP  *)
(* handlers, each of which may return, throw, end the request, register    *)
(* another handler or change the mask.                                     *)
(*                                                                         *)
(* The lists are modelled with their pointers, as the C handler comes      *)
(* between any two stores of the program.  One signal number is modelled,  *)
(* and the occurrences of it told apart.                                   *)
(***************************************************************************)
EXTENDS Integers, FiniteSets, Sequences, SequencesExt

CONSTANTS
  Record,       \* bound: struct php_pcntl_pending_signal's there is memory for
  num_signals,  \* PCNTL_G(num_signals): records allocated at a time
  MaxSent       \* bound: signals sent in a request

ASSUME PcntlAssumption ==
  /\ IsFiniteSet(Record) /\ "NULL" \notin Record
  /\ num_signals \in Nat \ {0} /\ MaxSent \in Nat

VARIABLES
  next, signo,               \* of a record; signo is the occurrence
  head, tail, spares,        \* PCNTL_G(head), ...
  pending_signals, async_signals, processing_signal_queue,
  php_signal_table,          \* the handler: "none", "callable", SIG_DFL or
                             \* SIG_IGN ("long")
  vm_interrupt,
  fresh,                     \* memory not allocated yet
  masked,                    \* are signals blocked?
  queue, old_mask,           \* locals of pcntl_signal_dispatch
  handler_threw, psig,
  left, from,                \* of pcntl_signal: how many records it still
                             \* allocates, and where it was called
  at,                        \* where the program is
  \* history, read by the properties only
  sent,                      \* signals delivered so far
  called,                    \* those whose handler was called, in that order
  without,                   \* those that found no spare record
  skipped,                   \* those that found no handler when dispatched
  asked,                     \* those that asked for an interrupt, since
                             \* asynchronous signals are on
  marred                     \* "raced": a signal came while a new record was
                             \* being put into a list that was not empty;
                             \* "unmasked": a handler has unblocked signals;
                             \* "bailout": a handler was left by a bailout

lists    == <<next, signo, head, tail, spares, fresh>>
flagVars == <<pending_signals, processing_signal_queue, vm_interrupt>>
setVars  == <<async_signals, php_signal_table>>
local    == <<queue, old_mask, psig, left, from, handler_threw>>
record   == <<sent, called, without, skipped, asked, marred>>
pcntlVars == <<lists, flagVars, setVars, masked, local, at, record>>

Pointer == Record \cup {"NULL"}

\* The list that starts at p; a list that comes back to itself is cut there.
List(p) ==
  LET walk[i \in 0 .. Cardinality(Record)] ==
        IF i = 0 THEN <<>>
        ELSE LET s == walk[i - 1]
                 r == IF s = <<>> THEN p ELSE next[Last(s)]
             IN IF r = "NULL" \/ r \in Range(s) THEN s ELSE Append(s, r)
  IN walk[Cardinality(Record)]

PcntlTypeOK ==
  /\ next \in [Record -> Pointer] /\ signo \in [Record -> 0 .. MaxSent]
  /\ {head, tail, spares, queue, psig} \subseteq Pointer
  /\ {pending_signals, async_signals, processing_signal_queue, vm_interrupt, masked,
      old_mask, handler_threw} \subseteq BOOLEAN
  /\ php_signal_table \in {"none", "callable", "long"}
  /\ fresh \subseteq Record /\ left \in 0 .. num_signals
  /\ from \in {"run", "handler"}
  /\ at \in {"run", "interrupt", "link", "store", "install", "play", "handler",
             "give_back", "give_back_store"}
  /\ sent \in 0 .. MaxSent /\ asked \subseteq 1 .. sent
  /\ marred \subseteq {"raced", "unmasked", "bailout"}
  /\ marred = {} /\ processing_signal_queue => masked
  /\ marred = {} => /\ head = "NULL" <=> tail = "NULL"
                    /\ head # "NULL" => tail = Last(List(head))
                    /\ queue # "NULL" => head = "NULL"

\* The request begins (PHP_RINIT_FUNCTION).
PcntlInit ==
  /\ next = [r \in Record |-> "NULL"] /\ signo = [r \in Record |-> 0]
  /\ head = "NULL" /\ tail = "NULL" /\ spares = "NULL" /\ fresh = Record
  /\ pending_signals = FALSE /\ async_signals = FALSE /\ processing_signal_queue = FALSE
  /\ vm_interrupt = FALSE /\ php_signal_table = "none" /\ masked = FALSE
  /\ queue = "NULL" /\ old_mask = FALSE /\ psig = "NULL" /\ left = 0 /\ from = "run"
  /\ handler_threw = FALSE /\ at = "run"
  /\ sent = 0 /\ called = <<>> /\ without = {} /\ skipped = {} /\ asked = {} /\ marred = {}

-----------------------------------------------------------------------------
(* pcntl_signal_handler.                                                   *)

\* The record goes to the end of the queue.
EnqueueRecord(r) ==
  /\ next' = [q \in Record |-> IF head # "NULL" /\ tail # "NULL" /\ q = tail THEN r
                               ELSE IF q = r THEN "NULL" ELSE next[q]]
  /\ head' = IF head # "NULL" /\ tail # "NULL" THEN head ELSE r
  /\ tail' = r

pcntl_signal_handler ==
  /\ php_signal_table = "callable" /\ ~masked /\ sent < MaxSent
  /\ sent' = sent + 1
  /\ \/ /\ spares = "NULL"
        /\ without' = without \cup {sent + 1}
        /\ UNCHANGED <<lists, pending_signals, vm_interrupt, asked, marred>>
     \/ /\ spares # "NULL"
        /\ spares' = next[spares]
        /\ signo' = [signo EXCEPT ![spares] = sent + 1]
        /\ EnqueueRecord(spares)
        /\ pending_signals' = TRUE
        /\ vm_interrupt' = (vm_interrupt \/ async_signals)
        /\ asked' = IF async_signals THEN asked \cup {sent + 1} ELSE asked
        /\ marred' = IF at \in {"store", "give_back_store"}
                     THEN marred \cup {"raced"} ELSE marred
        /\ UNCHANGED <<fresh, without>>
  /\ UNCHANGED <<processing_signal_queue, setVars, masked, local, at, called, skipped>>

-----------------------------------------------------------------------------
(* PHP_FUNCTION(pcntl_signal), called by the program or a handler.         *)

CallSignal ==
  /\ at \in {"run", "handler"}
  /\ from' = at
  /\ \/ spares # "NULL" /\ at' = "install" /\ UNCHANGED left
     \/ /\ spares = "NULL" /\ Cardinality(fresh) >= num_signals
        /\ at' = "link" /\ left' = num_signals
  /\ UNCHANGED <<lists, flagVars, setVars, masked, queue, old_mask, psig, handler_threw, record>>

\* psig = emalloc(); psig->next = PCNTL_G(spares).
AllocLink ==
  /\ at = "link"
  /\ LET r == CHOOSE r \in fresh : TRUE IN
     /\ psig' = r /\ fresh' = fresh \ {r}
     /\ next' = [next EXCEPT ![r] = spares]
  /\ at' = "store"
  /\ UNCHANGED <<signo, head, tail, spares, flagVars, setVars, masked, queue, old_mask, left, from,
                 handler_threw, record>>

\* PCNTL_G(spares) = psig.
AllocStore ==
  /\ at = "store"
  /\ spares' = psig /\ psig' = "NULL" /\ left' = left - 1
  /\ at' = IF left = 1 THEN "install" ELSE "link"
  /\ UNCHANGED <<next, signo, head, tail, fresh, flagVars, setVars, masked, queue, old_mask, from,
                 handler_threw, record>>

Install ==
  /\ at = "install"
  /\ php_signal_table' \in {"callable", "long"}
  /\ at' = from /\ from' = "run"
  /\ UNCHANGED <<lists, flagVars, async_signals, masked, queue, old_mask, psig, left,
                 handler_threw, record>>

\* pcntl_async_signals.
Async ==
  /\ at \in {"run", "handler"}
  /\ async_signals' = ~async_signals
  /\ asked' = IF async_signals THEN {} ELSE asked
  /\ UNCHANGED <<lists, flagVars, php_signal_table, masked, local, at, sent, called, without,
                 skipped, marred>>

\* pcntl_sigprocmask.
Sigprocmask ==
  /\ at \in {"run", "handler"}
  /\ masked' = ~masked
  /\ marred' = IF at = "handler" /\ masked THEN marred \cup {"unmasked"} ELSE marred
  /\ UNCHANGED <<lists, flagVars, setVars, local, at, sent, called, without, skipped, asked>>

-----------------------------------------------------------------------------
(* pcntl_signal_dispatch.                                                  *)

\* The virtual machine clears the flag, then calls the interrupt function.
Interrupt ==
  /\ at = "run" /\ vm_interrupt
  /\ vm_interrupt' = FALSE /\ at' = "interrupt"
  /\ UNCHANGED <<lists, pending_signals, processing_signal_queue, setVars, masked, local, record>>

\* So it does in a handler, where the dispatcher returns at once.
InterruptInHandler ==
  /\ at = "handler" /\ vm_interrupt
  /\ vm_interrupt' = FALSE
  /\ UNCHANGED <<lists, pending_signals, processing_signal_queue, setVars, masked, local, at, record>>

CanDispatch == pending_signals /\ head # "NULL" /\ ~processing_signal_queue

\* Slip: the end of the queue is kept.
Dispatch_KeepsTail ==
  /\ at \in {"run", "interrupt"} /\ CanDispatch
  /\ old_mask' = masked /\ masked' = TRUE /\ processing_signal_queue' = TRUE
  /\ queue' = head /\ head' = "NULL"
  /\ at' = "play"
  /\ UNCHANGED <<next, signo, spares, tail, fresh, pending_signals, vm_interrupt, setVars,
                 psig, left, from, handler_threw, record>>

\* Called by the interrupt, a tick or the program.
Dispatch ==
  /\ at \in {"run", "interrupt"} /\ CanDispatch
  /\ old_mask' = masked /\ masked' = TRUE /\ processing_signal_queue' = TRUE
  /\ queue' = head /\ head' = "NULL" /\ tail' = "NULL"
  /\ at' = "play"
  /\ UNCHANGED <<next, signo, spares, fresh, pending_signals, vm_interrupt, setVars,
                 psig, left, from, handler_threw, record>>

NothingToDispatch ==
  /\ at = "interrupt" /\ ~CanDispatch
  /\ at' = "run"
  /\ UNCHANGED <<lists, flagVars, setVars, masked, local, record>>

\* The next signal's handler, if it still has one.
Play ==
  /\ at = "play" /\ queue # "NULL" /\ ~handler_threw
  /\ \/ /\ php_signal_table = "callable"
        /\ called' = Append(called, signo[queue])
        /\ at' = "handler" /\ UNCHANGED skipped
     \/ /\ php_signal_table # "callable"
        /\ skipped' = skipped \cup {signo[queue]}
        /\ at' = "give_back" /\ UNCHANGED called
  /\ UNCHANGED <<lists, flagVars, setVars, masked, local, sent, without, asked, marred>>

HandlerEnds ==
  /\ at = "handler"
  /\ handler_threw' \in BOOLEAN
  /\ at' = "give_back"
  /\ UNCHANGED <<lists, flagVars, setVars, masked, queue, old_mask, psig, left, from, record>>

\* A fatal error in the handler jumps over the rest of the dispatcher.
HandlerBailout ==
  /\ at = "handler"
  /\ at' = "run" /\ queue' = "NULL" /\ old_mask' = FALSE
  /\ marred' = marred \cup {"bailout"}
  /\ UNCHANGED <<lists, flagVars, setVars, masked, psig, left, from, handler_threw,
                 sent, called, without, skipped, asked>>

\* next = queue->next; queue->next = PCNTL_G(spares).
GiveBackLink ==
  /\ at = "give_back"
  /\ next' = [next EXCEPT ![queue] = spares]
  /\ psig' = queue /\ queue' = next[queue]
  /\ at' = "give_back_store"
  /\ UNCHANGED <<signo, head, tail, spares, fresh, flagVars, setVars, masked, old_mask, left,
                 from, handler_threw, record>>

\* PCNTL_G(spares) = queue.  What a spare record says does not matter.
GiveBackStore ==
  /\ at = "give_back_store"
  /\ spares' = psig /\ psig' = "NULL"
  /\ signo' = [signo EXCEPT ![psig] = 0]
  /\ at' = "play"
  /\ UNCHANGED <<next, head, tail, fresh, flagVars, setVars, masked, queue, old_mask,
                 left, from, handler_threw, record>>

Stopped == at = "play" /\ (queue = "NULL" \/ handler_threw)

Leave ==
  /\ processing_signal_queue' = FALSE /\ masked' = old_mask
  /\ queue' = "NULL" /\ old_mask' = FALSE /\ handler_threw' = FALSE
  /\ at' = "run"
  /\ UNCHANGED <<next, signo, spares, fresh, setVars, psig, left, from,
                 sent, called, without, asked, marred>>

Played ==
  /\ Stopped /\ queue = "NULL"
  /\ pending_signals' = FALSE
  /\ Leave
  /\ UNCHANGED <<head, tail, vm_interrupt, skipped>>

\* Slip: the rest is put back, but nobody is told.
PutBack_NotAsked ==
  /\ Stopped /\ queue # "NULL"
  /\ head' = queue /\ tail' = Last(List(queue))
  /\ Leave
  /\ UNCHANGED <<pending_signals, vm_interrupt, skipped>>

\* Slip: the rest of the queue goes with the exception.
PutBack_Dropped ==
  /\ Stopped /\ queue # "NULL"
  /\ Leave
  /\ UNCHANGED <<head, tail, pending_signals, vm_interrupt, skipped>>

\* What the handler that threw did not let run is the queue again.
PutBack ==
  /\ Stopped /\ queue # "NULL"
  /\ head' = queue /\ tail' = Last(List(queue))
  /\ vm_interrupt' = (vm_interrupt \/ async_signals)
  /\ Leave
  /\ UNCHANGED <<pending_signals, skipped>>

-----------------------------------------------------------------------------
\* The request ends and the next one begins (PHP_RSHUTDOWN_FUNCTION,
\* PHP_RINIT_FUNCTION): flags of the dispatcher and the mask are not reset.
NextRequest ==
  /\ at = "run"
  /\ skipped' = skipped \cup {signo[r] : r \in Range(List(head))}
  /\ next' = [r \in Record |-> "NULL"] /\ signo' = [r \in Record |-> 0]
  /\ head' = "NULL" /\ tail' = "NULL" /\ spares' = "NULL" /\ fresh' = Record
  /\ async_signals' = FALSE /\ php_signal_table' = "none" /\ vm_interrupt' = FALSE
  /\ UNCHANGED <<pending_signals, processing_signal_queue, masked, local, at, sent, called,
                 without, asked, marred>>

pcntl_signal == AllocLink \/ AllocStore \/ Install

pcntl_signal_dispatch == Play \/ GiveBackLink \/ GiveBackStore \/ Played \/ PutBack

\* A list that was raced for is not followed any further.
PcntlNext ==
  /\ "raced" \notin marred
  /\ \/ CallSignal \/ pcntl_signal \/ Async \/ Sigprocmask \/ NextRequest
     \/ Interrupt \/ InterruptInHandler \/ Dispatch \/ NothingToDispatch
     \/ pcntl_signal_dispatch \/ HandlerEnds \/ HandlerBailout
     \/ pcntl_signal_handler

\* The virtual machine looks at vm_interrupt at every jump and call, and
\* handlers end.
PcntlFairness ==
  /\ WF_pcntlVars(pcntl_signal \/ pcntl_signal_dispatch
                    \/ (at = "interrupt" /\ (Dispatch \/ NothingToDispatch)))
  /\ SF_pcntlVars(Interrupt \/ HandlerEnds)

PcntlSpec == PcntlInit /\ [][PcntlNext]_pcntlVars /\ PcntlFairness

-----------------------------------------------------------------------------
(* Properties.                                                             *)

\* Whatever comes between two stores of the program, every record there is is
\* in one place: in the queue, among the spare ones, with the dispatcher or in
\* the hands of pcntl_signal.  Not so when a signal comes while a list is
\* built, or the dispatcher was left by a bailout (pcntl.c:770, 1394).
RecordsOnce ==
  marred = {} =>
    LET held == IF psig = "NULL" THEN <<>> ELSE <<psig>>
        all  == List(head) \o List(spares) \o List(queue) \o held
    IN IsInjective(all) /\ Range(all) = Record \ fresh

\* A queue that is not empty is marked as such: the dispatcher will look at it
\* (pcntl.c:1330, 1433).
PendingMarked == marred = {} /\ head # "NULL" => pending_signals

\* Every signal had its handler called, or is in the queue, or found no spare
\* record or no handler; an exception in a handler loses none (pcntl.c:1417).
SignalsAccounted ==
  marred = {} =>
    1 .. sent = Range(called) \cup without \cup skipped
                  \cup {signo[r] : r \in Range(List(head)) \cup Range(List(queue))}

\* No handler is called twice for a signal, and they are called in the order
\* the signals came, over exceptions, masks and requests too (pcntl.c:1308).
CalledInOrder ==
  marred \subseteq {"bailout"} => \A i, j \in DOMAIN called : i < j => called[i] < called[j]

\* The handlers of signals that came while asynchronous signals were on are
\* called without the program doing anything for it, even if one before them
\* throws, unless they are turned off (pcntl.c:1316, 1431).
AsyncCalled ==
  asked # {} ~> asked \subseteq Range(called) \cup skipped \/ marred # {}

\* The lists of pcntl are in order between any two stores of the program and
\* whatever handlers do: every record is in one place, every signal is called
\* once and in order, and what waits is marked.
PcntlQueueOK == RecordsOnce /\ PendingMarked /\ SignalsAccounted /\ CalledInOrder
=============================================================================
