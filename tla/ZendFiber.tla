------------------------------ MODULE ZendFiber ------------------------------
(***************************************************************************)
(* Fibers (src/Zend/zend_fibers.c): contexts with a C stack of their own,  *)
(* of which one runs.  start, resume and throw switch to a fiber and make  *)
(* the present context its caller; suspend, the end of the fiber, an       *)
(* exception or a fatal error switch back to the caller.  A fiber that is  *)
(* freed while it is suspended is resumed once more with an exception      *)
(* nobody can catch, to unwind its stack.                                  *)
(*                                                                         *)
(* zend_fiber_switch_context is one step up to jump_fcontext, and Land...  *)
(* what the other side does when the jump arrives.  The program is any: in *)
(* each context it may throw, catch, return, call exit(), block switching  *)
(* around a callback and free any fiber it can.                            *)
(***************************************************************************)
EXTENDS Integers, FiniteSets, Sequences, SequencesExt

CONSTANTS
  Fiber,         \* fiber objects
  Throwable,     \* exceptions, each thrown once at most
  MaxBlocking,   \* bound: callbacks that block switching, one in the other
  MayFail        \* may a stack fail to be mapped?

ASSUME FiberAssumption ==
  /\ IsFiniteSet(Fiber) /\ "main" \notin Fiber /\ "none" \notin Fiber
  /\ {"exit", "graceful"} \cap Throwable = {}
  /\ MaxBlocking \in Nat /\ MayFail \in BOOLEAN

VARIABLES
  status,     \* context->status
  stack,      \* context->stack
  caller,     \* fiber->caller
  flags,      \* fiber->flags
  current,    \* EG(current_fiber_context)
  active,     \* EG(active_fiber)
  exception,  \* EG(exception) and what it has for previous; {} = NULL
  frame,      \* frame[c]: where c waits in zend_fiber_switch_context
  transfer,   \* what the context switched to receives
  mode,       \* "run", "throw" (an exception is pending), "bailout",
              \* "landing" (a switch is under way)
  blocking,   \* zend_fiber_switch_blocking
  callbacks,  \* callbacks[c]: the blocking callbacks c is in, each the
              \* exception that was put aside for it
  destructed, \* fibers whose destructor is not called any more
  \* history, read by the properties only
  thrown,     \* exceptions thrown so far, and exit()
  settled,    \* exceptions caught, reported or given up for an exit
  fatal       \* there was a fatal error

contextVars  == <<status, stack, caller, flags>>
blockVars    == <<blocking, callbacks, destructed>>
fiberHistory  == <<thrown, settled, fatal>>
fiberVars == <<contextVars, current, active, exception, frame, transfer, mode,
          blockVars, fiberHistory>>

Context   == Fiber \cup {"main"}
Exception == Throwable \cup {"exit", "graceful"}
Special(e) == e \cap {"exit", "graceful"} # {}

NoFrame == [op |-> "none", fiber |-> "none", previous |-> "none", saved |-> {}]
Frame == [op : {"none", "resume", "suspend", "destroy"},
          fiber : Fiber \cup {"none"}, previous : Fiber \cup {"none"},
          saved : SUBSET Exception]
NoTransfer == [from |-> "none", flag |-> "none", value |-> {}]

FiberTypeOK ==
  /\ status \in [Context -> {"init", "running", "suspended", "dead"}]
  /\ stack \in [Fiber -> {"none", "mapped", "freed"}]
  /\ caller \in [Fiber -> Context \cup {"none"}]
  /\ flags \in [Fiber -> SUBSET {"THREW", "BAILOUT", "DESTROYED"}]
  /\ current \in Context /\ active \in Fiber \cup {"none"}
  /\ exception \in SUBSET Exception
  /\ frame \in [Context -> Frame]
  /\ transfer \in [from : Context \cup {"none"}, flag : {"none", "ERROR", "BAILOUT"},
                   value : SUBSET Exception]
  /\ mode \in {"run", "throw", "bailout", "landing"}
  /\ mode = "throw" <=> exception # {}
  /\ blocking \in Nat /\ destructed \subseteq Fiber
  /\ callbacks \in [Context -> Seq(SUBSET Exception)]
  /\ thrown \in SUBSET Exception /\ settled \in SUBSET Exception /\ fatal \in BOOLEAN

\* zend_fiber_init.
FiberInit ==
  /\ status = [c \in Context |-> IF c = "main" THEN "running" ELSE "init"]
  /\ stack = [f \in Fiber |-> "none"]
  /\ caller = [f \in Fiber |-> "none"] /\ flags = [f \in Fiber |-> {}]
  /\ current = "main" /\ active = "none" /\ exception = {}
  /\ frame = [c \in Context |-> NoFrame]
  /\ transfer = NoTransfer /\ mode = "run"
  /\ blocking = 0 /\ callbacks = [c \in Context |-> <<>>] /\ destructed = {}
  /\ thrown = {} /\ settled = {} /\ fatal = FALSE

-----------------------------------------------------------------------------
(* Exceptions: zend_exceptions.c.                                          *)

\* zend_exception_set_previous: ex gets prev for its previous exception,
\* unless one of the two is an exit; then prev is given up.
Chain(ex, prev) == IF Special(ex) \/ Special(prev) THEN ex ELSE ex \cup prev

GivenUp(ex, prev) == (prev \ Chain(ex, prev)) \cap Throwable

\* The program goes on with what is pending now.
Pending(ex) == exception' = ex /\ mode' = IF ex = {} THEN "run" ELSE "throw"

\* A new exception.  They are all alike: which one it is does not matter.
NewException ==
  {e \in Throwable : e \notin thrown /\ e = CHOOSE x \in Throwable \ thrown : TRUE}

\* The program throws, or a call it makes is refused; exit() throws too.
Throw ==
  /\ mode = "run"
  /\ \E e \in NewException \cup ({"exit"} \ thrown) :
       /\ thrown' = thrown \cup {e} /\ exception' = {e}
  /\ mode' = "throw"
  /\ UNCHANGED <<contextVars, current, active, frame, transfer, blockVars, settled, fatal>>

\* It catches, or a finally block returns, which ends a graceful exit too;
\* nothing ends an exit().
Catch ==
  /\ mode = "throw" /\ "exit" \notin exception
  /\ settled' = settled \cup exception
  /\ exception' = {} /\ mode' = "run"
  /\ UNCHANGED <<contextVars, current, active, frame, transfer, blockVars, thrown, fatal>>

\* A fatal error (php_error_cb): no object there is now is destructed any more.
FatalError ==
  /\ mode = "run" /\ ~fatal
  /\ mode' = "bailout" /\ fatal' = TRUE
  /\ destructed' = {f \in Fiber : status[f] # "init"}
  /\ UNCHANGED <<contextVars, current, active, exception, frame, transfer, blocking,
                 callbacks, thrown, settled>>

\* The main program ends: an exception nobody has caught is reported.  Shutdown
\* functions and, unless there was a fatal error, destructors run.
MainEnds ==
  /\ current = "main"
  /\ \/ mode = "throw" /\ callbacks["main"] = <<>>
     \/ mode = "bailout"
  /\ mode' = "run" /\ exception' = {} /\ settled' = settled \cup exception
  /\ callbacks' = [callbacks EXCEPT !["main"] = <<>>]
  /\ UNCHANGED <<contextVars, current, active, frame, transfer, blocking, destructed,
                 thrown, fatal>>

-----------------------------------------------------------------------------
(* Switching.                                                              *)

\* From the present context to another, which is sent a value; st is the
\* status of the contexts by then.
zend_fiber_switch_context(to, st, flag, value) ==
  /\ status' = [st EXCEPT ![to] = "running",
                          ![current] = IF @ = "running" THEN "suspended" ELSE @]
  /\ transfer' = [from |-> current, flag |-> flag, value |-> value]
  /\ current' = to /\ mode' = "landing"

\* The present context resumes fiber f and waits for it in frame op.
zend_fiber_resume_internal(f, op, flag, value) ==
  /\ caller' = [caller EXCEPT ![f] = current]
  /\ active' = f
  /\ frame' = [frame EXCEPT ![current] =
                 [op |-> op, fiber |-> f, previous |-> active, saved |-> exception]]
  /\ exception' = {}
  /\ zend_fiber_switch_context(f, status, flag, value)

\* Fiber::start.
Start(f) ==
  /\ mode = "run" /\ blocking = 0 /\ status[f] = "init"
  /\ stack' = [stack EXCEPT ![f] = "mapped"]
  /\ zend_fiber_resume_internal(f, "resume", "none", {})
  /\ UNCHANGED <<flags, blockVars, fiberHistory>>

\* zend_fiber_stack_allocate throws; the fiber can be started again.
StartFail(f) ==
  /\ MayFail /\ mode = "run" /\ blocking = 0 /\ status[f] = "init"
  /\ \E e \in NewException : exception' = {e} /\ thrown' = thrown \cup {e}
  /\ mode' = "throw"
  /\ UNCHANGED <<contextVars, current, active, frame, transfer, blockVars, settled, fatal>>

CanResume(f) ==
  mode = "run" /\ blocking = 0 /\ status[f] = "suspended" /\ caller[f] = "none"

\* Fiber::resume.
Resume(f) ==
  /\ CanResume(f)
  /\ zend_fiber_resume_internal(f, "resume", "none", {})
  /\ UNCHANGED <<stack, flags, blockVars, fiberHistory>>

\* Fiber::throw.
ThrowInto(f) ==
  /\ CanResume(f)
  /\ \E e \in NewException :
       /\ thrown' = thrown \cup {e}
       /\ zend_fiber_resume_internal(f, "resume", "ERROR", {e})
  /\ UNCHANGED <<stack, flags, blockVars, settled, fatal>>

\* Slip: a fiber that is being destroyed may suspend.
CanSuspend_Destroyed == mode = "run" /\ active # "none" /\ blocking = 0

CanSuspend ==
  /\ mode = "run" /\ active # "none" /\ blocking = 0
  /\ "DESTROYED" \notin flags[active]

\* Fiber::suspend.
Suspend ==
  /\ CanSuspend
  /\ caller' = [caller EXCEPT ![active] = "none"]
  /\ frame' = [frame EXCEPT ![current] =
                 [op |-> "suspend", fiber |-> active, previous |-> active, saved |-> {}]]
  /\ zend_fiber_switch_context(caller[active], status, "none", {})
  /\ UNCHANGED <<stack, flags, active, exception, blockVars, fiberHistory>>

\* Slip: the exception that is pending is not put aside.
Destroy_NotSaved(f) ==
  /\ mode \in {"run", "throw"} /\ f \notin destructed
  /\ status[f] = "suspended" /\ caller[f] = "none"
  /\ flags' = [flags EXCEPT ![f] = @ \cup {"DESTROYED"}]
  /\ caller' = [caller EXCEPT ![f] = current]
  /\ active' = f
  /\ frame' = [frame EXCEPT ![current] =
                 [op |-> "destroy", fiber |-> f, previous |-> active, saved |-> {}]]
  /\ exception' = {}
  /\ zend_fiber_switch_context(f, status, "ERROR", {"graceful"})
  /\ UNCHANGED <<stack, blockVars, fiberHistory>>

\* zend_fiber_object_destroy: the last reference to a suspended fiber goes,
\* at any moment, a blocked one or one with an exception pending included.  A
\* fiber with a caller is referenced by the call it waits in.
Destroy(f) ==
  /\ mode \in {"run", "throw"} /\ f \notin destructed
  /\ status[f] = "suspended" /\ caller[f] = "none"
  /\ flags' = [flags EXCEPT ![f] = @ \cup {"DESTROYED"}]
  /\ zend_fiber_resume_internal(f, "destroy", "ERROR", {"graceful"})
  /\ UNCHANGED <<stack, blockVars, fiberHistory>>

-----------------------------------------------------------------------------
(* zend_fiber_execute after the fiber's function has ended.                *)

\* The exit that unwinds a fiber being destroyed ends there, and so does an
\* exit() it calls.
SwallowedAtEnd(f) == "DESTROYED" \in flags[f] /\ Special(exception)

Ends(f, flag, value) ==
  /\ current = f /\ caller[f] # "none"
  /\ flags' = [flags EXCEPT ![f] = @ \cup
                 (CASE flag = "ERROR" -> {"THREW"} [] flag = "BAILOUT" -> {"BAILOUT"}
                    [] OTHER -> {})]
  /\ exception' = {}
  /\ zend_fiber_switch_context(caller[f], [status EXCEPT ![f] = "dead"], flag, value)
  /\ callbacks' = [callbacks EXCEPT ![f] = <<>>]
  /\ UNCHANGED <<stack, caller, active, frame, blocking, destructed, thrown, fatal>>

Returns(f) ==
  /\ mode = "run" /\ callbacks[f] = <<>>
  /\ Ends(f, "none", {}) /\ UNCHANGED settled

EndsSwallowing(f) ==
  /\ mode = "throw" /\ callbacks[f] = <<>> /\ SwallowedAtEnd(f)
  /\ Ends(f, "none", {}) /\ UNCHANGED settled

EndsThrowing(f) ==
  /\ mode = "throw" /\ callbacks[f] = <<>> /\ ~SwallowedAtEnd(f)
  /\ Ends(f, "ERROR", exception) /\ UNCHANGED settled

\* Slip: the flag is not passed on.
EndsBailout_Quiet(f) ==
  /\ mode = "bailout"
  /\ Ends(f, "none", {}) /\ UNCHANGED settled

EndsBailout(f) ==
  /\ mode = "bailout"
  /\ Ends(f, "BAILOUT", {}) /\ UNCHANGED settled

-----------------------------------------------------------------------------
(* The switch arrives.                                                     *)

\* A context that comes from its end is freed by the one it comes to
\* (zend_fiber_destroy_context, zend_fiber_cleanup).
DestroyContext ==
  LET f == transfer.from IN
  IF status[f] = "dead"
  THEN stack' = [stack EXCEPT ![f] = "freed"] /\ caller' = [caller EXCEPT ![f] = "none"]
  ELSE UNCHANGED <<stack, caller>>

Landed ==
  /\ DestroyContext
  /\ frame' = [frame EXCEPT ![current] = NoFrame]
  /\ transfer' = NoTransfer
  /\ UNCHANGED <<status, flags, current, blockVars, thrown, fatal>>

\* zend_fiber_trampoline: a fiber's first step.
LandStart ==
  /\ mode = "landing" /\ frame[current].op = "none"
  /\ Landed /\ Pending({})
  /\ UNCHANGED <<active, settled>>

\* zend_fiber_switch_to: a fatal error goes on in the caller.
LandBailout ==
  /\ mode = "landing" /\ frame[current].op # "none" /\ transfer.flag = "BAILOUT"
  /\ Landed
  /\ active' = "none" /\ mode' = "bailout"
  /\ UNCHANGED <<exception, settled>>

\* zend_fiber_resume_internal and zend_fiber_suspend_internal return; an
\* exception that was sent is thrown (zend_fiber_delegate_transfer_result).
LandResume ==
  /\ mode = "landing" /\ frame[current].op \in {"resume", "suspend"}
  /\ transfer.flag # "BAILOUT"
  /\ Landed
  /\ active' = frame[current].previous
  /\ Pending(transfer.value)
  /\ UNCHANGED settled

\* zend_fiber_object_destroy goes on: what was pending is pending again, behind
\* what the fiber has thrown.
LandDestroy ==
  /\ mode = "landing" /\ frame[current].op = "destroy" /\ transfer.flag # "BAILOUT"
  /\ Landed
  /\ active' = frame[current].previous
  /\ LET saved == frame[current].saved IN
     IF transfer.flag = "ERROR"
     THEN /\ Pending(Chain(transfer.value, saved))
          /\ settled' = settled \cup GivenUp(transfer.value, saved)
     ELSE Pending(saved) /\ UNCHANGED settled

-----------------------------------------------------------------------------
(* Callbacks of ticks and signals: ZEND_TICKS and pcntl_signal_dispatch.   *)

\* A callback of pcntl can begin with an exception pending, which is put aside.
BlockSwitching ==
  /\ mode \in {"run", "throw"} /\ Len(callbacks[current]) < MaxBlocking
  /\ blocking' = blocking + 1
  /\ callbacks' = [callbacks EXCEPT ![current] = Append(@, exception)]
  /\ exception' = {} /\ mode' = "run"
  /\ UNCHANGED <<contextVars, current, active, frame, transfer, destructed, fiberHistory>>

\* The callback ends, by an exception perhaps.
CallbackEnds ==
  /\ mode \in {"run", "throw"} /\ callbacks[current] # <<>>
  /\ callbacks' = [callbacks EXCEPT ![current] = Front(@)]
  /\ LET saved == Last(callbacks[current]) IN
     IF mode = "throw"
     THEN Pending(Chain(exception, saved)) /\ settled' = settled \cup GivenUp(exception, saved)
     ELSE Pending(saved) /\ UNCHANGED settled
  /\ UNCHANGED <<contextVars, current, active, frame, transfer, destructed, thrown, fatal>>

UnblockSwitching == CallbackEnds /\ blocking' = blocking - 1

-----------------------------------------------------------------------------
Land == LandStart \/ LandBailout \/ LandResume \/ LandDestroy

FiberStep(f) ==
  \/ Start(f) \/ StartFail(f) \/ Resume(f) \/ ThrowInto(f) \/ Destroy(f)
  \/ Returns(f) \/ EndsSwallowing(f) \/ EndsThrowing(f) \/ EndsBailout(f)

FiberNext ==
  \/ Throw \/ Catch \/ FatalError \/ MainEnds
  \/ \E f \in Fiber : FiberStep(f)
  \/ Suspend \/ Land \/ BlockSwitching \/ UnblockSwitching

\* A fatal error unwinds without running code of the program.
FiberFairness ==
  WF_fiberVars(Land \/ (mode = "bailout" /\ (MainEnds \/ \E f \in Fiber : EndsBailout(f))))

FiberSpec == FiberInit /\ [][FiberNext]_fiberVars /\ FiberFairness

-----------------------------------------------------------------------------
(* Properties.                                                             *)

\* c waits for a fiber to suspend or to end.
Waits(c) == frame[c].op \in {"resume", "destroy"}

\* The contexts that have neither ended nor been suspended form one chain of
\* callers from the running context to main: exactly one runs, every other
\* waits for the fiber whose caller it is, and none waits for itself through
\* others.
CallersChained ==
  mode # "landing" =>
    /\ \A c \in Context : status[c] = "running" <=> c = current
    /\ \A c \in Context : Waits(c) => caller[frame[c].fiber] = c
    /\ \A f \in Fiber : caller[f] # "none" =>
         Waits(caller[f]) /\ frame[caller[f]].fiber = f
    /\ \A f \in Fiber : status[f] = "suspended" => Waits(f) \/ frame[f].op = "suspend"
    /\ current # "main" => Waits("main")
    /\ \A S \in (SUBSET Context) \ {{}} : \E c \in S : ~(Waits(c) /\ frame[c].fiber \in S)

\* EG(active_fiber), which Fiber::suspend and getCurrent act on, is the fiber
\* that runs whenever program code runs.
ActiveRuns ==
  mode \in {"run", "throw"} => active = IF current = "main" THEN "none" ELSE current

\* The stack a context runs on, or will come back to, is mapped, and that of a
\* fiber that has ended is freed by the time program code runs again.
StacksFreed ==
  \A f \in Fiber :
    /\ status[f] \in {"running", "suspended"} => stack[f] = "mapped"
    /\ status[f] = "dead" /\ mode # "landing" => stack[f] = "freed"

\* No switch goes to a context that has ended or to the one that runs (the
\* assertions of zend_fiber_switch_context), and one that has ended is never
\* left to another one twice.
SwitchesToLive ==
  [][(mode' = "landing" /\ mode # "landing") =>
       /\ status[current'] \notin {"dead", "running"} /\ current' # current
       /\ current' # "main" => stack'[current'] = "mapped"]_fiberVars

\* A fiber that is being destroyed is never left suspended with nobody to
\* resume it: once its destructor was called it runs, has a caller that waits
\* for it, or has ended.
DestroyedEnds ==
  \A f \in Fiber : "DESTROYED" \in flags[f] => status[f] = "dead" \/ caller[f] # "none"

\* Where an exception can be.
Held == exception \cup transfer.value
          \cup (UNION {frame[c].saved : c \in Context})
          \cup (UNION {UNION Range(callbacks[c]) : c \in Context})

\* No exception the program throws disappears across switches, destructions
\* and callbacks: it is pending, on its way to another context or put aside,
\* until it is caught, reported or given up for an exit, or there is a fatal
\* error.
NoExceptionLost == fatal \/ (thrown \cap Throwable) \subseteq (Held \cup settled)

\* A context that is in a callback which blocks switching is left for a fiber
\* that is destroyed there only: no signal handler or tick function is suspended
\* halfway, not by a fiber it would start either.
HandlersNotSwitched ==
  \A c \in Context :
    callbacks[c] # <<>> /\ c # current /\ status[c] # "dead" => frame[c].op = "destroy"

\* The callbacks that block switching, in any context.
Callbacks == {x \in Context \X (1 .. MaxBlocking) : x[2] <= Len(callbacks[x[1]])}

\* Switching is possible again when no callback is left, however the callbacks
\* ended: only a fatal error in one leaves it blocked.
SwitchingUnblocked == fatal \/ blocking = Cardinality(Callbacks)

\* A fatal error in a fiber ends every context up to main, where the request is
\* shut down.
FatalReachesMain == (mode = "bailout") ~> (current = "main" /\ mode = "run")

\* Contexts and their callers, stacks and blocked switching agree, through
\* destructions, exceptions and fatal errors in any fiber.
FibersOK ==
  /\ CallersChained /\ ActiveRuns /\ StacksFreed /\ DestroyedEnds
  /\ HandlersNotSwitched /\ SwitchingUnblocked

\* Every switch goes where somebody can go on, and those of a fatal error come
\* to an end in main.
SwitchesRight == SwitchesToLive /\ FatalReachesMain
=============================================================================
