--------------------------- MODULE ZendFiber_proofs ---------------------------
(***************************************************************************)
(* Proofs about ZendFiber, for every number of fibers and exceptions and   *)
(* every depth of callbacks.                                               *)
(***************************************************************************)
EXTENDS ZendFiber, FiniteSetTheorems, TLAPS

(***************************************************************************)
(* The inductive invariant.  It has to hold while a switch is under way,   *)
(* when CallersChained says nothing, and to say then who comes from where. *)
(***************************************************************************)
StatusOK ==
  /\ \A c \in Context : status[c] = "running" <=> c = current
  /\ status["main"] \in {"running", "suspended"}

\* A frame is where a context comes back to.  A context that does not run has
\* one unless it has not begun or has ended.
FrameOK(c) ==
  /\ status[c] \in {"init", "dead"} => frame[c] = NoFrame
  /\ status[c] = "suspended" => frame[c].op # "none"
  /\ frame[c].op # "none" => frame[c].previous = IF c = "main" THEN "none" ELSE c
  /\ Waits(c) => frame[c].fiber \in Fiber

FramesOK ==
  /\ \A c \in Context : FrameOK(c)
  /\ frame["main"].op # "suspend"
  /\ mode # "landing" => frame[current] = NoFrame

\* Callers and the contexts that wait, from the running context to main.
CallersOK ==
  /\ \A c \in Context : Waits(c) /\ c # current => caller[frame[c].fiber] = c
  /\ \A f \in Fiber : caller[f] # "none" => Waits(caller[f]) /\ frame[caller[f]].fiber = f
  /\ \A f \in Fiber : f = current \/ Waits(f) => caller[f] # "none"
  /\ \A f \in Fiber : status[f] = "init" => caller[f] = "none"
  /\ current # "main" => Waits("main")

Acyclic == \A S \in (SUBSET Context) \ {{}} : \E c \in S : ~(Waits(c) /\ frame[c].fiber \in S)

\* A switch that is under way, and its absence.
LandingOK ==
  /\ mode # "landing" => transfer = NoTransfer
  /\ mode = "landing" =>
       /\ transfer.from \in Context \ {current}
       /\ Waits(current) => /\ transfer.from = frame[current].fiber
                            /\ status[transfer.from] = "dead" \/ caller[transfer.from] = "none"
       /\ status[transfer.from] = "dead" => caller[transfer.from] = current
       /\ frame[current].op = "none" => current \in Fiber /\ active = current /\ transfer.value = {}
       /\ transfer.flag = "BAILOUT" => fatal
       /\ transfer.flag # "ERROR" => transfer.value = {}
  /\ mode = "bailout" => fatal /\ (current = "main" => active = "none")

StacksOK ==
  \A f \in Fiber :
    /\ status[f] \in {"running", "suspended"} => stack[f] = "mapped"
    /\ status[f] = "dead" /\ ~(mode = "landing" /\ transfer.from = f) => stack[f] = "freed"

BlockingOK ==
  /\ \A c \in Context : Len(callbacks[c]) <= MaxBlocking
  /\ Cardinality(Callbacks) <= blocking
  /\ SwitchingUnblocked

\* An exit has nothing before or behind it.
Pure(e) == Special(e) => e \cap Throwable = {}

ExceptionsOK ==
  /\ Pure(exception) /\ Pure(transfer.value)
  /\ \A c \in Context : /\ Pure(frame[c].saved)
                        /\ \A e \in Range(callbacks[c]) : Pure(e)
                        /\ frame[c].op # "destroy" => frame[c].saved = {}

ContextsOK ==
  /\ StatusOK /\ FramesOK /\ CallersOK /\ Acyclic /\ LandingOK
  /\ ActiveRuns /\ StacksOK /\ DestroyedEnds

IInv ==
  /\ FiberTypeOK /\ ContextsOK /\ HandlersNotSwitched
  /\ BlockingOK /\ ExceptionsOK /\ NoExceptionLost

-----------------------------------------------------------------------------
LEMMA Names ==
  /\ IsFiniteSet(Context) /\ "main" \in Context /\ "main" \notin Fiber /\ "none" \notin Context
  /\ Context = Fiber \cup {"main"} /\ MaxBlocking \in Nat
  /\ "exit" \notin Throwable /\ "graceful" \notin Throwable
<1>1. IsFiniteSet(Fiber \cup {"main"}) BY FiberAssumption, FS_AddElement
<1> QED BY <1>1, FiberAssumption DEF Context

-----------------------------------------------------------------------------
(* Contexts: steps that switch to nobody.                                  *)

LEMMA StayContexts ==
  ASSUME IInv, UNCHANGED <<contextVars, current, active, frame, transfer>>,
         mode # "landing", mode' # "landing",
         mode' = "bailout" => fatal' /\ (mode # "bailout" => mode \in {"run", "throw"}),
         mode' \in {"run", "throw"} => mode \in {"run", "throw"} \/ (mode = "bailout" /\ current = "main")
  PROVE  ContextsOK'
<1> USE DEF contextVars
<1>1. StatusOK' BY DEF IInv, ContextsOK, StatusOK
<1>2. FramesOK' BY DEF IInv, ContextsOK, FramesOK, FrameOK, Waits
<1>3. CallersOK' BY DEF IInv, ContextsOK, CallersOK, Waits
<1>4. Acyclic' BY DEF IInv, ContextsOK, Acyclic, Waits
<1>5. LandingOK' BY DEF IInv, ContextsOK, LandingOK, ActiveRuns
<1>6. ActiveRuns' BY DEF IInv, ContextsOK, LandingOK, ActiveRuns
<1>7. StacksOK' BY DEF IInv, ContextsOK, StacksOK
<1>8. DestroyedEnds' BY DEF IInv, ContextsOK, DestroyedEnds
<1> QED BY <1>1, <1>2, <1>3, <1>4, <1>5, <1>6, <1>7, <1>8 DEF ContextsOK

-----------------------------------------------------------------------------
(* Contexts: start, resume, throw and destroy.                             *)

\* What is the case when fiber f may be resumed.
LEMMA MayResume ==
  ASSUME IInv, NEW f \in Fiber, mode \in {"run", "throw"},
         status[f] = "init" \/ (status[f] = "suspended" /\ caller[f] = "none")
  PROVE  /\ current \in Context /\ f # current /\ f \in Context /\ status[current] = "running"
         /\ frame[current] = NoFrame /\ ~Waits(current) /\ ~Waits(f) /\ caller[f] = "none"
         /\ transfer = NoTransfer /\ active = (IF current = "main" THEN "none" ELSE current)
         /\ \A c \in Context : caller[f] # c
         /\ \A g \in Fiber : caller[g] # current
         /\ \A c \in Context : Waits(c) => frame[c].fiber # f
         /\ status[f] = "init" => frame[f] = NoFrame
         /\ status[f] = "suspended" => frame[f].op = "suspend"
<1>1. current \in Context BY DEF IInv, FiberTypeOK
<1>2. f \in Context /\ f # "main" /\ "none" \notin Context BY Names
<1>3. f # current /\ status[current] = "running" BY <1>1 DEF IInv, ContextsOK, StatusOK
<1>4. frame[current] = NoFrame /\ ~Waits(current)
  BY DEF IInv, ContextsOK, FramesOK, NoFrame, Waits
<1>5. transfer = NoTransfer BY DEF IInv, ContextsOK, LandingOK
<1>6. active = IF current = "main" THEN "none" ELSE current BY DEF IInv, ContextsOK, ActiveRuns
<1>7. caller[f] = "none" BY DEF IInv, ContextsOK, CallersOK
<1>8. ~Waits(f) BY <1>7 DEF IInv, ContextsOK, CallersOK
<1>9. FrameOK(f) /\ frame[f].op \in {"none", "resume", "suspend", "destroy"}
  BY <1>2 DEF IInv, ContextsOK, FramesOK, FiberTypeOK, Frame
<1>10. \A g \in Fiber : caller[g] # current
  BY <1>1, <1>2, <1>4 DEF IInv, ContextsOK, CallersOK
<1>11. \A c \in Context : Waits(c) => frame[c].fiber # f
  BY <1>2, <1>4, <1>7 DEF IInv, ContextsOK, CallersOK
<1> QED BY <1>1, <1>2, <1>3, <1>4, <1>5, <1>6, <1>7, <1>8, <1>9, <1>10, <1>11 DEF FrameOK, Waits

\* The present context waits for f now.
Resumed(f, op, flag, value) ==
  /\ status'[f] = "running" /\ status'[current] = "suspended"
  /\ \A c \in Context \ {f, current} : status'[c] = status[c]
  /\ status' \in [Context -> {"init", "running", "suspended", "dead"}]
  /\ caller'[f] = current /\ \A g \in Fiber \ {f} : caller'[g] = caller[g]
  /\ caller' \in [Fiber -> Context \cup {"none"}]
  /\ frame'[current] = [op |-> op, fiber |-> f, previous |-> active, saved |-> exception]
  /\ \A c \in Context \ {current} : frame'[c] = frame[c]
  /\ frame' \in [Context -> Frame]
  /\ transfer' = [from |-> current, flag |-> flag, value |-> value]
  /\ current' = f /\ mode' = "landing" /\ active' = f /\ exception' = {}

LEMMA ResumeFields ==
  ASSUME IInv, NEW f \in Fiber, NEW op \in {"resume", "destroy"}, NEW flag, NEW value,
         mode \in {"run", "throw"},
         status[f] = "init" \/ (status[f] = "suspended" /\ caller[f] = "none"),
         zend_fiber_resume_internal(f, op, flag, value)
  PROVE  Resumed(f, op, flag, value)
<1>1. /\ status' = [status EXCEPT ![f] = "running",
                                  ![current] = IF @ = "running" THEN "suspended" ELSE @]
      /\ caller' = [caller EXCEPT ![f] = current]
      /\ frame' = [frame EXCEPT ![current] =
                     [op |-> op, fiber |-> f, previous |-> active, saved |-> exception]]
      /\ transfer' = [from |-> current, flag |-> flag, value |-> value]
      /\ current' = f /\ mode' = "landing" /\ active' = f /\ exception' = {}
  BY DEF zend_fiber_resume_internal, zend_fiber_switch_context
<1>2. /\ current \in Context /\ f # current /\ f \in Context /\ status[current] = "running"
  BY MayResume
<1>3. /\ status \in [Context -> {"init", "running", "suspended", "dead"}]
      /\ caller \in [Fiber -> Context \cup {"none"}]
      /\ frame \in [Context -> Frame]
      /\ active \in Fiber \cup {"none"} /\ exception \in SUBSET Exception
  BY DEF IInv, FiberTypeOK
<1>4. /\ status'[f] = "running" /\ status'[current] = "suspended"
      /\ \A c \in Context \ {f, current} : status'[c] = status[c]
      /\ status' \in [Context -> {"init", "running", "suspended", "dead"}]
  BY <1>1, <1>2, <1>3
<1>5. /\ caller'[f] = current /\ \A g \in Fiber \ {f} : caller'[g] = caller[g]
      /\ caller' \in [Fiber -> Context \cup {"none"}]
  BY <1>1, <1>2, <1>3
<1>6. [op |-> op, fiber |-> f, previous |-> active, saved |-> exception] \in Frame
  BY <1>3 DEF Frame
<1>7. /\ frame'[current] = [op |-> op, fiber |-> f, previous |-> active, saved |-> exception]
      /\ \A c \in Context \ {current} : frame'[c] = frame[c]
      /\ frame' \in [Context -> Frame]
  BY <1>1, <1>2, <1>3, <1>6
<1> QED BY <1>1, <1>4, <1>5, <1>7 DEF Resumed

LEMMA ResumeContexts ==
  ASSUME IInv, NEW f \in Fiber, NEW op \in {"resume", "destroy"}, NEW flag \in {"none", "ERROR"},
         NEW value, mode \in {"run", "throw"},
         status[f] = "init" \/ (status[f] = "suspended" /\ caller[f] = "none"),
         zend_fiber_resume_internal(f, op, flag, value),
         status[f] = "init" \/ flag = "none" => value = {},
         stack'[f] = "mapped", \A g \in Fiber \ {f} : stack'[g] = stack[g],
         \A g \in Fiber \ {f} : "DESTROYED" \in flags'[g] => "DESTROYED" \in flags[g]
  PROVE  ContextsOK'
<1>0. PICK c0 \in Context : c0 = current BY DEF IInv, FiberTypeOK
<1>1. /\ c0 \in Context /\ f # c0 /\ f \in Context /\ status[c0] = "running"
      /\ frame[c0] = NoFrame /\ ~Waits(c0) /\ ~Waits(f) /\ caller[f] = "none"
      /\ transfer = NoTransfer /\ active = (IF c0 = "main" THEN "none" ELSE c0)
      /\ \A g \in Fiber : caller[g] # c0
      /\ \A c \in Context : Waits(c) => frame[c].fiber # f
      /\ status[f] = "init" => frame[f] = NoFrame
      /\ status[f] = "suspended" => frame[f].op = "suspend"
  BY <1>0, MayResume
<1>2. /\ status'[f] = "running" /\ status'[c0] = "suspended"
      /\ \A c \in Context \ {f, c0} : status'[c] = status[c]
      /\ caller'[f] = c0 /\ \A g \in Fiber \ {f} : caller'[g] = caller[g]
      /\ \A c \in Context \ {c0} : frame'[c] = frame[c]
      /\ transfer' = [from |-> c0, flag |-> flag, value |-> value]
      /\ current' = f /\ mode' = "landing" /\ active' = f
      /\ frame'[c0] = [op |-> op, fiber |-> f, previous |-> active, saved |-> exception]
  <2>1. Resumed(f, op, flag, value) BY ResumeFields
  <2> QED BY <1>0, <2>1 DEF Resumed
<1>3. frame'[c0].op = op /\ frame'[c0].fiber = f /\ frame'[c0].previous = active BY <1>2
<1>4. \A c \in Context : Waits(c)' <=> Waits(c) \/ c = c0 BY <1>2, <1>3 DEF Waits
<1>5. \A c \in Context \ {c0} : frame'[c] = frame[c] BY <1>2
<1>6. f # "main" /\ "none" \notin Context /\ Fiber \subseteq Context /\ "main" \in Context BY Names
<1>7. StatusOK'
  <2>1. \A c \in Context : status'[c] = "running" <=> c = f
    BY <1>0, <1>1, <1>2 DEF IInv, ContextsOK, StatusOK
  <2>2. status'["main"] \in {"running", "suspended"}
    BY <1>1, <1>2, <1>6 DEF IInv, ContextsOK, StatusOK
  <2> QED BY <1>2, <2>1, <2>2 DEF StatusOK
<1>8. FramesOK'
  <2>1. ASSUME NEW c \in Context, c # c0 PROVE FrameOK(c)'
    <3>1. FrameOK(c) BY <2>1 DEF IInv, ContextsOK, FramesOK
    <3>2. c # f => status'[c] = status[c] BY <1>2, <2>1
    <3> QED BY <1>2, <1>4, <1>5, <2>1, <3>1, <3>2 DEF FrameOK
  <2>2. FrameOK(c0)' BY <1>1, <1>2, <1>3 DEF FrameOK
  <2>3. frame'["main"].op # "suspend"
    BY <1>2, <1>3, <1>6 DEF IInv, ContextsOK, FramesOK
  <2> QED BY <1>2, <2>1, <2>2, <2>3 DEF FramesOK
<1>9. CallersOK'
  <2>1. ASSUME NEW c \in Context, Waits(c)', c # f PROVE caller'[frame'[c].fiber] = c
    <3>1. CASE c = c0 BY <1>2, <1>3, <3>1
    <3>2. CASE c # c0
      <4>1. Waits(c) /\ frame'[c] = frame[c] BY <1>2, <1>4, <2>1, <3>2
      <4>2. caller[frame[c].fiber] = c /\ frame[c].fiber \in Fiber
        BY <1>0, <3>2, <4>1 DEF IInv, ContextsOK, CallersOK, FramesOK, FrameOK
      <4> QED BY <1>1, <1>2, <4>1, <4>2
    <3> QED BY <3>1, <3>2
  <2>2. ASSUME NEW g \in Fiber, caller'[g] # "none"
        PROVE  frame'[caller'[g]].op \in {"resume", "destroy"} /\ frame'[caller'[g]].fiber = g
    <3>0. caller \in [Fiber -> Context \cup {"none"}] BY DEF IInv, FiberTypeOK
    <3>1. CASE g = f BY <1>1, <1>2, <1>3, <1>4, <3>1 DEF Waits
    <3>2. CASE g # f
      <4>1. caller'[g] = caller[g] /\ caller[g] \in Context /\ caller[g] # c0
        BY <1>1, <1>2, <2>2, <3>0, <3>2
      <4>2. Waits(caller[g]) /\ frame[caller[g]].fiber = g
        BY <2>2, <4>1 DEF IInv, ContextsOK, CallersOK
      <4> QED BY <1>2, <4>1, <4>2 DEF Waits
    <3> QED BY <3>1, <3>2
  <2>3. ASSUME NEW g \in Fiber, g = f \/ Waits(g)' PROVE caller'[g] # "none"
    <3>1. CASE g = f BY <1>1, <1>2, <1>6, <3>1
    <3>2. CASE g # f
      <4>1. g = current \/ Waits(g) BY <1>0, <1>4, <1>6, <2>3, <3>2
      <4> QED BY <1>2, <3>2, <4>1 DEF IInv, ContextsOK, CallersOK
    <3> QED BY <3>1, <3>2
  <2>4. ASSUME NEW g \in Fiber, status'[g] = "init" PROVE caller'[g] = "none"
    <3>1. g # f /\ g # c0 BY <1>2, <2>4
    <3> QED BY <1>2, <1>6, <2>4, <3>1 DEF IInv, ContextsOK, CallersOK
  <2>5. Waits("main")'
    BY <1>0, <1>4, <1>6 DEF IInv, ContextsOK, CallersOK
  <2> QED BY <1>2, <2>1, <2>2, <2>3, <2>4, <2>5 DEF CallersOK, Waits
<1>10. Acyclic'
  <2> SUFFICES ASSUME NEW S \in (SUBSET Context) \ {{}},
                      \A c \in S : Waits(c)' /\ frame'[c].fiber \in S
               PROVE  FALSE
    BY DEF Acyclic
  <2>1. c0 \notin S
    <3>1. ASSUME c0 \in S PROVE FALSE
      <4>1. f \in S BY <1>2, <1>3, <3>1
      <4> QED BY <1>1, <1>4, <4>1
    <3> QED BY <3>1
  <2>2. \A c \in S : Waits(c) /\ frame[c].fiber \in S BY <1>2, <1>4, <2>1
  <2> QED BY <2>2 DEF IInv, ContextsOK, Acyclic
<1>11. LandingOK'
  <2>1. transfer'.from = c0 /\ transfer'.flag = flag /\ transfer'.value = value BY <1>2
  <2>2. ~Waits(f)' BY <1>1, <1>4
  <2>3. frame'[f].op = "none" => status[f] = "init" BY <1>1, <1>2
  <2>4. status'[c0] # "dead" BY <1>2
  <2>5. c0 \in Context \ {f} BY <1>1
  <2> QED BY <1>2, <2>1, <2>2, <2>3, <2>4, <2>5 DEF LandingOK
<1>12. ActiveRuns' BY <1>2 DEF ActiveRuns
<1>13. StacksOK'
  <2>1. ASSUME NEW g \in Fiber, g # f
        PROVE  /\ status'[g] \in {"running", "suspended"} => stack'[g] = "mapped"
               /\ status'[g] = "dead" => stack'[g] = "freed"
    <3>1. stack'[g] = stack[g] BY <2>1
    <3>2. status'[g] = status[g] \/ (g = c0 /\ status'[g] = "suspended") BY <1>2, <1>6, <2>1
    <3>3. mode # "landing" OBVIOUS
    <3> QED BY <1>1, <3>1, <3>2, <3>3 DEF IInv, ContextsOK, StacksOK
  <2> QED BY <1>2, <2>1 DEF StacksOK
<1>14. DestroyedEnds'
  <2>1. ASSUME NEW g \in Fiber, g # f, "DESTROYED" \in flags'[g]
        PROVE  status'[g] = "dead" \/ caller'[g] # "none"
    <3>1. status[g] = "dead" \/ caller[g] # "none" BY <2>1 DEF IInv, ContextsOK, DestroyedEnds
    <3>2. status[g] = "dead" => status'[g] = "dead" BY <1>1, <1>2, <1>6, <2>1
    <3> QED BY <1>2, <2>1, <3>1, <3>2
  <2>2. caller'[f] # "none" BY <1>1, <1>2, <1>6
  <2> QED BY <2>1, <2>2 DEF DestroyedEnds
<1> QED BY <1>7, <1>8, <1>9, <1>10, <1>11, <1>12, <1>13, <1>14 DEF ContextsOK

-----------------------------------------------------------------------------
(* Contexts: suspend, and the end of a fiber.                              *)

\* What is the case when fiber p runs: its caller waits for it.
LEMMA MayLeave ==
  ASSUME IInv, NEW p \in Fiber, current = p, mode # "landing"
  PROVE  /\ caller[p] \in Context /\ caller[p] # p /\ p \in Context
         /\ Waits(caller[p]) /\ frame[caller[p]].fiber = p
         /\ status[caller[p]] = "suspended" /\ status[p] = "running"
         /\ frame[p] = NoFrame /\ ~Waits(p) /\ Waits("main") /\ transfer = NoTransfer
<1>1. p \in Context /\ p # "main" /\ "none" \notin Context BY Names
<1>2. caller[p] # "none" /\ Waits("main") BY <1>1 DEF IInv, ContextsOK, CallersOK
<1>3. caller[p] \in Context BY <1>2 DEF IInv, FiberTypeOK
<1>4. frame[p] = NoFrame /\ ~Waits(p) BY DEF IInv, ContextsOK, FramesOK, NoFrame, Waits
<1>5. Waits(caller[p]) /\ frame[caller[p]].fiber = p BY <1>2 DEF IInv, ContextsOK, CallersOK
<1>6. caller[p] # p BY <1>4, <1>5 DEF NoFrame, Waits
<1>7. status[caller[p]] \in {"init", "running", "suspended", "dead"} BY <1>3 DEF IInv, FiberTypeOK
<1>8. status[caller[p]] # "running" /\ status[p] = "running"
  BY <1>1, <1>3, <1>6 DEF IInv, ContextsOK, StatusOK
<1>9. status[caller[p]] \notin {"init", "dead"}
  BY <1>3, <1>5 DEF IInv, ContextsOK, FramesOK, FrameOK, NoFrame, Waits
<1>10. transfer = NoTransfer BY DEF IInv, ContextsOK, LandingOK
<1> QED BY <1>1, <1>2, <1>3, <1>4, <1>5, <1>6, <1>7, <1>8, <1>9, <1>10

\* p leaves for its caller c, and is suspended or dead then.
Left(p, c, st) ==
  /\ status'[c] = "running" /\ status'[p] = st
  /\ \A d \in Context \ {c, p} : status'[d] = status[d]
  /\ caller'[p] = IF st = "suspended" THEN "none" ELSE c
  /\ \A g \in Fiber \ {p} : caller'[g] = caller[g]
  /\ IF st = "suspended" THEN frame'[p].op = "suspend" /\ frame'[p].previous = p
                         ELSE frame'[p] = NoFrame
  /\ \A d \in Context \ {p} : frame'[d] = frame[d]
  /\ transfer'.from = p
  /\ transfer'.flag = "BAILOUT" => fatal'
  /\ transfer'.flag # "ERROR" => transfer'.value = {}
  /\ current' = c /\ mode' = "landing" /\ stack' = stack
  /\ \A g \in Fiber : "DESTROYED" \in flags'[g] => "DESTROYED" \in flags[g]
  /\ st = "suspended" => "DESTROYED" \notin flags[p]

LEMMA LeaveContexts ==
  ASSUME IInv, NEW p \in Fiber, current = p, mode # "landing",
         NEW c, c = caller[p], NEW st \in {"suspended", "dead"}, Left(p, c, st)
  PROVE  ContextsOK'
<1>1. /\ c \in Context /\ c # p /\ p \in Context
      /\ Waits(c) /\ frame[c].fiber = p /\ status[c] = "suspended" /\ status[p] = "running"
      /\ frame[p] = NoFrame /\ ~Waits(p) /\ Waits("main")
  BY MayLeave
<1>2. /\ status'[c] = "running" /\ status'[p] = st
      /\ \A d \in Context \ {c, p} : status'[d] = status[d]
      /\ current' = c /\ mode' = "landing" /\ stack' = stack /\ transfer'.from = p
  BY DEF Left
<1>3. /\ caller'[p] = IF st = "suspended" THEN "none" ELSE c
      /\ \A g \in Fiber \ {p} : caller'[g] = caller[g]
  BY DEF Left
<1>4. /\ IF st = "suspended" THEN frame'[p].op = "suspend" /\ frame'[p].previous = p
                             ELSE frame'[p] = NoFrame
      /\ \A d \in Context \ {p} : frame'[d] = frame[d]
  BY DEF Left
<1>5. p # "main" /\ "none" \notin Context /\ Fiber \subseteq Context /\ "main" \in Context BY Names
<1>6. \A d \in Context : Waits(d)' <=> Waits(d) BY <1>1, <1>4 DEF Waits, NoFrame
<1>7. StatusOK'
  <2>1. \A d \in Context : status'[d] = "running" <=> d = c
    BY <1>1, <1>2 DEF IInv, ContextsOK, StatusOK
  <2>2. status'["main"] \in {"running", "suspended"}
    BY <1>1, <1>2, <1>5 DEF IInv, ContextsOK, StatusOK
  <2> QED BY <1>2, <2>1, <2>2 DEF StatusOK
<1>8. FramesOK'
  <2>1. ASSUME NEW d \in Context, d # p PROVE FrameOK(d)'
    <3>1. FrameOK(d) BY <2>1 DEF IInv, ContextsOK, FramesOK
    <3>2. d # c => status'[d] = status[d] BY <1>2, <2>1
    <3> QED BY <1>2, <1>4, <1>6, <2>1, <3>1, <3>2 DEF FrameOK
  <2>2. FrameOK(p)' BY <1>1, <1>2, <1>4, <1>5, <1>6 DEF FrameOK, NoFrame
  <2>3. frame'["main"].op # "suspend" BY <1>4, <1>5 DEF IInv, ContextsOK, FramesOK
  <2> QED BY <1>2, <2>1, <2>2, <2>3 DEF FramesOK
<1>9. CallersOK'
  <2>1. ASSUME NEW d \in Context, Waits(d)', d # c PROVE caller'[frame'[d].fiber] = d
    <3>1. Waits(d) /\ d # p /\ frame'[d] = frame[d] BY <1>1, <1>4, <1>6, <2>1
    <3>2. caller[frame[d].fiber] = d /\ frame[d].fiber \in Fiber
      BY <3>1 DEF IInv, ContextsOK, CallersOK, FramesOK, FrameOK
    <3>3. frame[d].fiber # p BY <2>1, <3>2
    <3> QED BY <1>3, <3>1, <3>2, <3>3
  <2>2. ASSUME NEW g \in Fiber, caller'[g] # "none"
        PROVE  frame'[caller'[g]].op \in {"resume", "destroy"} /\ frame'[caller'[g]].fiber = g
    <3>0. caller \in [Fiber -> Context \cup {"none"}] BY DEF IInv, FiberTypeOK
    <3>1. CASE g = p BY <1>1, <1>3, <1>4, <2>2, <3>1 DEF Waits
    <3>2. CASE g # p
      <4>1. caller'[g] = caller[g] /\ caller[g] \in Context BY <1>3, <2>2, <3>0, <3>2
      <4>2. Waits(caller[g]) /\ frame[caller[g]].fiber = g
        BY <2>2, <4>1 DEF IInv, ContextsOK, CallersOK
      <4>3. caller[g] # p BY <1>1, <4>2
      <4> QED BY <1>4, <4>1, <4>2, <4>3 DEF Waits
    <3> QED BY <3>1, <3>2
  <2>3. ASSUME NEW g \in Fiber, g = c \/ Waits(g)' PROVE caller'[g] # "none"
    <3>1. Waits(g) /\ g # p BY <1>1, <1>5, <1>6, <2>3
    <3> QED BY <1>3, <3>1 DEF IInv, ContextsOK, CallersOK
  <2>4. ASSUME NEW g \in Fiber, status'[g] = "init" PROVE caller'[g] = "none"
    <3>1. g # p /\ g # c BY <1>2, <2>4
    <3> QED BY <1>2, <1>3, <1>5, <2>4, <3>1 DEF IInv, ContextsOK, CallersOK
  <2>5. Waits("main")' BY <1>1, <1>5, <1>6
  <2> QED BY <1>2, <2>1, <2>2, <2>3, <2>4, <2>5 DEF CallersOK, Waits
<1>10. Acyclic'
  <2> SUFFICES ASSUME NEW S \in (SUBSET Context) \ {{}},
                      \A d \in S : Waits(d)' /\ frame'[d].fiber \in S
               PROVE  FALSE
    BY DEF Acyclic
  <2>1. \A d \in S : Waits(d) /\ frame[d].fiber \in S BY <1>1, <1>4, <1>6
  <2> QED BY <2>1 DEF IInv, ContextsOK, Acyclic
<1>11. LandingOK'
  <2>1. Waits(c)' /\ frame'[c].fiber = p /\ frame'[c].op # "none"
    BY <1>1, <1>4, <1>6 DEF Waits
  <2>2. status'[p] = "dead" \/ caller'[p] = "none" BY <1>2, <1>3
  <2>3. status'[p] = "dead" => caller'[p] = c BY <1>2, <1>3
  <2>4. p \in Context \ {c} BY <1>1
  <2>5. /\ transfer'.flag = "BAILOUT" => fatal'
        /\ transfer'.flag # "ERROR" => transfer'.value = {}
    BY DEF Left
  <2> QED BY <1>2, <2>1, <2>2, <2>3, <2>4, <2>5 DEF LandingOK
<1>12. ActiveRuns' BY <1>2 DEF ActiveRuns
<1>13. StacksOK'
  <2>1. ASSUME NEW g \in Fiber
        PROVE  /\ status'[g] \in {"running", "suspended"} => stack[g] = "mapped"
               /\ status'[g] = "dead" /\ g # p => stack[g] = "freed"
    <3>1. status'[g] = status[g] \/ (g = p /\ status[g] = "running")
                                 \/ (g = c /\ status[g] = "suspended" /\ status'[g] = "running")
      BY <1>1, <1>2, <1>5
    <3> QED BY <3>1 DEF IInv, ContextsOK, StacksOK
  <2> QED BY <1>2, <2>1 DEF StacksOK
<1>14. DestroyedEnds'
  <2>1. ASSUME NEW g \in Fiber, "DESTROYED" \in flags'[g]
        PROVE  status'[g] = "dead" \/ caller'[g] # "none"
    <3>1. "DESTROYED" \in flags[g] /\ (g = p => st = "dead") BY <2>1 DEF Left
    <3>2. CASE g = p BY <1>2, <3>1, <3>2
    <3>3. CASE g # p
      <4>1. status[g] = "dead" \/ caller[g] # "none" BY <3>1 DEF IInv, ContextsOK, DestroyedEnds
      <4>2. status[g] = "dead" => status'[g] = "dead" BY <1>1, <1>2, <1>5, <3>3
      <4> QED BY <1>3, <3>3, <4>1, <4>2
    <3> QED BY <3>2, <3>3
  <2> QED BY <2>1 DEF DestroyedEnds
<1> QED BY <1>7, <1>8, <1>9, <1>10, <1>11, <1>12, <1>13, <1>14 DEF ContextsOK

-----------------------------------------------------------------------------
(* Contexts: a switch arrives.                                             *)

LEMMA LandedFields ==
  ASSUME IInv, mode = "landing", Landed
  PROVE  /\ \A f \in Fiber : IF f = transfer.from /\ status[f] = "dead"
                             THEN stack'[f] = "freed" /\ caller'[f] = "none"
                             ELSE stack'[f] = stack[f] /\ caller'[f] = caller[f]
         /\ stack' \in [Fiber -> {"none", "mapped", "freed"}]
         /\ caller' \in [Fiber -> Context \cup {"none"}]
         /\ frame' \in [Context -> Frame] /\ frame'[current] = NoFrame
         /\ \A c \in Context \ {current} : frame'[c] = frame[c]
         /\ transfer' = NoTransfer
         /\ UNCHANGED <<status, flags, current, blockVars, thrown, fatal>>
<1>1. /\ stack \in [Fiber -> {"none", "mapped", "freed"}]
      /\ caller \in [Fiber -> Context \cup {"none"}] /\ frame \in [Context -> Frame]
      /\ current \in Context
  BY DEF IInv, FiberTypeOK
<1>2. NoFrame \in Frame BY DEF NoFrame, Frame
<1>3. /\ frame' = [frame EXCEPT ![current] = NoFrame] /\ transfer' = NoTransfer
      /\ UNCHANGED <<status, flags, current, blockVars, thrown, fatal>>
      /\ DestroyContext
  BY DEF Landed
<1>4. /\ \A f \in Fiber : IF f = transfer.from /\ status[f] = "dead"
                          THEN stack'[f] = "freed" /\ caller'[f] = "none"
                          ELSE stack'[f] = stack[f] /\ caller'[f] = caller[f]
      /\ stack' \in [Fiber -> {"none", "mapped", "freed"}]
      /\ caller' \in [Fiber -> Context \cup {"none"}]
  <2>1. CASE status[transfer.from] = "dead"
    <3>1. /\ stack' = [stack EXCEPT ![transfer.from] = "freed"]
          /\ caller' = [caller EXCEPT ![transfer.from] = "none"]
      BY <1>3, <2>1 DEF DestroyContext
    <3> QED BY <1>1, <2>1, <3>1
  <2>2. CASE status[transfer.from] # "dead" BY <1>1, <1>3, <2>2 DEF DestroyContext
  <2> QED BY <2>1, <2>2
<1> QED BY <1>1, <1>2, <1>3, <1>4

LEMMA LandContexts ==
  ASSUME IInv, mode = "landing", Landed, mode' \in {"run", "throw", "bailout"},
         mode' # "bailout" => active' = (IF current = "main" THEN "none" ELSE current),
         mode' = "bailout" => fatal /\ active' = "none"
  PROVE  ContextsOK'
<1>0. PICK c0 \in Context : c0 = current BY DEF IInv, FiberTypeOK
<1> DEFINE from == transfer.from
<1>1. /\ \A f \in Fiber : IF f = from /\ status[f] = "dead"
                          THEN stack'[f] = "freed" /\ caller'[f] = "none"
                          ELSE stack'[f] = stack[f] /\ caller'[f] = caller[f]
      /\ frame'[c0] = NoFrame /\ \A c \in Context \ {c0} : frame'[c] = frame[c]
      /\ transfer' = NoTransfer /\ status' = status /\ current' = c0 /\ flags' = flags
      /\ fatal' = fatal
  BY <1>0, LandedFields
<1>2. /\ from \in Context \ {c0}
      /\ Waits(c0) => from = frame[c0].fiber /\ (status[from] = "dead" \/ caller[from] = "none")
      /\ status[from] = "dead" => caller[from] = c0
  BY <1>0 DEF IInv, ContextsOK, LandingOK
<1>3. "none" \notin Context /\ Fiber \subseteq Context /\ "main" \in Context /\ "main" \notin Fiber BY Names
<1> HIDE DEF from
<1>4. \A d \in Context : Waits(d)' <=> Waits(d) /\ d # c0 BY <1>1 DEF Waits, NoFrame
<1>7. StatusOK' BY <1>0, <1>1 DEF IInv, ContextsOK, StatusOK
<1>8. FramesOK'
  <2>1. ASSUME NEW d \in Context PROVE FrameOK(d)'
    <3>1. FrameOK(d) BY <2>1 DEF IInv, ContextsOK, FramesOK
    <3>2. CASE d # c0 BY <1>1, <1>4, <3>1, <3>2 DEF FrameOK
    <3>3. CASE d = c0
      <4>1. status[c0] = "running" BY <1>0 DEF IInv, ContextsOK, StatusOK
      <4> QED BY <1>1, <1>4, <3>3, <4>1 DEF FrameOK, NoFrame
    <3> QED BY <3>2, <3>3
  <2>2. frame'["main"].op # "suspend"
    <3>1. frame["main"].op # "suspend" BY DEF IInv, ContextsOK, FramesOK
    <3> QED BY <1>1, <1>3, <3>1 DEF NoFrame
  <2> QED BY <1>1, <2>1, <2>2 DEF FramesOK
<1>9. CallersOK'
  <2>1. ASSUME NEW d \in Context, Waits(d)', d # c0 PROVE caller'[frame'[d].fiber] = d
    <3>1. Waits(d) /\ frame'[d] = frame[d] BY <1>1, <1>4, <2>1
    <3>2. caller[frame[d].fiber] = d /\ frame[d].fiber \in Fiber
      BY <1>0, <2>1, <3>1 DEF IInv, ContextsOK, CallersOK, FramesOK, FrameOK
    <3>3. ~(frame[d].fiber = from /\ status[from] = "dead") BY <1>2, <2>1, <3>2
    <3> QED BY <1>1, <3>1, <3>2, <3>3
  <2>2. ASSUME NEW g \in Fiber, caller'[g] # "none"
        PROVE  frame'[caller'[g]].op \in {"resume", "destroy"} /\ frame'[caller'[g]].fiber = g
    <3>1. caller'[g] = caller[g] /\ ~(g = from /\ status[g] = "dead") BY <1>1, <2>2
    <3>2. caller[g] \in Context BY <2>2, <3>1 DEF IInv, FiberTypeOK
    <3>3. Waits(caller[g]) /\ frame[caller[g]].fiber = g
      BY <2>2, <3>1 DEF IInv, ContextsOK, CallersOK
    <3>4. caller[g] # c0 BY <1>2, <2>2, <3>1, <3>3
    <3> QED BY <1>1, <3>1, <3>2, <3>3, <3>4 DEF Waits
  <2>3. ASSUME NEW g \in Fiber, g = c0 \/ Waits(g)' PROVE caller'[g] # "none"
    <3>1. g = c0 \/ Waits(g) BY <1>3, <1>4, <2>3
    <3>2. caller[g] # "none" BY <1>0, <3>1 DEF IInv, ContextsOK, CallersOK
    <3>3. ~(g = from /\ status[g] = "dead")
      <4>1. status[g] = "dead" => ~Waits(g)
        BY <1>3 DEF IInv, ContextsOK, FramesOK, FrameOK, NoFrame, Waits
      <4> QED BY <1>2, <3>1, <4>1
    <3> QED BY <1>1, <3>2, <3>3
  <2>4. ASSUME NEW g \in Fiber, status'[g] = "init" PROVE caller'[g] = "none"
    <3>1. caller[g] = "none" BY <1>1, <2>4 DEF IInv, ContextsOK, CallersOK
    <3> QED BY <1>1, <3>1
  <2>5. c0 # "main" => Waits("main")'
    <3>1. c0 # "main" => Waits("main") BY <1>0 DEF IInv, ContextsOK, CallersOK
    <3> QED BY <1>3, <1>4, <3>1
  <2> QED BY <1>1, <2>1, <2>2, <2>3, <2>4, <2>5 DEF CallersOK, Waits
<1>10. Acyclic'
  <2> SUFFICES ASSUME NEW S \in (SUBSET Context) \ {{}},
                      \A d \in S : Waits(d)' /\ frame'[d].fiber \in S
               PROVE  FALSE
    BY DEF Acyclic
  <2>1. \A d \in S : Waits(d) /\ frame[d].fiber \in S BY <1>1, <1>4
  <2> QED BY <2>1 DEF IInv, ContextsOK, Acyclic
<1>11. LandingOK' BY <1>1 DEF LandingOK
<1>12. ActiveRuns' BY <1>0, <1>1 DEF ActiveRuns
<1>13. StacksOK'
  <2>1. ASSUME NEW g \in Fiber
        PROVE  /\ status[g] \in {"running", "suspended"} => stack'[g] = "mapped"
               /\ status[g] = "dead" => stack'[g] = "freed"
    <3>1. CASE g = from /\ status[g] = "dead" BY <1>1, <3>1
    <3>2. CASE ~(g = from /\ status[g] = "dead")
      <4>1. stack'[g] = stack[g] BY <1>1, <3>2
      <4> QED BY <3>2, <4>1 DEF IInv, ContextsOK, StacksOK, from
    <3> QED BY <3>1, <3>2
  <2> QED BY <1>1, <2>1 DEF StacksOK
<1>14. DestroyedEnds'
  <2>1. ASSUME NEW g \in Fiber, "DESTROYED" \in flags[g]
        PROVE  status[g] = "dead" \/ caller'[g] # "none"
    <3>1. status[g] = "dead" \/ caller[g] # "none" BY <2>1 DEF IInv, ContextsOK, DestroyedEnds
    <3> QED BY <1>1, <3>1
  <2> QED BY <1>1, <2>1 DEF DestroyedEnds
<1> QED BY <1>7, <1>8, <1>9, <1>10, <1>11, <1>12, <1>13, <1>14 DEF ContextsOK

-----------------------------------------------------------------------------
(* The parts a step leaves alone.                                          *)

LEMMA StillHandlers ==
  ASSUME IInv, UNCHANGED <<status, current, frame>>,
         \A c \in Context \ {current} : callbacks'[c] # <<>> => callbacks[c] # <<>>
  PROVE  HandlersNotSwitched'
BY DEF IInv, HandlersNotSwitched

LEMMA StillBlocking ==
  ASSUME IInv, UNCHANGED <<blocking, callbacks>>, fatal => fatal'
  PROVE  BlockingOK'
<1>1. Callbacks' = Callbacks BY DEF Callbacks
<1> QED BY <1>1 DEF IInv, BlockingOK, SwitchingUnblocked

\* Exception e is somewhere.
Safe(e) ==
  \/ e \in exception \/ e \in transfer.value \/ e \in settled
  \/ \E c \in Context : e \in frame[c].saved
  \/ \E c \in Context : \E s \in Range(callbacks[c]) : e \in s

LEMMA SafeIfHeld ==
  ASSUME NoExceptionLost, ~fatal, NEW e \in thrown, e \in Throwable PROVE Safe(e)
<1>1. e \in Held \/ e \in settled BY DEF NoExceptionLost
<1>2. e \in UNION {frame[c].saved : c \in Context} => \E c \in Context : e \in frame[c].saved
  OBVIOUS
<1>3. e \in UNION {UNION Range(callbacks[c]) : c \in Context}
        => \E c \in Context : \E s \in Range(callbacks[c]) : e \in s
  OBVIOUS
<1> QED BY <1>1, <1>2, <1>3 DEF Held, Safe

LEMMA HeldIfSafe ==
  ASSUME \A e \in thrown' \cap Throwable : fatal' \/ Safe(e)' PROVE NoExceptionLost'
<1> SUFFICES ASSUME NEW e \in thrown' \cap Throwable, ~fatal' PROVE e \in Held' \/ e \in settled'
  BY DEF NoExceptionLost
<1>1. Safe(e)' OBVIOUS
<1>2. (\E c \in Context : e \in frame'[c].saved) => e \in UNION {frame'[c].saved : c \in Context}
  OBVIOUS
<1>3. (\E c \in Context : \E s \in Range(callbacks'[c]) : e \in s)
        => e \in UNION {UNION Range(callbacks'[c]) : c \in Context}
  OBVIOUS
<1> QED BY <1>1, <1>2, <1>3 DEF Held, Safe

-----------------------------------------------------------------------------
(* Exceptions and fatal errors.                                            *)

LEMMA ThrowStep == ASSUME IInv, Throw PROVE IInv'
<1>1. PICK e \in NewException \cup ({"exit"} \ thrown) : thrown' = thrown \cup {e} /\ exception' = {e}
  BY DEF Throw
<1>2. /\ mode = "run" /\ mode' = "throw"
      /\ UNCHANGED <<contextVars, current, active, frame, transfer, blockVars, settled, fatal>>
  BY DEF Throw
<1>3. e \in Exception /\ Pure({e}) BY Names DEF NewException, Exception, Pure, Special
<1>4. FiberTypeOK' BY <1>1, <1>2, <1>3 DEF IInv, FiberTypeOK, contextVars, blockVars
<1>5. ContextsOK' BY <1>2, StayContexts
<1>6. HandlersNotSwitched' BY <1>2, StillHandlers DEF contextVars, blockVars
<1>7. BlockingOK' BY <1>2, StillBlocking DEF blockVars
<1>8. ExceptionsOK' BY <1>1, <1>2, <1>3 DEF IInv, ExceptionsOK, blockVars
<1>9. NoExceptionLost'
  <2>1. exception = {} BY <1>2 DEF IInv, FiberTypeOK
  <2>2. ASSUME NEW x \in thrown', x \in Throwable, ~fatal' PROVE Safe(x)'
    <3>1. x = e \/ (x \in thrown /\ ~fatal) BY <1>1, <1>2, <2>2
    <3>2. x # e => Safe(x) BY <2>2, <3>1, SafeIfHeld DEF IInv
    <3> QED BY <1>1, <1>2, <2>1, <3>2 DEF Safe, blockVars
  <2> QED BY <2>2, HeldIfSafe
<1> QED BY <1>4, <1>5, <1>6, <1>7, <1>8, <1>9 DEF IInv

LEMMA StartFailStep == ASSUME IInv, NEW f \in Fiber, StartFail(f) PROVE IInv'
<1>1. PICK e \in NewException : thrown' = thrown \cup {e} /\ exception' = {e} BY DEF StartFail
<1>2. Throw
  <2>1. e \in NewException \cup ({"exit"} \ thrown) BY <1>1
  <2> QED BY <1>1, <2>1 DEF StartFail, Throw
<1> QED BY <1>2, ThrowStep

LEMMA CatchStep == ASSUME IInv, Catch PROVE IInv'
<1>2. /\ mode = "throw" /\ mode' = "run" /\ settled' = settled \cup exception /\ exception' = {}
      /\ UNCHANGED <<contextVars, current, active, frame, transfer, blockVars, thrown, fatal>>
  BY DEF Catch
<1>3. Pure({}) BY DEF Pure
<1>4. FiberTypeOK' BY <1>2 DEF IInv, FiberTypeOK, contextVars, blockVars
<1>5. ContextsOK' BY <1>2, StayContexts
<1>6. HandlersNotSwitched' BY <1>2, StillHandlers DEF contextVars, blockVars
<1>7. BlockingOK' BY <1>2, StillBlocking DEF blockVars
<1>8. ExceptionsOK' BY <1>2, <1>3 DEF IInv, ExceptionsOK, blockVars
<1>9. NoExceptionLost'
  <2>2. ASSUME NEW x \in thrown', x \in Throwable, ~fatal' PROVE Safe(x)'
    <3>1. Safe(x) BY <1>2, <2>2, SafeIfHeld DEF IInv
    <3> QED BY <1>2, <3>1 DEF Safe, blockVars
  <2> QED BY <2>2, HeldIfSafe
<1> QED BY <1>4, <1>5, <1>6, <1>7, <1>8, <1>9 DEF IInv

LEMMA FatalErrorStep == ASSUME IInv, FatalError PROVE IInv'
<1>2. /\ mode = "run" /\ mode' = "bailout" /\ fatal' /\ destructed' \subseteq Fiber
      /\ UNCHANGED <<contextVars, current, active, exception, frame, transfer, blocking,
                     callbacks, thrown, settled>>
  BY DEF FatalError
<1>4. FiberTypeOK'
  <2>1. fatal' = TRUE BY DEF FatalError
  <2> QED BY <1>2, <2>1 DEF IInv, FiberTypeOK, contextVars
<1>5. ContextsOK' BY <1>2, StayContexts
<1>6. HandlersNotSwitched' BY <1>2, StillHandlers DEF contextVars
<1>7. BlockingOK' BY <1>2, StillBlocking
<1>8. ExceptionsOK' BY <1>2 DEF IInv, ExceptionsOK
<1>9. NoExceptionLost' BY <1>2 DEF NoExceptionLost
<1> QED BY <1>4, <1>5, <1>6, <1>7, <1>8, <1>9 DEF IInv

-----------------------------------------------------------------------------
(* Callbacks, counted.                                                     *)

LEMMA CallbacksFinite == ASSUME IInv PROVE IsFiniteSet(Callbacks)
<1>1. IsFiniteSet(1 .. MaxBlocking) BY Names, FS_Interval
<1>2. IsFiniteSet(Context \X (1 .. MaxBlocking)) BY <1>1, Names, FS_Product
<1> QED BY <1>2, FS_Subset DEF Callbacks

\* With none blocked, nobody is in a callback.
LEMMA NoneBlocked == ASSUME IInv, blocking = 0 PROVE \A c \in Context : callbacks[c] = <<>>
<1> SUFFICES ASSUME NEW c \in Context, callbacks[c] # <<>> PROVE FALSE
  OBVIOUS
<1>1. callbacks[c] \in Seq(SUBSET Exception) BY DEF IInv, FiberTypeOK
<1>2. Len(callbacks[c]) \in Nat \ {0} BY <1>1
<1>3. Len(callbacks[c]) <= MaxBlocking BY DEF IInv, BlockingOK
<1>4. <<c, 1>> \in Callbacks BY <1>2, <1>3, Names DEF Callbacks
<1>5. Cardinality(Callbacks) <= 0 BY DEF IInv, BlockingOK
<1>6. Cardinality(Callbacks) \in Nat BY CallbacksFinite, FS_CardinalityType
<1>7. Cardinality(Callbacks) = 0 BY <1>5, <1>6
<1> QED BY <1>4, <1>7, CallbacksFinite, FS_EmptySet

\* A context that ends leaves its callbacks.
LEMMA LeaveBlocking ==
  ASSUME IInv, NEW c \in Context, callbacks' = [callbacks EXCEPT ![c] = <<>>],
         UNCHANGED <<blocking, fatal>>, fatal \/ callbacks[c] = <<>>
  PROVE  BlockingOK'
<1>1. callbacks \in [Context -> Seq(SUBSET Exception)] BY DEF IInv, FiberTypeOK
<1>2. callbacks'[c] = <<>> /\ \A d \in Context \ {c} : callbacks'[d] = callbacks[d] BY <1>1
<1>3. \A d \in Context : Len(callbacks'[d]) <= Len(callbacks[d]) /\ Len(callbacks'[d]) \in Nat
                         /\ Len(callbacks[d]) \in Nat
  <2>1. Len(callbacks'[c]) = 0 BY <1>2
  <2>2. \A d \in Context : Len(callbacks[d]) \in Nat BY <1>1
  <2> QED BY <1>2, <2>1, <2>2
<1>4. Callbacks' \subseteq Callbacks
  <2> SUFFICES ASSUME NEW x \in Context \X (1 .. MaxBlocking), x[2] <= Len(callbacks'[x[1]])
               PROVE  x[2] <= Len(callbacks[x[1]])
    BY DEF Callbacks
  <2> QED BY <1>3, Names
<1>5. /\ Cardinality(Callbacks') <= Cardinality(Callbacks)
      /\ Cardinality(Callbacks') \in Nat /\ Cardinality(Callbacks) \in Nat
  BY <1>4, CallbacksFinite, FS_Subset, FS_CardinalityType
<1>6. callbacks[c] = <<>> => callbacks' = callbacks BY <1>1
<1>7. callbacks[c] = <<>> => Callbacks' = Callbacks BY <1>6 DEF Callbacks
<1>8. \A d \in Context : Len(callbacks'[d]) <= MaxBlocking BY <1>3, Names DEF IInv, BlockingOK
<1>9. Cardinality(Callbacks') <= blocking
  BY <1>5 DEF IInv, FiberTypeOK, BlockingOK
<1>10. SwitchingUnblocked' BY <1>7 DEF IInv, BlockingOK, SwitchingUnblocked
<1> QED BY <1>8, <1>9, <1>10 DEF BlockingOK

LEMMA MainEndsStep == ASSUME IInv, MainEnds PROVE IInv'
<1>2. /\ current = "main" /\ mode \in {"throw", "bailout"}
      /\ mode' = "run" /\ exception' = {} /\ settled' = settled \cup exception
      /\ callbacks' = [callbacks EXCEPT !["main"] = <<>>]
      /\ mode = "bailout" \/ callbacks["main"] = <<>>
      /\ UNCHANGED <<contextVars, current, active, frame, transfer, blocking, destructed, thrown, fatal>>
  BY DEF MainEnds
<1>a. callbacks \in [Context -> Seq(SUBSET Exception)] /\ <<>> \in Seq(SUBSET Exception)
  BY DEF IInv, FiberTypeOK
<1>b. callbacks'["main"] = <<>> /\ \A d \in Context \ {"main"} : callbacks'[d] = callbacks[d]
  BY <1>2, <1>a, Names
<1>c. fatal \/ callbacks["main"] = <<>> BY <1>2 DEF IInv, ContextsOK, LandingOK
<1>3. Pure({}) BY DEF Pure
<1>4. FiberTypeOK'
  <2>1. callbacks' \in [Context -> Seq(SUBSET Exception)] BY <1>2, <1>a
  <2> QED BY <1>2, <2>1 DEF IInv, FiberTypeOK, contextVars
<1>5. ContextsOK' BY <1>2, StayContexts
<1>6. HandlersNotSwitched' BY <1>2, <1>b, StillHandlers DEF contextVars
<1>7. BlockingOK' BY <1>2, <1>c, LeaveBlocking, Names
<1>d. \A c \in Context : \A e \in Range(callbacks'[c]) : e \in Range(callbacks[c])
  <2>1. Range(callbacks'["main"]) = {} BY <1>b DEF Range
  <2> QED BY <1>b, <2>1
<1>8. ExceptionsOK' BY <1>2, <1>3, <1>d DEF IInv, ExceptionsOK
<1>9. NoExceptionLost'
  <2>2. ASSUME NEW x \in thrown', x \in Throwable, ~fatal' PROVE Safe(x)'
    <3>1. Safe(x) BY <1>2, <2>2, SafeIfHeld DEF IInv
    <3>2. callbacks' = callbacks BY <1>2, <1>a, <1>c, <2>2
    <3> QED BY <1>2, <3>1, <3>2 DEF Safe
  <2> QED BY <2>2, HeldIfSafe
<1> QED BY <1>4, <1>5, <1>6, <1>7, <1>8, <1>9 DEF IInv


-----------------------------------------------------------------------------
(* Callbacks that begin and end.                                           *)

LEMMA RangeAppend ==
  ASSUME NEW S, NEW s \in Seq(S), NEW e \in S
  PROVE  /\ Append(s, e) \in Seq(S) /\ Len(Append(s, e)) = Len(s) + 1
         /\ Range(Append(s, e)) = Range(s) \cup {e}
<1>1. Append(s, e) \in Seq(S) /\ Len(Append(s, e)) = Len(s) + 1 OBVIOUS
<1>2. ASSUME NEW x \in Range(s) PROVE x \in Range(Append(s, e))
  <2>1. PICK i \in 1 .. Len(s) : s[i] = x BY DEF Range
  <2>2. i \in 1 .. Len(s) + 1 /\ Append(s, e)[i] = x BY <2>1
  <2> QED BY <1>1, <2>2 DEF Range
<1>3. e \in Range(Append(s, e))
  <2>1. Len(s) + 1 \in 1 .. Len(s) + 1 /\ Append(s, e)[Len(s) + 1] = e OBVIOUS
  <2> QED BY <1>1, <2>1 DEF Range
<1>4. ASSUME NEW x \in Range(Append(s, e)), x # e PROVE x \in Range(s)
  <2>1. PICK i \in 1 .. Len(s) + 1 : Append(s, e)[i] = x BY <1>1 DEF Range
  <2>2. i \in 1 .. Len(s) /\ s[i] = x BY <1>4, <2>1
  <2> QED BY <2>2 DEF Range
<1> QED BY <1>1, <1>2, <1>3, <1>4

LEMMA RangeFront ==
  ASSUME NEW S, NEW s \in Seq(S), s # <<>>
  PROVE  /\ Front(s) \in Seq(S) /\ Len(Front(s)) = Len(s) - 1 /\ Len(s) \in Nat \ {0}
         /\ Last(s) \in S /\ Range(s) = Range(Front(s)) \cup {Last(s)}
<1>1. Len(s) \in Nat \ {0} OBVIOUS
<1>2. Front(s) = SubSeq(s, 1, Len(s) - 1) /\ Last(s) = s[Len(s)] BY DEF Front, Last
<1>3. Front(s) \in Seq(S) /\ Len(Front(s)) = Len(s) - 1
      /\ \A i \in 1 .. Len(s) - 1 : Front(s)[i] = s[i]
  <2>1. PICK n \in Nat : n = Len(s) - 1 BY <1>1
  <2>2. \A i \in 1 .. n : s[i] \in S BY <1>1, <2>1
  <2>3. /\ SubSeq(s, 1, n) \in Seq(S) /\ Len(SubSeq(s, 1, n)) = n
        /\ \A i \in 1 .. n : SubSeq(s, 1, n)[i] = s[i]
    BY <2>1, <2>2
  <2> QED BY <1>2, <2>1, <2>3
<1>4. Last(s) \in Range(s) /\ Last(s) \in S BY <1>1, <1>2 DEF Range
<1>5. ASSUME NEW x \in Range(Front(s)) PROVE x \in Range(s)
  <2>1. PICK i \in 1 .. Len(s) - 1 : Front(s)[i] = x BY <1>3 DEF Range
  <2>2. i \in 1 .. Len(s) /\ s[i] = x BY <1>1, <1>3, <2>1
  <2> QED BY <2>2 DEF Range
<1>6. ASSUME NEW x \in Range(s), x # Last(s) PROVE x \in Range(Front(s))
  <2>1. PICK i \in 1 .. Len(s) : s[i] = x BY DEF Range
  <2>2. i # Len(s) BY <1>2, <1>6, <2>1
  <2>3. i \in 1 .. Len(s) - 1 /\ Front(s)[i] = x BY <1>1, <1>3, <2>1, <2>2
  <2> QED BY <1>3, <2>3 DEF Range
<1> QED BY <1>1, <1>3, <1>4, <1>5, <1>6

\* What an exception is chained to is behind it or given up.
LEMMA ChainKeeps ==
  ASSUME NEW ex \in SUBSET Exception, NEW prev \in SUBSET Exception, Pure(ex), Pure(prev)
  PROVE  /\ Chain(ex, prev) \in SUBSET Exception /\ Pure(Chain(ex, prev))
         /\ GivenUp(ex, prev) \in SUBSET Exception
         /\ \A x \in Throwable : x \in ex \/ x \in prev
                                 => x \in Chain(ex, prev) \/ x \in GivenUp(ex, prev)
<1>1. Chain(ex, prev) = ex \/ (Chain(ex, prev) = ex \cup prev /\ ~Special(ex) /\ ~Special(prev))
  BY DEF Chain
<1>2. Pure(Chain(ex, prev)) BY <1>1 DEF Pure, Special
<1> QED BY <1>1, <1>2 DEF GivenUp

LEMMA BlockStep == ASSUME IInv, BlockSwitching PROVE IInv'
<1>0. PICK c0 \in Context : c0 = current BY DEF IInv, FiberTypeOK
<1>2. /\ mode \in {"run", "throw"} /\ Len(callbacks[c0]) < MaxBlocking
      /\ blocking' = blocking + 1
      /\ callbacks' = [callbacks EXCEPT ![c0] = Append(@, exception)]
      /\ exception' = {} /\ mode' = "run"
      /\ UNCHANGED <<contextVars, current, active, frame, transfer, destructed, thrown, settled, fatal>>
  BY <1>0 DEF BlockSwitching, fiberHistory
<1>3. callbacks \in [Context -> Seq(SUBSET Exception)] /\ exception \in SUBSET Exception
      /\ blocking \in Nat
  BY DEF IInv, FiberTypeOK
<1>4. callbacks[c0] \in Seq(SUBSET Exception) BY <1>3
<1>5. /\ Append(callbacks[c0], exception) \in Seq(SUBSET Exception)
      /\ Len(Append(callbacks[c0], exception)) = Len(callbacks[c0]) + 1
      /\ Range(Append(callbacks[c0], exception)) = Range(callbacks[c0]) \cup {exception}
  BY <1>3, <1>4, RangeAppend
<1>6. /\ callbacks' \in [Context -> Seq(SUBSET Exception)]
      /\ callbacks'[c0] = Append(callbacks[c0], exception)
      /\ \A c \in Context \ {c0} : callbacks'[c] = callbacks[c]
  BY <1>2, <1>3, <1>5
<1>7. Pure({}) BY DEF Pure
<1>8. FiberTypeOK' BY <1>2, <1>3, <1>6 DEF IInv, FiberTypeOK, contextVars
<1>9. ContextsOK' BY <1>2, StayContexts
<1>10. HandlersNotSwitched' BY <1>0, <1>2, <1>6, StillHandlers DEF contextVars
<1>11. BlockingOK'
  <2>1. PICK n \in Nat : n = Len(callbacks[c0]) + 1 BY <1>4
  <2>2. Len(callbacks'[c0]) = n /\ n \in 1 .. MaxBlocking /\ Len(callbacks[c0]) = n - 1
    BY <1>2, <1>4, <1>5, <1>6, <2>1, Names
  <2>3. Callbacks' = Callbacks \cup {<<c0, n>>}
    <3>1. ASSUME NEW c \in Context, NEW i \in 1 .. MaxBlocking
          PROVE  i <= Len(callbacks'[c]) <=> i <= Len(callbacks[c]) \/ (c = c0 /\ i = n)
      <4>1. CASE c = c0 BY <2>1, <2>2, <4>1, Names
      <4>2. CASE c # c0 BY <1>6, <4>2
      <4> QED BY <4>1, <4>2
    <3>2. \A x \in Context \X (1 .. MaxBlocking) :
            x[2] <= Len(callbacks'[x[1]]) <=> x[2] <= Len(callbacks[x[1]]) \/ x = <<c0, n>>
      BY <3>1
    <3>3. <<c0, n>> \in Context \X (1 .. MaxBlocking) BY <2>2
    <3> QED BY <3>2, <3>3 DEF Callbacks
  <2>4. <<c0, n>> \notin Callbacks BY <2>1, <2>2 DEF Callbacks
  <2>5. Cardinality(Callbacks') = Cardinality(Callbacks) + 1 /\ Cardinality(Callbacks) \in Nat
    BY <2>3, <2>4, CallbacksFinite, FS_AddElement, FS_CardinalityType
  <2>6. \A c \in Context : Len(callbacks'[c]) <= MaxBlocking
    BY <1>6, <2>2 DEF IInv, BlockingOK
  <2>7. Cardinality(Callbacks) <= blocking /\ (fatal \/ blocking = Cardinality(Callbacks))
    BY DEF IInv, BlockingOK, SwitchingUnblocked
  <2>8. Cardinality(Callbacks') <= blocking' BY <1>2, <1>3, <2>5, <2>7
  <2>9. fatal' \/ blocking' = Cardinality(Callbacks') BY <1>2, <1>3, <2>5, <2>7
  <2> QED BY <2>6, <2>8, <2>9 DEF BlockingOK, SwitchingUnblocked
<1>12. ExceptionsOK'
  <2>1. \A c \in Context : \A e \in Range(callbacks'[c]) : Pure(e)
    BY <1>5, <1>6 DEF IInv, ExceptionsOK
  <2> QED BY <1>2, <1>7, <2>1 DEF IInv, ExceptionsOK
<1>13. NoExceptionLost'
  <2>1. ASSUME NEW x \in thrown', x \in Throwable, ~fatal' PROVE Safe(x)'
    <3>1. Safe(x) BY <1>2, <2>1, SafeIfHeld DEF IInv
    <3>2. \A c \in Context : Range(callbacks[c]) \subseteq Range(callbacks'[c]) BY <1>5, <1>6
    <3>3. exception \in Range(callbacks'[c0]) BY <1>5, <1>6
    <3> QED BY <1>0, <1>2, <3>1, <3>2, <3>3 DEF Safe
  <2> QED BY <2>1, HeldIfSafe
<1> QED BY <1>8, <1>9, <1>10, <1>11, <1>12, <1>13 DEF IInv

LEMMA UnblockStep == ASSUME IInv, UnblockSwitching PROVE IInv'
<1>0. PICK c0 \in Context : c0 = current BY DEF IInv, FiberTypeOK
<1>1. PICK saved : saved = Last(callbacks[c0]) OBVIOUS
<1>2. /\ mode \in {"run", "throw"} /\ callbacks[c0] # <<>>
      /\ blocking' = blocking - 1
      /\ callbacks' = [callbacks EXCEPT ![c0] = Front(@)]
      /\ IF mode = "throw"
         THEN exception' = Chain(exception, saved) /\ settled' = settled \cup GivenUp(exception, saved)
         ELSE exception' = saved /\ settled' = settled
      /\ mode' = IF exception' = {} THEN "run" ELSE "throw"
      /\ UNCHANGED <<contextVars, current, active, frame, transfer, destructed, thrown, fatal>>
  BY <1>0, <1>1 DEF UnblockSwitching, CallbackEnds, Pending
<1>3. callbacks \in [Context -> Seq(SUBSET Exception)] /\ exception \in SUBSET Exception
      /\ blocking \in Nat /\ (mode = "throw" <=> exception # {}) /\ settled \in SUBSET Exception
  BY DEF IInv, FiberTypeOK
<1>4. callbacks[c0] \in Seq(SUBSET Exception) BY <1>3
<1>5. /\ Front(callbacks[c0]) \in Seq(SUBSET Exception) /\ Len(callbacks[c0]) \in Nat \ {0}
      /\ Len(Front(callbacks[c0])) = Len(callbacks[c0]) - 1
      /\ saved \in SUBSET Exception
      /\ Range(callbacks[c0]) = Range(Front(callbacks[c0])) \cup {saved}
  BY <1>1, <1>2, <1>4, RangeFront
<1>6. /\ callbacks' \in [Context -> Seq(SUBSET Exception)]
      /\ callbacks'[c0] = Front(callbacks[c0])
      /\ \A c \in Context \ {c0} : callbacks'[c] = callbacks[c]
  BY <1>2, <1>3, <1>5
<1>7. Pure(exception) /\ Pure(saved) BY <1>5 DEF IInv, ExceptionsOK
<1>a. /\ exception' \in SUBSET Exception /\ Pure(exception') /\ settled' \in SUBSET Exception
      /\ settled \subseteq settled'
      /\ \A x \in Throwable : x \in exception \/ x \in saved => x \in exception' \/ x \in settled'
  <2>1. CASE mode = "throw"
    <3>1. exception' = Chain(exception, saved) /\ settled' = settled \cup GivenUp(exception, saved)
      BY <1>2, <2>1
    <3>2. /\ Chain(exception, saved) \in SUBSET Exception /\ Pure(Chain(exception, saved))
          /\ GivenUp(exception, saved) \in SUBSET Exception
          /\ \A x \in Throwable : x \in exception \/ x \in saved
               => x \in Chain(exception, saved) \/ x \in GivenUp(exception, saved)
      BY <1>3, <1>5, <1>7, ChainKeeps
    <3> QED BY <1>3, <3>1, <3>2
  <2>2. CASE mode # "throw" BY <1>2, <1>3, <1>5, <1>7, <2>2
  <2> QED BY <2>1, <2>2
<1>11. BlockingOK' /\ blocking' \in Nat
  <2>1. PICK n \in Nat : n = Len(callbacks[c0]) BY <1>4
  <2>2. Len(callbacks'[c0]) = n - 1 /\ n \in 1 .. MaxBlocking
    BY <1>5, <1>6, <2>1, Names DEF IInv, BlockingOK
  <2>3. Callbacks' = Callbacks \ {<<c0, n>>}
    <3>1. ASSUME NEW c \in Context, NEW i \in 1 .. MaxBlocking
          PROVE  i <= Len(callbacks'[c]) <=> i <= Len(callbacks[c]) /\ ~(c = c0 /\ i = n)
      <4>1. CASE c = c0 BY <2>1, <2>2, <4>1, Names
      <4>2. CASE c # c0 BY <1>6, <4>2
      <4> QED BY <4>1, <4>2
    <3>2. \A x \in Context \X (1 .. MaxBlocking) :
            x[2] <= Len(callbacks'[x[1]]) <=> x[2] <= Len(callbacks[x[1]]) /\ x # <<c0, n>>
      BY <3>1
    <3> QED BY <3>2 DEF Callbacks
  <2>4. <<c0, n>> \in Callbacks BY <2>1, <2>2 DEF Callbacks
  <2>5. Cardinality(Callbacks') = Cardinality(Callbacks) - 1 /\ Cardinality(Callbacks) \in Nat
        /\ Cardinality(Callbacks') \in Nat
    BY <2>3, <2>4, CallbacksFinite, FS_RemoveElement, FS_CardinalityType
  <2>6. \A c \in Context : Len(callbacks'[c]) <= MaxBlocking
    BY <1>6, <2>2, Names DEF IInv, BlockingOK
  <2>7. Cardinality(Callbacks) <= blocking /\ (fatal \/ blocking = Cardinality(Callbacks))
    BY DEF IInv, BlockingOK, SwitchingUnblocked
  <2>8. Cardinality(Callbacks') <= blocking' /\ blocking' \in Nat BY <1>2, <1>3, <2>5, <2>7
  <2>9. fatal' \/ blocking' = Cardinality(Callbacks') BY <1>2, <1>3, <2>5, <2>7
  <2> QED BY <2>6, <2>8, <2>9 DEF BlockingOK, SwitchingUnblocked
<1>8. FiberTypeOK' BY <1>2, <1>6, <1>a, <1>11 DEF IInv, FiberTypeOK, contextVars
<1>9. ContextsOK'
  <2>1. mode' \in {"run", "throw"} BY <1>2
  <2> QED BY <1>2, <2>1, StayContexts
<1>b. \A c \in Context : Range(callbacks'[c]) \subseteq Range(callbacks[c]) BY <1>5, <1>6
<1>10. HandlersNotSwitched' BY <1>0, <1>2, <1>6, StillHandlers DEF contextVars
<1>12. ExceptionsOK' BY <1>2, <1>a, <1>b DEF IInv, ExceptionsOK
<1>13. NoExceptionLost'
  <2>1. ASSUME NEW x \in thrown', x \in Throwable, ~fatal' PROVE Safe(x)'
    <3>1. Safe(x) BY <1>2, <2>1, SafeIfHeld DEF IInv
    <3>2. CASE x \in exception \/ x \in saved BY <1>a, <2>1, <3>2 DEF Safe
    <3>3. CASE \E c \in Context : \E s \in Range(callbacks[c]) : x \in s
      BY <1>5, <1>6, <3>2, <3>3 DEF Safe
    <3> QED BY <1>2, <1>a, <3>1, <3>2, <3>3 DEF Safe
  <2> QED BY <2>1, HeldIfSafe
<1> QED BY <1>8, <1>9, <1>10, <1>11, <1>12, <1>13 DEF IInv


-----------------------------------------------------------------------------
(* Start, resume, throw and destroy.                                       *)

LEMMA ResumeRest ==
  ASSUME IInv, NEW f \in Fiber, NEW op \in {"resume", "destroy"}, NEW flag \in {"none", "ERROR"},
         NEW value \in SUBSET Exception, Pure(value), mode \in {"run", "throw"},
         status[f] = "init" \/ (status[f] = "suspended" /\ caller[f] = "none"),
         zend_fiber_resume_internal(f, op, flag, value),
         UNCHANGED <<blockVars, settled, fatal>>,
         thrown' \in SUBSET Exception, thrown' \cap Throwable \subseteq thrown \cup value,
         stack' \in [Fiber -> {"none", "mapped", "freed"}],
         flags' \in [Fiber -> SUBSET {"THREW", "BAILOUT", "DESTROYED"}],
         op = "resume" => mode = "run" /\ blocking = 0
  PROVE  FiberTypeOK' /\ HandlersNotSwitched' /\ BlockingOK' /\ ExceptionsOK' /\ NoExceptionLost'
<1>0. PICK c0 \in Context : c0 = current BY DEF IInv, FiberTypeOK
<1>1. /\ f # c0 /\ f \in Context /\ frame[c0] = NoFrame /\ transfer = NoTransfer
      /\ status[c0] = "running"
  BY <1>0, MayResume
<1>2. /\ status'[f] = "running" /\ status'[c0] = "suspended"
      /\ \A c \in Context \ {f, c0} : status'[c] = status[c]
      /\ status' \in [Context -> {"init", "running", "suspended", "dead"}]
      /\ caller' \in [Fiber -> Context \cup {"none"}]
      /\ frame'[c0] = [op |-> op, fiber |-> f, previous |-> active, saved |-> exception]
      /\ \A c \in Context \ {c0} : frame'[c] = frame[c]
      /\ frame' \in [Context -> Frame]
      /\ transfer' = [from |-> c0, flag |-> flag, value |-> value]
      /\ current' = f /\ mode' = "landing" /\ active' = f /\ exception' = {}
  <2>1. Resumed(f, op, flag, value) BY ResumeFields
  <2> QED BY <1>0, <2>1 DEF Resumed
<1>3. /\ frame'[c0].op = op /\ frame'[c0].saved = exception
      /\ transfer'.value = value
  BY <1>2
<1>4. FiberTypeOK'
  <2>1. transfer' \in [from : Context \cup {"none"}, flag : {"none", "ERROR", "BAILOUT"},
                       value : SUBSET Exception]
    BY <1>2
  <2> QED BY <1>1, <1>2, <2>1 DEF IInv, FiberTypeOK, blockVars
<1>5. op = "resume" => \A c \in Context : callbacks[c] = <<>> BY NoneBlocked
<1>6. op = "resume" => exception = {} BY DEF IInv, FiberTypeOK
<1>7. HandlersNotSwitched'
  <2> SUFFICES ASSUME NEW c \in Context, callbacks'[c] # <<>>, c # f, status'[c] # "dead"
               PROVE  frame'[c].op = "destroy"
    BY <1>2 DEF HandlersNotSwitched
  <2>1. op = "destroy" /\ callbacks[c] # <<>> BY <1>5 DEF blockVars
  <2>2. CASE c = c0 BY <1>3, <2>1, <2>2
  <2>3. CASE c # c0 BY <1>0, <1>2, <2>1, <2>3 DEF IInv, HandlersNotSwitched
  <2> QED BY <2>2, <2>3
<1>8. BlockingOK' BY StillBlocking DEF blockVars
<1>9. ExceptionsOK'
  <2>1. Pure(exception') BY <1>2 DEF Pure
  <2>2. ASSUME NEW c \in Context
        PROVE  /\ Pure(frame'[c].saved) /\ \A e \in Range(callbacks'[c]) : Pure(e)
               /\ frame'[c].op # "destroy" => frame'[c].saved = {}
    <3>1. CASE c = c0 BY <1>3, <1>6, <3>1 DEF IInv, ExceptionsOK, blockVars
    <3>2. CASE c # c0 BY <1>2, <3>2 DEF IInv, ExceptionsOK, blockVars
    <3> QED BY <3>1, <3>2
  <2> QED BY <1>3, <2>1, <2>2 DEF ExceptionsOK
<1>10. NoExceptionLost'
  <2>1. ASSUME NEW x \in thrown', x \in Throwable, ~fatal' PROVE Safe(x)'
    <3>1. CASE x \in value BY <1>3, <3>1 DEF Safe
    <3>2. CASE x \in thrown
      <4>1. Safe(x) BY <2>1, <3>2, SafeIfHeld DEF IInv
      <4>2. x \in exception => x \in frame'[c0].saved BY <1>3
      <4>3. x \notin transfer.value /\ x \notin frame[c0].saved BY <1>1 DEF NoTransfer, NoFrame
      <4> QED BY <1>2, <4>1, <4>2, <4>3 DEF Safe, blockVars
    <3> QED BY <2>1, <3>1, <3>2
  <2> QED BY <2>1, HeldIfSafe
<1> QED BY <1>4, <1>7, <1>8, <1>9, <1>10

LEMMA StartStep == ASSUME IInv, NEW f \in Fiber, Start(f) PROVE IInv'
<1>1. /\ mode = "run" /\ blocking = 0 /\ status[f] = "init"
      /\ stack' = [stack EXCEPT ![f] = "mapped"]
      /\ zend_fiber_resume_internal(f, "resume", "none", {})
      /\ UNCHANGED <<flags, blockVars, thrown, settled, fatal>>
  BY DEF Start, fiberHistory
<1>2. /\ stack \in [Fiber -> {"none", "mapped", "freed"}] /\ thrown \in SUBSET Exception
      /\ flags \in [Fiber -> SUBSET {"THREW", "BAILOUT", "DESTROYED"}]
  BY DEF IInv, FiberTypeOK
<1>3. /\ stack' \in [Fiber -> {"none", "mapped", "freed"}]
      /\ stack'[f] = "mapped" /\ \A g \in Fiber \ {f} : stack'[g] = stack[g]
  BY <1>1, <1>2
<1>4. ContextsOK' BY <1>1, <1>3, ResumeContexts
<1>5. Pure({}) /\ {} \in SUBSET Exception BY DEF Pure
<1>6. FiberTypeOK' /\ HandlersNotSwitched' /\ BlockingOK' /\ ExceptionsOK' /\ NoExceptionLost'
  BY <1>1, <1>2, <1>3, <1>5, ResumeRest
<1> QED BY <1>4, <1>6 DEF IInv

\* A suspended fiber has a stack.
LEMMA SuspendedMapped ==
  ASSUME IInv, NEW f \in Fiber, status[f] = "suspended" PROVE stack[f] = "mapped"
BY DEF IInv, ContextsOK, StacksOK

LEMMA ResumeStep == ASSUME IInv, NEW f \in Fiber, Resume(f) PROVE IInv'
<1>1. /\ mode = "run" /\ blocking = 0 /\ status[f] = "suspended" /\ caller[f] = "none"
      /\ zend_fiber_resume_internal(f, "resume", "none", {})
      /\ UNCHANGED <<stack, flags, blockVars, thrown, settled, fatal>>
  BY DEF Resume, CanResume, fiberHistory
<1>2. /\ stack \in [Fiber -> {"none", "mapped", "freed"}] /\ thrown \in SUBSET Exception
      /\ flags \in [Fiber -> SUBSET {"THREW", "BAILOUT", "DESTROYED"}]
  BY DEF IInv, FiberTypeOK
<1>3. stack[f] = "mapped" BY <1>1, SuspendedMapped
<1>4. ContextsOK' BY <1>1, <1>3, ResumeContexts
<1>5. Pure({}) /\ {} \in SUBSET Exception BY DEF Pure
<1>6. FiberTypeOK' /\ HandlersNotSwitched' /\ BlockingOK' /\ ExceptionsOK' /\ NoExceptionLost'
  BY <1>1, <1>2, <1>5, ResumeRest
<1> QED BY <1>4, <1>6 DEF IInv

LEMMA ThrowIntoStep == ASSUME IInv, NEW f \in Fiber, ThrowInto(f) PROVE IInv'
<1>0. PICK e \in NewException :
        thrown' = thrown \cup {e} /\ zend_fiber_resume_internal(f, "resume", "ERROR", {e})
  BY DEF ThrowInto
<1>1. /\ mode = "run" /\ blocking = 0 /\ status[f] = "suspended" /\ caller[f] = "none"
      /\ UNCHANGED <<stack, flags, blockVars, settled, fatal>>
  BY DEF ThrowInto, CanResume
<1>2. /\ stack \in [Fiber -> {"none", "mapped", "freed"}] /\ thrown \in SUBSET Exception
      /\ flags \in [Fiber -> SUBSET {"THREW", "BAILOUT", "DESTROYED"}]
  BY DEF IInv, FiberTypeOK
<1>3. stack[f] = "mapped" BY <1>1, SuspendedMapped
<1>4. ContextsOK' BY <1>0, <1>1, <1>3, ResumeContexts
<1>5. Pure({e}) /\ {e} \in SUBSET Exception BY Names DEF NewException, Exception, Pure, Special
<1>6. thrown' \in SUBSET Exception /\ thrown' \cap Throwable \subseteq thrown \cup {e}
  BY <1>0, <1>2, <1>5
<1>7. FiberTypeOK' /\ HandlersNotSwitched' /\ BlockingOK' /\ ExceptionsOK' /\ NoExceptionLost'
  BY <1>0, <1>1, <1>2, <1>5, <1>6, ResumeRest
<1> QED BY <1>4, <1>7 DEF IInv

LEMMA DestroyStep == ASSUME IInv, NEW f \in Fiber, Destroy(f) PROVE IInv'
<1>1. /\ mode \in {"run", "throw"} /\ status[f] = "suspended" /\ caller[f] = "none"
      /\ flags' = [flags EXCEPT ![f] = @ \cup {"DESTROYED"}]
      /\ zend_fiber_resume_internal(f, "destroy", "ERROR", {"graceful"})
      /\ UNCHANGED <<stack, blockVars, thrown, settled, fatal>>
  BY DEF Destroy, fiberHistory
<1>2. /\ stack \in [Fiber -> {"none", "mapped", "freed"}] /\ thrown \in SUBSET Exception
      /\ flags \in [Fiber -> SUBSET {"THREW", "BAILOUT", "DESTROYED"}]
  BY DEF IInv, FiberTypeOK
<1>3. stack[f] = "mapped" BY <1>1, SuspendedMapped
<1>a. /\ flags' \in [Fiber -> SUBSET {"THREW", "BAILOUT", "DESTROYED"}]
      /\ \A g \in Fiber \ {f} : flags'[g] = flags[g]
  BY <1>1, <1>2
<1>4. ContextsOK' BY <1>1, <1>3, <1>a, ResumeContexts
<1>5. Pure({"graceful"}) /\ {"graceful"} \in SUBSET Exception BY Names DEF Exception, Pure, Special
<1>6. FiberTypeOK' /\ HandlersNotSwitched' /\ BlockingOK' /\ ExceptionsOK' /\ NoExceptionLost'
  BY <1>1, <1>2, <1>5, <1>a, ResumeRest
<1> QED BY <1>4, <1>6 DEF IInv


-----------------------------------------------------------------------------
(* Suspend, and the end of a fiber.                                        *)

LEMMA SuspendStep == ASSUME IInv, Suspend PROVE IInv'
<1>0. PICK p : p = current OBVIOUS
<1>1. /\ mode = "run" /\ active # "none" /\ blocking = 0 /\ "DESTROYED" \notin flags[active]
      /\ caller' = [caller EXCEPT ![active] = "none"]
      /\ frame' = [frame EXCEPT ![current] =
                     [op |-> "suspend", fiber |-> active, previous |-> active, saved |-> {}]]
      /\ zend_fiber_switch_context(caller[active], status, "none", {})
      /\ UNCHANGED <<stack, flags, active, exception, blockVars, thrown, settled, fatal>>
  BY DEF Suspend, CanSuspend, fiberHistory
<1>2. p \in Fiber /\ p \in Context /\ active = p
  <2>1. active = IF current = "main" THEN "none" ELSE current
    BY <1>1 DEF IInv, ContextsOK, ActiveRuns
  <2>2. current \in Context BY DEF IInv, FiberTypeOK
  <2> QED BY <1>0, <1>1, <2>1, <2>2, Names
<1>3. PICK c : c = caller[p] OBVIOUS
<1>4. /\ c \in Context /\ c # p /\ status[c] = "suspended" /\ status[p] = "running"
      /\ frame[p] = NoFrame /\ transfer = NoTransfer
  BY <1>0, <1>1, <1>2, <1>3, MayLeave
<1>5. /\ status \in [Context -> {"init", "running", "suspended", "dead"}]
      /\ caller \in [Fiber -> Context \cup {"none"}] /\ frame \in [Context -> Frame]
      /\ exception = {}
  BY <1>1 DEF IInv, FiberTypeOK
<1>6. /\ status' = [status EXCEPT ![c] = "running",
                                  ![p] = IF @ = "running" THEN "suspended" ELSE @]
      /\ transfer' = [from |-> p, flag |-> "none", value |-> {}]
      /\ current' = c /\ mode' = "landing"
  BY <1>0, <1>1, <1>2, <1>3 DEF zend_fiber_switch_context
<1>7. /\ status'[c] = "running" /\ status'[p] = "suspended"
      /\ \A d \in Context \ {c, p} : status'[d] = status[d]
      /\ status' \in [Context -> {"init", "running", "suspended", "dead"}]
  BY <1>2, <1>4, <1>5, <1>6
<1>8. /\ caller'[p] = "none" /\ \A g \in Fiber \ {p} : caller'[g] = caller[g]
      /\ caller' \in [Fiber -> Context \cup {"none"}]
  BY <1>1, <1>2, <1>5
<1>9. [op |-> "suspend", fiber |-> p, previous |-> p, saved |-> {}] \in Frame BY <1>2 DEF Frame
<1>10. /\ frame'[p] = [op |-> "suspend", fiber |-> p, previous |-> p, saved |-> {}]
       /\ \A d \in Context \ {p} : frame'[d] = frame[d]
       /\ frame' \in [Context -> Frame]
  BY <1>0, <1>1, <1>2, <1>5, <1>9
<1>11. /\ transfer'.from = p /\ transfer'.flag = "none" /\ transfer'.value = {}
       /\ transfer' \in [from : Context \cup {"none"}, flag : {"none", "ERROR", "BAILOUT"},
                         value : SUBSET Exception]
  BY <1>2, <1>6
<1>12. Left(p, c, "suspended")
  <2>1. frame'[p].op = "suspend" /\ frame'[p].previous = p BY <1>10
  <2>2. stack' = stack /\ flags' = flags /\ "DESTROYED" \notin flags[p] BY <1>1, <1>2
  <2> QED BY <1>6, <1>7, <1>8, <1>10, <1>11, <2>1, <2>2 DEF Left
<1>13. ContextsOK'
  <2>1. current = p /\ mode # "landing" BY <1>0, <1>1
  <2> QED BY <1>2, <1>3, <1>12, <2>1, LeaveContexts
<1>14. FiberTypeOK'
  BY <1>1, <1>4, <1>5, <1>6, <1>7, <1>8, <1>10, <1>11 DEF IInv, FiberTypeOK, blockVars
<1>15. \A d \in Context : callbacks'[d] = <<>> BY <1>1, NoneBlocked DEF blockVars
<1>16. HandlersNotSwitched' BY <1>15 DEF HandlersNotSwitched
<1>17. BlockingOK' BY <1>1, StillBlocking DEF blockVars
<1>18. ExceptionsOK'
  <2>1. Pure({}) BY DEF Pure
  <2>2. frame'[p].saved = {} BY <1>10
  <2> QED BY <1>1, <1>5, <1>10, <1>11, <2>1, <2>2 DEF IInv, ExceptionsOK, blockVars
<1>19. NoExceptionLost'
  <2>1. ASSUME NEW x \in thrown', x \in Throwable, ~fatal' PROVE Safe(x)'
    <3>1. Safe(x) BY <1>1, <2>1, SafeIfHeld DEF IInv
    <3>2. x \notin exception /\ x \notin transfer.value /\ x \notin frame[p].saved
      BY <1>4, <1>5 DEF NoTransfer, NoFrame
    <3> QED BY <1>1, <1>10, <3>1, <3>2 DEF Safe, blockVars
  <2> QED BY <2>1, HeldIfSafe
<1> QED BY <1>13, <1>14, <1>16, <1>17, <1>18, <1>19 DEF IInv

LEMMA EndsStep ==
  ASSUME IInv, NEW p \in Fiber, NEW flag \in {"none", "ERROR", "BAILOUT"},
         NEW value \in SUBSET Exception, Pure(value), Ends(p, flag, value), settled' = settled,
         mode # "landing", fatal \/ callbacks[p] = <<>>,
         flag = "BAILOUT" => fatal, flag # "ERROR" => value = {},
         \A x \in exception \cap Throwable : fatal \/ x \in value
  PROVE  IInv'
<1>0. PICK c : c = caller[p] OBVIOUS
<1>1. /\ current = p
      /\ flags' = [flags EXCEPT ![p] = @ \cup
                     (CASE flag = "ERROR" -> {"THREW"} [] flag = "BAILOUT" -> {"BAILOUT"}
                        [] OTHER -> {})]
      /\ exception' = {}
      /\ status' = [[status EXCEPT ![p] = "dead"] EXCEPT
                      ![c] = "running", ![p] = IF @ = "running" THEN "suspended" ELSE @]
      /\ transfer' = [from |-> p, flag |-> flag, value |-> value]
      /\ current' = c /\ mode' = "landing"
      /\ callbacks' = [callbacks EXCEPT ![p] = <<>>]
      /\ UNCHANGED <<stack, caller, active, frame, blocking, destructed, thrown, settled, fatal>>
  BY <1>0 DEF Ends, zend_fiber_switch_context
<1>2. /\ c \in Context /\ c # p /\ p \in Context /\ status[p] = "running"
      /\ frame[p] = NoFrame /\ transfer = NoTransfer
  BY <1>0, <1>1, MayLeave
<1>3. /\ status \in [Context -> {"init", "running", "suspended", "dead"}]
      /\ flags \in [Fiber -> SUBSET {"THREW", "BAILOUT", "DESTROYED"}]
      /\ callbacks \in [Context -> Seq(SUBSET Exception)]
      /\ caller \in [Fiber -> Context \cup {"none"}]
  BY DEF IInv, FiberTypeOK
<1>4. /\ status'[c] = "running" /\ status'[p] = "dead"
      /\ \A d \in Context \ {c, p} : status'[d] = status[d]
      /\ status' \in [Context -> {"init", "running", "suspended", "dead"}]
  <2>1. PICK st : st = [status EXCEPT ![p] = "dead"] OBVIOUS
  <2>2. /\ st[p] = "dead" /\ \A d \in Context \ {p} : st[d] = status[d]
        /\ st \in [Context -> {"init", "running", "suspended", "dead"}]
    BY <1>2, <1>3, <2>1
  <2>3. status' = [st EXCEPT ![c] = "running", ![p] = IF @ = "running" THEN "suspended" ELSE @]
    BY <1>1, <2>1
  <2> QED BY <1>2, <2>2, <2>3
<1>5. /\ flags' \in [Fiber -> SUBSET {"THREW", "BAILOUT", "DESTROYED"}]
      /\ \A g \in Fiber : "DESTROYED" \in flags'[g] => "DESTROYED" \in flags[g]
  <2>1. PICK new \in SUBSET {"THREW", "BAILOUT"} : flags' = [flags EXCEPT ![p] = @ \cup new]
    BY <1>1
  <2> QED BY <1>3, <2>1
<1>6. /\ callbacks' \in [Context -> Seq(SUBSET Exception)]
      /\ callbacks'[p] = <<>> /\ \A d \in Context \ {p} : callbacks'[d] = callbacks[d]
  <2>1. <<>> \in Seq(SUBSET Exception) OBVIOUS
  <2> QED BY <1>1, <1>2, <1>3, <2>1
<1>7. /\ transfer'.from = p /\ transfer'.flag = flag /\ transfer'.value = value
      /\ transfer' \in [from : Context \cup {"none"}, flag : {"none", "ERROR", "BAILOUT"},
                        value : SUBSET Exception]
  BY <1>1, <1>2
<1>8. Left(p, c, "dead")
  <2>1. caller'[p] = c /\ caller' = caller /\ frame' = frame /\ stack' = stack BY <1>0, <1>1
  <2> QED BY <1>1, <1>2, <1>4, <1>5, <1>7, <2>1 DEF Left
<1>9. ContextsOK' BY <1>0, <1>1, <1>8, LeaveContexts
<1>10. FiberTypeOK'
  BY <1>1, <1>2, <1>4, <1>5, <1>6, <1>7 DEF IInv, FiberTypeOK
<1>11. HandlersNotSwitched'
  <2> SUFFICES ASSUME NEW d \in Context, callbacks'[d] # <<>>, d # c, status'[d] # "dead"
               PROVE  frame'[d].op = "destroy"
    BY <1>1 DEF HandlersNotSwitched
  <2>1. d # p /\ callbacks[d] # <<>> /\ status[d] # "dead" BY <1>4, <1>6
  <2> QED BY <1>1, <2>1 DEF IInv, HandlersNotSwitched
<1>12. BlockingOK' BY <1>1, <1>2, LeaveBlocking
<1>13. \A d \in Context : Range(callbacks'[d]) \subseteq Range(callbacks[d])
  <2>1. Range(callbacks'[p]) = {} BY <1>6 DEF Range
  <2> QED BY <1>6, <2>1
<1>14. ExceptionsOK'
  <2>1. Pure({}) BY DEF Pure
  <2> QED BY <1>1, <1>7, <1>13, <2>1 DEF IInv, ExceptionsOK
<1>15. NoExceptionLost'
  <2>1. ASSUME NEW x \in thrown', x \in Throwable, ~fatal' PROVE Safe(x)'
    <3>1. Safe(x) BY <1>1, <2>1, SafeIfHeld DEF IInv
    <3>2. x \notin transfer.value BY <1>2 DEF NoTransfer
    <3>3. x \in exception => x \in transfer'.value BY <1>1, <1>7, <2>1
    <3>4. callbacks' = callbacks BY <1>1, <1>3, <2>1
    <3> QED BY <1>1, <3>1, <3>2, <3>3, <3>4 DEF Safe
  <2> QED BY <2>1, HeldIfSafe
<1> QED BY <1>9, <1>10, <1>11, <1>12, <1>14, <1>15 DEF IInv

LEMMA EndSteps ==
  ASSUME IInv, NEW f \in Fiber,
         Returns(f) \/ EndsSwallowing(f) \/ EndsThrowing(f) \/ EndsBailout(f)
  PROVE  IInv'
<1>1. Pure({}) /\ {} \in SUBSET Exception BY DEF Pure
<1>2. exception \in SUBSET Exception /\ Pure(exception) /\ (mode = "throw" <=> exception # {})
  BY DEF IInv, FiberTypeOK, ExceptionsOK
<1>3. CASE Returns(f)
  <2>1. /\ mode = "run" /\ callbacks[f] = <<>> /\ Ends(f, "none", {}) /\ settled' = settled
    BY <1>3 DEF Returns
  <2>2. \A x \in exception \cap Throwable : fatal \/ x \in {} BY <1>2, <2>1
  <2> QED BY <1>1, <2>1, <2>2, EndsStep
<1>4. CASE EndsSwallowing(f)
  <2>1. /\ mode = "throw" /\ callbacks[f] = <<>> /\ Ends(f, "none", {}) /\ settled' = settled
        /\ Special(exception)
    BY <1>4 DEF EndsSwallowing, SwallowedAtEnd
  <2>2. \A x \in exception \cap Throwable : fatal \/ x \in {} BY <1>2, <2>1 DEF Pure
  <2> QED BY <1>1, <2>1, <2>2, EndsStep
<1>5. CASE EndsThrowing(f)
  <2>1. /\ mode = "throw" /\ callbacks[f] = <<>> /\ Ends(f, "ERROR", exception) /\ settled' = settled
    BY <1>5 DEF EndsThrowing
  <2> QED BY <1>2, <2>1, EndsStep
<1>6. CASE EndsBailout(f)
  <2>1. /\ mode = "bailout" /\ Ends(f, "BAILOUT", {}) /\ settled' = settled
    BY <1>6 DEF EndsBailout
  <2>2. fatal BY <2>1 DEF IInv, ContextsOK, LandingOK
  <2> QED BY <1>1, <2>1, <2>2, EndsStep
<1> QED BY <1>3, <1>4, <1>5, <1>6


-----------------------------------------------------------------------------
(* A switch arrives.                                                       *)

LEMMA LandRest ==
  ASSUME IInv, mode = "landing", Landed,
         exception' \in SUBSET Exception, Pure(exception'),
         settled' \in SUBSET Exception, settled \subseteq settled',
         mode' \in {"run", "throw", "bailout"}, mode' = "throw" <=> exception' # {},
         active' \in Fiber \cup {"none"},
         fatal \/ \A x \in Throwable : x \in transfer.value \/ x \in frame[current].saved
                                        => x \in exception' \/ x \in settled'
  PROVE  FiberTypeOK' /\ HandlersNotSwitched' /\ BlockingOK' /\ ExceptionsOK' /\ NoExceptionLost'
<1>0. PICK c0 \in Context : c0 = current BY DEF IInv, FiberTypeOK
<1>1. /\ stack' \in [Fiber -> {"none", "mapped", "freed"}]
      /\ caller' \in [Fiber -> Context \cup {"none"}]
      /\ frame' \in [Context -> Frame] /\ frame'[c0] = NoFrame
      /\ \A c \in Context \ {c0} : frame'[c] = frame[c]
      /\ transfer' = NoTransfer
      /\ UNCHANGED <<status, flags, current, blockVars, thrown, fatal>>
  BY <1>0, LandedFields
<1>2. exception = {} BY DEF IInv, FiberTypeOK
<1>3. /\ NoTransfer.value = {} /\ NoFrame.saved = {} /\ Pure({})
      /\ NoTransfer \in [from : Context \cup {"none"}, flag : {"none", "ERROR", "BAILOUT"},
                         value : SUBSET Exception]
  BY DEF NoTransfer, NoFrame, Pure
<1>4. FiberTypeOK' BY <1>1, <1>3 DEF IInv, FiberTypeOK, blockVars
<1>5. HandlersNotSwitched' BY <1>0, <1>1 DEF IInv, HandlersNotSwitched, blockVars
<1>6. BlockingOK' BY <1>1, StillBlocking DEF blockVars
<1>7. ExceptionsOK'
  <2>1. ASSUME NEW c \in Context
        PROVE  /\ Pure(frame'[c].saved) /\ \A e \in Range(callbacks'[c]) : Pure(e)
               /\ frame'[c].op # "destroy" => frame'[c].saved = {}
    <3>1. CASE c = c0 BY <1>1, <1>3, <3>1 DEF IInv, ExceptionsOK, blockVars
    <3>2. CASE c # c0 BY <1>1, <3>2 DEF IInv, ExceptionsOK, blockVars
    <3> QED BY <3>1, <3>2
  <2> QED BY <1>1, <1>3, <2>1 DEF ExceptionsOK
<1>8. NoExceptionLost'
  <2>1. ASSUME NEW x \in thrown', x \in Throwable, ~fatal' PROVE Safe(x)'
    <3>1. Safe(x) /\ ~fatal BY <1>1, <2>1, SafeIfHeld DEF IInv
    <3>2. CASE x \in transfer.value \/ x \in frame[c0].saved
      BY <1>0, <2>1, <3>1, <3>2 DEF Safe
    <3>3. CASE \E c \in Context : c # c0 /\ x \in frame[c].saved
      <4>1. PICK c \in Context : c # c0 /\ x \in frame[c].saved BY <3>3
      <4>2. x \in frame'[c].saved BY <1>1, <4>1
      <4> QED BY <4>2 DEF Safe
    <3>4. CASE x \in settled BY <3>4 DEF Safe
    <3>5. CASE \E c \in Context : \E s \in Range(callbacks[c]) : x \in s
      BY <1>1, <3>5 DEF Safe, blockVars
    <3> QED BY <1>2, <3>1, <3>2, <3>3, <3>4, <3>5 DEF Safe
  <2> QED BY <2>1, HeldIfSafe
<1> QED BY <1>4, <1>5, <1>6, <1>7, <1>8

LEMMA LandStep == ASSUME IInv, Land PROVE IInv'
<1>0. PICK c0 \in Context : c0 = current BY DEF IInv, FiberTypeOK
<1>1. /\ mode = "landing" /\ Landed
  BY DEF Land, LandStart, LandBailout, LandResume, LandDestroy
<1>2. /\ frame[c0] \in Frame /\ transfer.value \in SUBSET Exception /\ settled \in SUBSET Exception
      /\ exception = {} /\ active \in Fiber \cup {"none"}
  BY <1>1 DEF IInv, FiberTypeOK
<1>3. /\ frame[c0].saved \in SUBSET Exception /\ frame[c0].previous \in Fiber \cup {"none"}
  BY <1>2 DEF Frame
<1>4. /\ Pure(transfer.value) /\ Pure(frame[c0].saved)
      /\ frame[c0].op # "destroy" => frame[c0].saved = {}
  BY DEF IInv, ExceptionsOK
<1>5. frame[c0].op # "none" => frame[c0].previous = IF c0 = "main" THEN "none" ELSE c0
  BY DEF IInv, ContextsOK, FramesOK, FrameOK
<1>6. /\ frame[c0].op = "none" => c0 \in Fiber /\ active = c0 /\ transfer.value = {}
      /\ transfer.flag = "BAILOUT" => fatal
      /\ transfer.flag # "ERROR" => transfer.value = {}
  BY <1>0, <1>1 DEF IInv, ContextsOK, LandingOK
<1>7. Pure({}) BY DEF Pure
<1>8. CASE LandStart
  <2>1. /\ frame[c0].op = "none" /\ exception' = {} /\ mode' = "run"
        /\ active' = active /\ settled' = settled
    BY <1>0, <1>8 DEF LandStart, Pending
  <2>2. ContextsOK' BY <1>0, <1>1, <1>6, <2>1, LandContexts, Names
  <2>3. \A x \in Throwable : x \notin transfer.value /\ x \notin frame[c0].saved
    BY <1>4, <1>6, <2>1
  <2>4. FiberTypeOK' /\ HandlersNotSwitched' /\ BlockingOK' /\ ExceptionsOK' /\ NoExceptionLost'
    BY <1>0, <1>1, <1>2, <1>7, <2>1, <2>3, LandRest
  <2> QED BY <2>2, <2>4 DEF IInv
<1>9. CASE LandBailout
  <2>1. /\ active' = "none" /\ mode' = "bailout" /\ exception' = exception /\ settled' = settled
        /\ fatal
    BY <1>6, <1>9 DEF LandBailout
  <2>2. ContextsOK' BY <1>1, <2>1, LandContexts
  <2>3. FiberTypeOK' /\ HandlersNotSwitched' /\ BlockingOK' /\ ExceptionsOK' /\ NoExceptionLost'
    BY <1>1, <1>2, <1>7, <2>1, LandRest
  <2> QED BY <2>2, <2>3 DEF IInv
<1>10. CASE LandResume
  <2>1. /\ frame[c0].op \in {"resume", "suspend"} /\ active' = frame[c0].previous
        /\ exception' = transfer.value /\ settled' = settled
        /\ mode' = IF exception' = {} THEN "run" ELSE "throw"
    BY <1>0, <1>10 DEF LandResume, Pending
  <2>2. ContextsOK' BY <1>0, <1>1, <1>5, <2>1, LandContexts
  <2>3. \A x \in Throwable : x \notin frame[c0].saved BY <1>4, <2>1
  <2>4. FiberTypeOK' /\ HandlersNotSwitched' /\ BlockingOK' /\ ExceptionsOK' /\ NoExceptionLost'
    BY <1>0, <1>1, <1>2, <1>3, <1>4, <2>1, <2>3, LandRest
  <2> QED BY <2>2, <2>4 DEF IInv
<1>11. CASE LandDestroy
  <2>0. PICK saved \in SUBSET Exception : saved = frame[c0].saved BY <1>3
  <2>1. /\ frame[c0].op = "destroy" /\ active' = frame[c0].previous
        /\ mode' = IF exception' = {} THEN "run" ELSE "throw"
        /\ IF transfer.flag = "ERROR"
           THEN /\ exception' = Chain(transfer.value, saved)
                /\ settled' = settled \cup GivenUp(transfer.value, saved)
           ELSE exception' = saved /\ settled' = settled
    BY <1>0, <1>11, <2>0 DEF LandDestroy, Pending
  <2>2. ContextsOK' BY <1>0, <1>1, <1>5, <2>1, LandContexts
  <2>3. /\ exception' \in SUBSET Exception /\ Pure(exception')
        /\ settled' \in SUBSET Exception /\ settled \subseteq settled'
        /\ \A x \in Throwable : x \in transfer.value \/ x \in saved
                                 => x \in exception' \/ x \in settled'
    <3>1. CASE transfer.flag = "ERROR"
      <4>1. /\ exception' = Chain(transfer.value, saved)
            /\ settled' = settled \cup GivenUp(transfer.value, saved)
        BY <2>1, <3>1
      <4>2. /\ Chain(transfer.value, saved) \in SUBSET Exception /\ Pure(Chain(transfer.value, saved))
            /\ GivenUp(transfer.value, saved) \in SUBSET Exception
            /\ \A x \in Throwable : x \in transfer.value \/ x \in saved
                 => x \in Chain(transfer.value, saved) \/ x \in GivenUp(transfer.value, saved)
        BY <1>2, <1>4, <2>0, ChainKeeps
      <4> QED BY <1>2, <4>1, <4>2
    <3>2. CASE transfer.flag # "ERROR" BY <1>2, <1>4, <1>6, <2>0, <2>1, <3>2
    <3> QED BY <3>1, <3>2
  <2>4. FiberTypeOK' /\ HandlersNotSwitched' /\ BlockingOK' /\ ExceptionsOK' /\ NoExceptionLost'
    BY <1>0, <1>1, <1>3, <2>0, <2>1, <2>3, LandRest
  <2> QED BY <2>2, <2>4 DEF IInv
<1> QED BY <1>8, <1>9, <1>10, <1>11 DEF Land

-----------------------------------------------------------------------------
(* The theorems.                                                           *)

LEMMA FiberStart == FiberInit => IInv
<1> SUFFICES ASSUME FiberInit PROVE IInv
  OBVIOUS
<1>1. /\ status = [c \in Context |-> IF c = "main" THEN "running" ELSE "init"]
      /\ stack = [f \in Fiber |-> "none"]
      /\ caller = [f \in Fiber |-> "none"] /\ flags = [f \in Fiber |-> {}]
      /\ current = "main" /\ active = "none" /\ exception = {}
      /\ frame = [c \in Context |-> NoFrame]
      /\ transfer = NoTransfer /\ mode = "run"
      /\ blocking = 0 /\ callbacks = [c \in Context |-> <<>>] /\ destructed = {}
      /\ thrown = {} /\ settled = {} /\ fatal = FALSE
  BY DEF FiberInit
<1>2. /\ "main" \in Context /\ "main" \notin Fiber /\ "none" \notin Context /\ Fiber \subseteq Context
      /\ MaxBlocking \in Nat
  BY Names
<1>3. /\ NoFrame \in Frame /\ NoFrame.op = "none" /\ NoFrame.saved = {}
      /\ NoTransfer \in [from : Context \cup {"none"}, flag : {"none", "ERROR", "BAILOUT"},
                         value : SUBSET Exception]
      /\ NoTransfer.value = {}
  BY DEF NoFrame, Frame, NoTransfer
<1>4. <<>> \in Seq(SUBSET Exception) /\ Len(<<>>) = 0 OBVIOUS
<1>5. FiberTypeOK
  <2>1. callbacks \in [Context -> Seq(SUBSET Exception)] BY <1>1, <1>4
  <2>2. status \in [Context -> {"init", "running", "suspended", "dead"}] BY <1>1
  <2> QED BY <1>1, <1>2, <1>3, <2>1, <2>2 DEF FiberTypeOK
<1>6. \A c \in Context : ~Waits(c) /\ frame[c].saved = {} /\ frame[c] = NoFrame
  BY <1>1, <1>3 DEF Waits
<1>7. ContextsOK
  <2>1. StatusOK BY <1>1, <1>2 DEF StatusOK
  <2>2. FramesOK BY <1>1, <1>2, <1>3, <1>6 DEF FramesOK, FrameOK
  <2>3. CallersOK BY <1>1, <1>2, <1>6 DEF CallersOK
  <2>4. Acyclic BY <1>6 DEF Acyclic
  <2>5. LandingOK /\ ActiveRuns BY <1>1 DEF LandingOK, ActiveRuns
  <2>6. StacksOK BY <1>1, <1>2 DEF StacksOK
  <2>7. DestroyedEnds BY <1>1 DEF DestroyedEnds
  <2> QED BY <2>1, <2>2, <2>3, <2>4, <2>5, <2>6, <2>7 DEF ContextsOK
<1>8. \A c \in Context : callbacks[c] = <<>> /\ Len(callbacks[c]) = 0 /\ Range(callbacks[c]) = {}
  BY <1>1, <1>4 DEF Range
<1>9. BlockingOK
  <2>1. Callbacks = {} BY <1>2, <1>8 DEF Callbacks
  <2>2. Cardinality({}) = 0 BY FS_EmptySet
  <2> QED BY <1>1, <1>2, <1>8, <2>1, <2>2 DEF BlockingOK, SwitchingUnblocked
<1>10. HandlersNotSwitched BY <1>8 DEF HandlersNotSwitched
<1>11. ExceptionsOK BY <1>1, <1>3, <1>6, <1>8 DEF ExceptionsOK, Pure
<1>12. NoExceptionLost BY <1>1 DEF NoExceptionLost
<1> QED BY <1>5, <1>7, <1>9, <1>10, <1>11, <1>12 DEF IInv

LEMMA FiberNextStep == ASSUME IInv, [FiberNext]_fiberVars PROVE IInv'
<1>1. CASE FiberNext
  <2>1. CASE Throw \/ Catch \/ FatalError \/ MainEnds
    BY <2>1, ThrowStep, CatchStep, FatalErrorStep, MainEndsStep
  <2>2. CASE \E f \in Fiber : FiberStep(f)
    <3>1. PICK f \in Fiber : FiberStep(f) BY <2>2
    <3>2. CASE Start(f) \/ StartFail(f) \/ Resume(f) \/ ThrowInto(f) \/ Destroy(f)
      BY <3>2, StartStep, StartFailStep, ResumeStep, ThrowIntoStep, DestroyStep
    <3>3. CASE Returns(f) \/ EndsSwallowing(f) \/ EndsThrowing(f) \/ EndsBailout(f)
      BY <3>3, EndSteps
    <3> QED BY <3>1, <3>2, <3>3 DEF FiberStep
  <2>3. CASE Suspend \/ Land \/ BlockSwitching \/ UnblockSwitching
    BY <2>3, SuspendStep, LandStep, BlockStep, UnblockStep
  <2> QED BY <1>1, <2>1, <2>2, <2>3 DEF FiberNext
<1>2. CASE UNCHANGED fiberVars
  <2> USE <1>2 DEF fiberVars, contextVars, blockVars, fiberHistory
  <2>1. FiberTypeOK' BY DEF IInv, FiberTypeOK
  <2>2. ContextsOK'
    BY DEF IInv, ContextsOK, StatusOK, FramesOK, FrameOK, CallersOK, Acyclic, LandingOK,
           ActiveRuns, StacksOK, DestroyedEnds, Waits
  <2>3. HandlersNotSwitched' BY DEF IInv, HandlersNotSwitched
  <2>4. BlockingOK' BY StillBlocking
  <2>5. ExceptionsOK' BY DEF IInv, ExceptionsOK
  <2>6. NoExceptionLost' BY DEF IInv, NoExceptionLost, Held
  <2> QED BY <2>1, <2>2, <2>3, <2>4, <2>5, <2>6 DEF IInv
<1> QED BY <1>1, <1>2

LEMMA FiberInvariant == FiberSpec => []IInv
<1> QED BY FiberStart, FiberNextStep, PTL DEF FiberSpec

\* What the parts of the inductive invariant say while nothing is under way.
LEMMA PartsSayIt == IInv => FibersOK
<1> SUFFICES ASSUME IInv PROVE FibersOK
  OBVIOUS
<1>1. CallersChained
  <2> SUFFICES ASSUME mode # "landing" PROVE CallersChained
    BY DEF CallersChained
  <2>1. frame[current] = NoFrame /\ ~Waits(current)
    BY DEF IInv, ContextsOK, FramesOK, NoFrame, Waits
  <2>2. \A c \in Context : status[c] = "running" <=> c = current
    BY DEF IInv, ContextsOK, StatusOK
  <2>3. \A c \in Context : Waits(c) => caller[frame[c].fiber] = c
    BY <2>1 DEF IInv, ContextsOK, CallersOK
  <2>4. \A f \in Fiber : caller[f] # "none" => Waits(caller[f]) /\ frame[caller[f]].fiber = f
    BY DEF IInv, ContextsOK, CallersOK
  <2>5. \A f \in Fiber : status[f] = "suspended" => Waits(f) \/ frame[f].op = "suspend"
    <3> SUFFICES ASSUME NEW f \in Fiber, status[f] = "suspended"
                 PROVE  Waits(f) \/ frame[f].op = "suspend"
      OBVIOUS
    <3>1. f \in Context BY Names
    <3>2. frame[f].op # "none" /\ frame[f].op \in {"none", "resume", "suspend", "destroy"}
      BY <3>1 DEF IInv, ContextsOK, FramesOK, FrameOK, FiberTypeOK, Frame
    <3> QED BY <3>2 DEF Waits
  <2>6. current # "main" => Waits("main") BY DEF IInv, ContextsOK, CallersOK
  <2> QED BY <2>2, <2>3, <2>4, <2>5, <2>6 DEF CallersChained, IInv, ContextsOK, Acyclic
<1>2. StacksFreed BY DEF IInv, ContextsOK, StacksOK, StacksFreed
<1> QED BY <1>1, <1>2 DEF FibersOK, IInv, ContextsOK, BlockingOK

\* Where a switch goes.
LEMMA SwitchStep ==
  ASSUME IInv, [FiberNext]_fiberVars, mode' = "landing", mode # "landing"
  PROVE  /\ status[current'] \notin {"dead", "running"} /\ current' # current
         /\ current' # "main" => stack'[current'] = "mapped"
<1>1. CASE \E f \in Fiber : Start(f) \/ Resume(f) \/ ThrowInto(f) \/ Destroy(f)
  <2>1. PICK f \in Fiber : Start(f) \/ Resume(f) \/ ThrowInto(f) \/ Destroy(f) BY <1>1
  <2>2. /\ status[f] = "init" \/ (status[f] = "suspended" /\ caller[f] = "none")
        /\ mode \in {"run", "throw"} /\ current' = f
    BY <2>1 DEF Start, Resume, ThrowInto, CanResume, Destroy, zend_fiber_resume_internal,
                zend_fiber_switch_context
  <2>3. f # current BY <2>2, MayResume
  <2> QED BY <2>2, <2>3, FiberNextStep, Names DEF IInv, ContextsOK, StatusOK, StacksOK
<1>2. CASE Suspend \/ \E f \in Fiber : Returns(f) \/ EndsSwallowing(f) \/ EndsThrowing(f) \/ EndsBailout(f)
  <2>1. current \in Fiber /\ current' = caller[current]
    <3>1. CASE Suspend
      <4>1. active # "none" /\ mode = "run" /\ current' = caller[active]
        BY <3>1 DEF Suspend, CanSuspend, zend_fiber_switch_context
      <4>2. active = IF current = "main" THEN "none" ELSE current
        BY <4>1 DEF IInv, ContextsOK, ActiveRuns
      <4>3. current \in Context BY DEF IInv, FiberTypeOK
      <4> QED BY <4>1, <4>2, <4>3, Names
    <3>2. CASE \E f \in Fiber : Returns(f) \/ EndsSwallowing(f) \/ EndsThrowing(f) \/ EndsBailout(f)
      BY <3>2 DEF Returns, EndsSwallowing, EndsThrowing, EndsBailout, Ends,
                  zend_fiber_switch_context
    <3> QED BY <1>2, <3>1, <3>2
  <2>2. /\ caller[current] \in Context /\ caller[current] # current
        /\ status[caller[current]] = "suspended"
    BY <2>1, MayLeave
  <2>3. caller[current] # "main" => stack'[caller[current]] = "mapped"
    BY <2>1, <2>2, FiberNextStep, Names DEF IInv, ContextsOK, StatusOK, StacksOK
  <2> QED BY <2>1, <2>2, <2>3
<1>3. CASE \/ Throw \/ Catch \/ FatalError \/ MainEnds \/ Land \/ BlockSwitching \/ UnblockSwitching
           \/ (\E f \in Fiber : StartFail(f)) \/ UNCHANGED fiberVars
  <2>1. mode' # "landing"
    BY <1>3 DEF Throw, Catch, FatalError, MainEnds, Land, LandStart, LandBailout, LandResume,
                LandDestroy, BlockSwitching, UnblockSwitching, CallbackEnds, StartFail, Pending,
                fiberVars
  <2> QED BY <2>1
<1> QED BY <1>1, <1>2, <1>3 DEF FiberNext, FiberStep

\* The variables of fibers (zend_fiber_context, zend_fiber and the globals of
\* zend_fibers.c) have their types in every reachable state.
THEOREM FiberTypeCorrect == FiberSpec => []FiberTypeOK
<1>1. IInv => FiberTypeOK BY DEF IInv
<1> QED BY <1>1, FiberInvariant, PTL

\* Contexts, callers, stacks and blocked switching agree in every reachable
\* state (zend_fiber_switch_to, zend_fiber_switch_context and what they call in
\* zend_fibers.c): one context runs, every other that has begun waits in one
\* chain up to main or is suspended, the fiber that is active is the one that
\* runs, no stack in use is freed and none of an ended fiber is kept, a fiber
\* being destroyed is not left behind, and no callback that blocks switching is
\* left halfway or forgotten.
THEOREM FibersCorrect == FiberSpec => []FibersOK
<1> QED BY PartsSayIt, FiberInvariant, PTL

\* No exception a program throws disappears in a switch, in the destruction of
\* a fiber (zend_fiber_object_destroy) or behind a callback, until it is caught,
\* reported or given up for an exit.
THEOREM ExceptionsKept == FiberSpec => []NoExceptionLost
<1>1. IInv => NoExceptionLost BY DEF IInv
<1> QED BY <1>1, FiberInvariant, PTL

\* No switch goes to a context that has ended or to the one that runs (the
\* assertions of zend_fiber_switch_context), nor to one whose stack is gone.
THEOREM SwitchesLive == FiberSpec => SwitchesToLive
<1>1. IInv /\ [FiberNext]_fiberVars
        => [(mode' = "landing" /\ mode # "landing") =>
              /\ status[current'] \notin {"dead", "running"} /\ current' # current
              /\ current' # "main" => stack'[current'] = "mapped"]_fiberVars
  BY SwitchStep
<1> QED BY <1>1, FiberInvariant, PTL DEF FiberSpec, SwitchesToLive
===============================================================================
