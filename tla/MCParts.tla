------------------------------ MODULE MCParts ------------------------------
(***************************************************************************)
(* ZendSignal, Pcntl, ZendFiber and Preprocessor side by side for TLC.     *)
(* They share no state, so a state of all together would say nothing that  *)
(* one of each does not: in a behaviour one of them runs, and the others   *)
(* stay where they begin.                                                  *)
(***************************************************************************)
EXTENDS ZendSignal, Pcntl, ZendFiber, Preprocessor

VARIABLE component  \* the one that runs

PartsInit ==
  /\ component \in {"signals", "pcntl", "fibers", "build"}
  /\ SignalInit /\ PcntlInit /\ FiberInit /\ PreprocessorInit

PartsNext ==
  \/ /\ component = "signals" /\ SignalNext
     /\ UNCHANGED <<component, pcntlVars, fiberVars, preprocessorVars>>
  \/ /\ component = "pcntl" /\ PcntlNext
     /\ UNCHANGED <<component, signalVars, fiberVars, preprocessorVars>>
  \/ /\ component = "fibers" /\ FiberNext
     /\ UNCHANGED <<component, signalVars, pcntlVars, preprocessorVars>>
  \/ /\ component = "build" /\ PreprocessorNext
     /\ UNCHANGED <<component, signalVars, pcntlVars, fiberVars>>

\* Where a component begins nothing is asked of it by its fairness.
PartsSpec ==
  /\ PartsInit
  /\ [][PartsNext]_<<component, signalVars, pcntlVars, fiberVars, preprocessorVars>>
  /\ SignalFairness /\ PcntlFairness /\ FiberFairness

\* The types of the four.
PartsTypeOK == SignalTypeOK /\ PcntlTypeOK /\ FiberTypeOK /\ PreprocessorTypeOK
=============================================================================
