--------------------------- MODULE Signals_proofs ---------------------------
(***************************************************************************)
(* Proofs about the two queues of signals.  ZendSignal: the queue of       *)
(* deferred signals is in order wherever in the program a signal of        *)
(* zend_sigs comes, and no handler runs inside a section, for any such set *)
(* of signals, any size of the queue, any nesting and any number of        *)
(* requests.  The signals of zend_sigs are masked while a handler runs;    *)
(* about signals that are not, nothing is proved.  Pcntl: the linked lists *)
(* of records are in order between any two stores, and handlers are called *)
(* once and in order, for any number of records and signals.               *)
(***************************************************************************)
EXTENDS ZendSignal, Pcntl, FiniteSetTheorems, NaturalsInduction, WellFoundedInduction, TLAPS

-----------------------------------------------------------------------------
(* ZendSignal.                                                             *)

(***************************************************************************)
(* The inductive invariant of ZendSignal.                                  *)
(***************************************************************************)

Inside == pc \notin {"outside", "deactivated", "splice", "empty"}

\* Storage: between DeactivateSplice and DeactivateEmpty the entries are on
\* both lists, and a request begins with an empty queue.
StorageOK ==
  /\ pc # "empty" => SIGG.pavail + Len(SIGG.queue) = QueueSize
  /\ pc = "empty" => SIGG.pavail = QueueSize
  /\ pc = "outside" => SIGG.queue = <<>>

\* The depth counts the sections of the program and those a bailout left.
NestingOK ==
  /\ SIGG.active <=> Inside
  /\ ~SIGG.active => section = 0
  /\ section <= SIGG.depth
  /\ pc = "unblock_store" => unblocking.depth = SIGG.depth /\ section > 0
  /\ pc = "unblock_compare" => unblocking.depth = SIGG.depth + 1
  /\ pc \in {"unblock", "dequeue", "crashed"} => SIGG.depth = 0
  /\ pc \notin {"unblock_store", "unblock_compare"} => unblocking = NotUnblocking

\* The flag says whether signals wait.
FlagOK ==
  IF pc \in {"splice", "empty"} THEN ~SIGG.blocked
                                ELSE SIGG.blocked <=> SIGG.queue # <<>>

\* Unless a section was left without its end, or its end read the flag too
\* early, signals wait only in a section or at its end.
MissedOK ==
  /\ ~missed /\ SIGG.active =>
       /\ SIGG.depth = section
       /\ SIGG.queue # <<>> => \/ SIGG.depth > 0
                               \/ pc \in {"unblock", "dequeue"}
                               \/ pc = "unblock_compare" /\ unblocking.blocked # "clear"
       /\ unblocking.blocked = "clear" => SIGG.queue = <<>>
  /\ pc \in {"deactivated", "splice"} /\ SIGG.queue # <<>> => missed

\* At the end of a section that saw the flag the queue is empty only if a
\* signal came in between and took it all.
DrainedOK ==
  /\ unblocking.blocked = "set" /\ SIGG.queue = <<>> => drained
  /\ pc \in {"unblock", "dequeue"} /\ SIGG.queue = <<>> => drained
  /\ pc = "crashed" => drained

\* Where every signal that has arrived is.
KeptOK ==
  /\ arrived \in Seq(zend_sigs)
  /\ pending \cap Range(arrived) = {}
  /\ Queued \subseteq Range(arrived)
  /\ alive => Range(arrived) = handled \cup Queued \cup full \cup dropped
  /\ pc = "empty" => Queued \subseteq dropped
  /\ full # {} => Cardinality(Range(arrived)) > QueueSize

\* The queue is in the order of arrival.
OrderOK ==
  \A i, j \in DOMAIN SIGG.queue : \A k, l \in DOMAIN arrived :
    i < j /\ arrived[k] = SIGG.queue[i] /\ arrived[l] = SIGG.queue[j] => k < l

Globals == [active : BOOLEAN, depth : 0 .. MaxNesting, blocked : BOOLEAN,
            queue : Seq(zend_sigs), pavail : 0 .. QueueSize, handlers : [zend_sigs -> Handler]]

IInv == /\ SignalTypeOK /\ StorageOK /\ NestingOK /\ FlagOK /\ MissedOK
        /\ DrainedOK /\ KeptOK /\ OrderOK

-----------------------------------------------------------------------------
(* Sequences of signals.                                                   *)

LEMMA Bounds ==
  /\ IsFiniteSet(zend_sigs) /\ QueueSize \in Nat \ {0} /\ MaxNesting \in Nat \ {0}
  /\ MaxRequests \in Nat \ {0} /\ MaxChanges \in Nat \ {0}
  /\ StartHandler \subseteq Handler /\ NewHandler \subseteq Handler
BY SignalAssumption DEF Handler

\* A signal joins the end of a queue it is not in.
LEMMA AppendSignal ==
  ASSUME NEW q \in Seq(zend_sigs), IsInjective(q), NEW s \in zend_sigs, s \notin Range(q)
  PROVE  /\ Append(q, s) \in Seq(zend_sigs) /\ IsInjective(Append(q, s))
         /\ Range(Append(q, s)) = Range(q) \cup {s}
         /\ Len(Append(q, s)) = Len(q) + 1
         /\ \A i \in 1 .. Len(q) : Append(q, s)[i] = q[i]
         /\ Append(q, s)[Len(q) + 1] = s
<1>1. /\ Append(q, s) \in Seq(zend_sigs) /\ Len(Append(q, s)) = Len(q) + 1
      /\ \A i \in 1 .. Len(q) : Append(q, s)[i] = q[i]
      /\ Append(q, s)[Len(q) + 1] = s
      /\ DOMAIN q = 1 .. Len(q) /\ DOMAIN Append(q, s) = 1 .. Len(q) + 1 /\ Len(q) \in Nat
  OBVIOUS
<1>2. Range(Append(q, s)) = Range(q) \cup {s} BY <1>1 DEF Range
<1>3. IsInjective(Append(q, s)) BY <1>1 DEF IsInjective, Range
<1> QED BY <1>1, <1>2, <1>3

\* A signal goes before a queue.
LEMMA ConsSignal ==
  ASSUME NEW q \in Seq(zend_sigs), NEW s \in zend_sigs
  PROVE  <<s>> \o q \in Seq(zend_sigs) /\ Range(<<s>> \o q) = Range(q) \cup {s}
<1>1. /\ <<s>> \o q \in Seq(zend_sigs) /\ Len(<<s>> \o q) = 1 + Len(q)
      /\ \A i \in 1 .. Len(q) + 1 :
           (<<s>> \o q)[i] = IF i = 1 THEN s ELSE q[i - 1]
      /\ DOMAIN q = 1 .. Len(q) /\ DOMAIN (<<s>> \o q) = 1 .. Len(q) + 1 /\ Len(q) \in Nat
  OBVIOUS
<1>2. ASSUME NEW x \in Range(q) PROVE x \in Range(<<s>> \o q)
  <2>1. PICK i \in 1 .. Len(q) : x = q[i] BY <1>1, <1>2 DEF Range
  <2>2. i + 1 \in 1 .. Len(q) + 1 /\ (<<s>> \o q)[i + 1] = x BY <1>1, <2>1
  <2> QED BY <1>1, <2>2 DEF Range
<1>3. s \in Range(<<s>> \o q)
  <2>1. 1 \in 1 .. Len(q) + 1 /\ (<<s>> \o q)[1] = s BY <1>1
  <2> QED BY <1>1, <2>1 DEF Range
<1>4. ASSUME NEW x \in Range(<<s>> \o q) PROVE x \in Range(q) \cup {s}
  <2>1. PICK i \in 1 .. Len(q) + 1 : x = (<<s>> \o q)[i] BY <1>1, <1>4 DEF Range
  <2>2. CASE i = 1 BY <1>1, <2>1, <2>2
  <2>3. CASE i # 1
    <3>1. i - 1 \in 1 .. Len(q) /\ x = q[i - 1] BY <1>1, <2>1, <2>3
    <3> QED BY <1>1, <3>1 DEF Range
  <2> QED BY <2>2, <2>3
<1> QED BY <1>1, <1>2, <1>3, <1>4

\* The signals that are handled one after the other are some of those that
\* were to be, and all of them if none of them ends the process.
LEMMA UntilSome ==
  ASSUME NEW ss \in Seq(zend_sigs)
  PROVE  /\ Range(Until(ss)) \subseteq Range(ss)
         /\ (\A i \in DOMAIN ss : ~Fatal(ss[i])) => Until(ss) = ss
<1>1. CASE \A i \in DOMAIN ss : ~Fatal(ss[i]) BY <1>1 DEF Until
<1>2. CASE \E i \in DOMAIN ss : Fatal(ss[i])
  <2> DEFINE F == {i \in DOMAIN ss : Fatal(ss[i])}
             first == CHOOSE i \in DOMAIN ss : Fatal(ss[i]) /\ \A j \in 1 .. i - 1 : ~Fatal(ss[j])
             LessThan == {ij \in Nat \X Nat : ij[1] < ij[2]}
  <2>1. DOMAIN ss = 1 .. Len(ss) /\ Len(ss) \in Nat OBVIOUS
  <2>2. F \subseteq Nat /\ F # {} BY <1>2, <2>1
  <2>3. IsWellFoundedOn(LessThan, Nat) BY NatLessThanWellFounded DEF OpToRel
  <2>4. PICK i \in F : \A j \in F : ~(<<j, i>> \in LessThan)
    <3> HIDE DEF F, LessThan
    <3> QED BY <2>2, <2>3, WFMin
  <2>5. \A j \in F : ~(j < i)
    <3> SUFFICES ASSUME NEW j \in F PROVE ~(j < i) OBVIOUS
    <3>1. <<j, i>> \in Nat \X Nat BY <2>2
    <3> QED BY <2>4, <3>1
  <2>6. /\ i \in DOMAIN ss /\ Fatal(ss[i]) /\ \A j \in 1 .. i - 1 : ~Fatal(ss[j])
    BY <2>1, <2>5
  <2>7. first \in DOMAIN ss BY <2>6
  <2>8. Until(ss) = SubSeq(ss, 1, first) BY <1>2 DEF Until
  <2>9. /\ DOMAIN SubSeq(ss, 1, first) = 1 .. first
        /\ \A k \in 1 .. first : SubSeq(ss, 1, first)[k] = ss[k] /\ k \in DOMAIN ss
    <3> HIDE DEF first
    <3> QED BY <2>1, <2>7
  <2>10. Range(Until(ss)) \subseteq Range(ss) BY <2>8, <2>9 DEF Range
  <2> QED BY <1>2, <2>10
<1> QED BY <1>1, <1>2

\* A sequence without repetition has no more entries than members.
LEMMA SignalsCounted ==
  ASSUME NEW q \in Seq(zend_sigs), IsInjective(q)
  PROVE  IsFiniteSet(Range(q)) /\ Len(q) <= Cardinality(Range(q))
<1>1. DOMAIN q = 1 .. Len(q) /\ Len(q) \in Nat OBVIOUS
<1>2. Range(q) \subseteq zend_sigs BY <1>1 DEF Range
<1>3. IsFiniteSet(Range(q)) BY <1>2, Bounds, FS_Subset
<1>4. q \in Injection(1 .. Len(q), Range(q)) BY <1>1 DEF Injection, Range
<1>5. Cardinality(1 .. Len(q)) <= Cardinality(Range(q)) BY <1>3, <1>4, FS_Injection
<1>6. Cardinality(1 .. Len(q)) = Len(q)
  <2>1. Len(q) \in Int /\ 1 \in Int /\ (Len(q) - 1) + 1 = Len(q) /\ (1 > Len(q) => Len(q) = 0)
    BY <1>1
  <2>2. Cardinality(1 .. Len(q)) = IF 1 > Len(q) THEN 0 ELSE Len(q) - 1 + 1
    BY <2>1, FS_Interval
  <2> QED BY <2>1, <2>2
<1> QED BY <1>3, <1>5, <1>6

-----------------------------------------------------------------------------
(* The invariant holds at the start and is kept by every step.             *)

LEMMA InitInv == SignalInit => IInv
<1> SUFFICES ASSUME SignalInit PROVE IInv OBVIOUS
<1>0. /\ global_orig_handlers \in [zend_sigs -> Handler]
      /\ SIGG.queue = <<>> /\ SIGG.pavail = QueueSize /\ QueueSize \in 0 .. QueueSize
      /\ SIGG.queue \in Seq(zend_sigs) /\ ~SIGG.active /\ ~SIGG.blocked /\ SIGG.depth = 0
      /\ 0 \in 0 .. MaxNesting /\ 0 \in 0 .. MaxRequests /\ 0 \in 0 .. MaxChanges
      /\ DOMAIN <<>> = {} /\ Len(<<>>) = 0
  BY Bounds DEF SignalInit
<1>1. Range(<<>>) = {} /\ Queued = {} /\ IsInjective(<<>>)
  BY <1>0 DEF Range, Queued, IsInjective
<1>2. SignalTypeOK BY <1>0, <1>1 DEF SignalInit, SignalTypeOK, NotUnblocking, Handler
<1>3. StorageOK /\ NestingOK /\ FlagOK /\ MissedOK /\ DrainedOK
  BY <1>0, Bounds DEF SignalInit, StorageOK, NestingOK, FlagOK, MissedOK, DrainedOK, Inside,
                      NotUnblocking
<1>4. KeptOK BY <1>0, <1>1 DEF SignalInit, KeptOK
<1>5. OrderOK BY <1>0 DEF SignalInit, OrderOK
<1> QED BY <1>2, <1>3, <1>4, <1>5 DEF IInv

LEMMA BlockInv ==
  ASSUME IInv, Block
  PROVE  IInv'
<1> USE Bounds DEF Block, setup, signalHistory, IInv, SignalTypeOK, StorageOK, NestingOK,
                   FlagOK, MissedOK, DrainedOK, Inside, NotUnblocking, Handler, Queued
<1>0. SIGG.depth + 1 \in 0 .. MaxNesting /\ section + 1 \in 0 .. MaxNesting OBVIOUS
<1>1. SignalTypeOK'
  <2>1. SIGG' \in Globals BY <1>0 DEF Globals
  <2>2. SIGG'.queue = SIGG.queue OBVIOUS
  <2> QED BY <1>0, <2>1, <2>2 DEF SignalTypeOK, Globals
<1>2. StorageOK' BY DEF StorageOK
<1>3. NestingOK' BY DEF NestingOK
<1>4. FlagOK' BY DEF FlagOK
<1>5. MissedOK' BY DEF MissedOK
<1>6. DrainedOK' BY DEF DrainedOK
<1>7. KeptOK' BY DEF KeptOK
<1>8. OrderOK' BY DEF OrderOK
<1> QED BY <1>1, <1>2, <1>3, <1>4, <1>5, <1>6, <1>7, <1>8 DEF IInv

LEMMA UnblockReadInv ==
  ASSUME IInv, UnblockRead
  PROVE  IInv'
<1> USE Bounds DEF UnblockRead, Flag, setup, signalHistory, IInv, SignalTypeOK, StorageOK,
                   NestingOK, FlagOK, MissedOK, DrainedOK, Inside, NotUnblocking, Handler,
                   Queued
<1>1. SignalTypeOK' BY DEF SignalTypeOK
<1>2. StorageOK' BY DEF StorageOK
<1>3. NestingOK' BY DEF NestingOK
<1>4. FlagOK' BY DEF FlagOK
<1>5. MissedOK' BY DEF MissedOK
<1>6. DrainedOK' BY DEF DrainedOK
<1>7. KeptOK' BY DEF KeptOK
<1>8. OrderOK' BY DEF OrderOK
<1> QED BY <1>1, <1>2, <1>3, <1>4, <1>5, <1>6, <1>7, <1>8 DEF IInv

LEMMA UnblockStoreInv ==
  ASSUME IInv, UnblockStore
  PROVE  IInv'
<1> USE Bounds DEF UnblockStore, setup, signalHistory, IInv, SignalTypeOK, StorageOK,
                   NestingOK, FlagOK, MissedOK, DrainedOK, Inside, NotUnblocking, Handler,
                   Queued
<1>0. unblocking.depth - 1 \in 0 .. MaxNesting /\ section - 1 \in 0 .. MaxNesting OBVIOUS
<1>1. SignalTypeOK'
  <2>1. SIGG' \in Globals BY <1>0 DEF Globals
  <2>2. SIGG'.queue = SIGG.queue OBVIOUS
  <2> QED BY <1>0, <2>1, <2>2 DEF SignalTypeOK, Globals
<1>2. StorageOK' BY DEF StorageOK
<1>3. NestingOK' BY DEF NestingOK
<1>4. FlagOK' BY DEF FlagOK
<1>5. MissedOK' BY DEF MissedOK
<1>6. DrainedOK' BY DEF DrainedOK
<1>7. KeptOK' BY DEF KeptOK
<1>8. OrderOK' BY DEF OrderOK
<1> QED BY <1>1, <1>2, <1>3, <1>4, <1>5, <1>6, <1>7, <1>8 DEF IInv

LEMMA UnblockCompareInv ==
  ASSUME IInv, UnblockCompare
  PROVE  IInv'
<1> USE Bounds DEF UnblockCompare, Flag, setup, signalHistory, IInv, SignalTypeOK,
                   StorageOK, NestingOK, FlagOK, MissedOK, DrainedOK, Inside,
                   NotUnblocking, Handler, Queued
<1>1. SignalTypeOK' BY DEF SignalTypeOK
<1>2. StorageOK' BY DEF StorageOK
<1>3. NestingOK' BY DEF NestingOK
<1>4. FlagOK' BY DEF FlagOK
<1>5. MissedOK' BY DEF MissedOK
<1>6. DrainedOK' BY DEF DrainedOK
<1>7. KeptOK' BY DEF KeptOK
<1>8. OrderOK' BY DEF OrderOK
<1> QED BY <1>1, <1>2, <1>3, <1>4, <1>5, <1>6, <1>7, <1>8 DEF IInv

LEMMA UnblockMaskInv ==
  ASSUME IInv, UnblockMask
  PROVE  IInv'
<1> USE Bounds DEF UnblockMask, setup, signalHistory, IInv, SignalTypeOK, StorageOK,
                   NestingOK, FlagOK, MissedOK, DrainedOK, Inside, NotUnblocking, Handler,
                   Queued
<1>1. SignalTypeOK' BY DEF SignalTypeOK
<1>2. StorageOK' BY DEF StorageOK
<1>3. NestingOK' BY DEF NestingOK
<1>4. FlagOK' BY DEF FlagOK
<1>5. MissedOK' BY DEF MissedOK
<1>6. DrainedOK' BY DEF DrainedOK
<1>7. KeptOK' BY DEF KeptOK
<1>8. OrderOK' BY DEF OrderOK
<1> QED BY <1>1, <1>2, <1>3, <1>4, <1>5, <1>6, <1>7, <1>8 DEF IInv

LEMMA DequeueNothingInv ==
  ASSUME IInv, DequeueNothing
  PROVE  IInv'
<1> USE Bounds DEF DequeueNothing, setup, signalHistory, IInv, SignalTypeOK, StorageOK,
                   NestingOK, FlagOK, MissedOK, DrainedOK, Inside, NotUnblocking, Handler,
                   Queued
<1>1. SignalTypeOK' BY DEF SignalTypeOK
<1>2. StorageOK' BY DEF StorageOK
<1>3. NestingOK' BY DEF NestingOK
<1>4. FlagOK' BY DEF FlagOK
<1>5. MissedOK' BY DEF MissedOK
<1>6. DrainedOK' BY DEF DrainedOK
<1>7. KeptOK' BY DEF KeptOK
<1>8. OrderOK' BY DEF OrderOK
<1> QED BY <1>1, <1>2, <1>3, <1>4, <1>5, <1>6, <1>7, <1>8 DEF IInv

LEMMA ActivateInv ==
  ASSUME IInv, Activate
  PROVE  IInv'
<1> USE Bounds DEF Activate, setup, signalHistory, IInv, SignalTypeOK, StorageOK,
                   NestingOK, FlagOK, MissedOK, DrainedOK, Inside, NotUnblocking, Handler,
                   Queued
<1>0. requests + 1 \in 0 .. MaxRequests /\ 0 \in 0 .. MaxNesting OBVIOUS
<1>1. SignalTypeOK'
  <2>1. SIGG' \in Globals BY <1>0 DEF Globals
  <2>2. SIGG'.queue = SIGG.queue OBVIOUS
  <2> QED BY <1>0, <2>1, <2>2 DEF SignalTypeOK, Globals
<1>2. StorageOK' BY DEF StorageOK
<1>3. NestingOK' BY DEF NestingOK
<1>4. FlagOK' BY DEF FlagOK
<1>5. MissedOK' BY DEF MissedOK
<1>6. DrainedOK' BY DEF DrainedOK
<1>7. KeptOK' BY DEF KeptOK
<1>8. OrderOK' BY DEF OrderOK
<1> QED BY <1>1, <1>2, <1>3, <1>4, <1>5, <1>6, <1>7, <1>8 DEF IInv

LEMMA BailoutInv ==
  ASSUME IInv, Bailout
  PROVE  IInv'
<1> USE Bounds DEF Bailout, setup, signalHistory, IInv, SignalTypeOK, StorageOK, NestingOK,
                   FlagOK, MissedOK, DrainedOK, Inside, NotUnblocking, Handler, Queued
<1>1. SignalTypeOK' BY DEF SignalTypeOK
<1>2. StorageOK' BY DEF StorageOK
<1>3. NestingOK' BY DEF NestingOK
<1>4. FlagOK' BY DEF FlagOK
<1>5. MissedOK' BY DEF MissedOK
<1>6. DrainedOK' BY DEF DrainedOK
<1>7. KeptOK' BY DEF KeptOK
<1>8. OrderOK' BY DEF OrderOK
<1> QED BY <1>1, <1>2, <1>3, <1>4, <1>5, <1>6, <1>7, <1>8 DEF IInv

LEMMA DeactivateInv ==
  ASSUME IInv, Deactivate
  PROVE  IInv'
<1> USE Bounds DEF Deactivate, setup, signalHistory, IInv, SignalTypeOK, StorageOK,
                   NestingOK, FlagOK, MissedOK, DrainedOK, Inside, NotUnblocking, Handler,
                   Queued
<1>1. SignalTypeOK' BY DEF SignalTypeOK
<1>2. StorageOK' BY DEF StorageOK
<1>3. NestingOK' BY DEF NestingOK
<1>4. FlagOK' BY DEF FlagOK
<1>5. MissedOK' BY DEF MissedOK
<1>6. DrainedOK' BY DEF DrainedOK
<1>7. KeptOK' BY DEF KeptOK
<1>8. OrderOK' BY DEF OrderOK
<1> QED BY <1>1, <1>2, <1>3, <1>4, <1>5, <1>6, <1>7, <1>8 DEF IInv

LEMMA DeactivateResetInv ==
  ASSUME IInv, DeactivateReset
  PROVE  IInv'
<1> USE Bounds DEF DeactivateReset, setup, signalHistory, IInv, SignalTypeOK, StorageOK,
                   NestingOK, FlagOK, MissedOK, DrainedOK, Inside, NotUnblocking, Handler,
                   Queued
<1>1. SignalTypeOK' BY ZenonT(60) DEF SignalTypeOK
<1>2. StorageOK' BY DEF StorageOK
<1>3. NestingOK' BY DEF NestingOK
<1>4. FlagOK' BY DEF FlagOK
<1>5. MissedOK' BY DEF MissedOK
<1>6. DrainedOK' BY DEF DrainedOK
<1>7. KeptOK' BY DEF KeptOK
<1>8. OrderOK' BY DEF OrderOK
<1> QED BY <1>1, <1>2, <1>3, <1>4, <1>5, <1>6, <1>7, <1>8 DEF IInv

LEMMA DeactivateSpliceInv ==
  ASSUME IInv, DeactivateSplice
  PROVE  IInv'
<1> USE Bounds DEF DeactivateSplice, setup, signalHistory, IInv, SignalTypeOK, StorageOK,
                   NestingOK, FlagOK, MissedOK, DrainedOK, Inside, NotUnblocking, Handler,
                   Queued
<1>0. SIGG.pavail + Len(SIGG.queue) \in 0 .. QueueSize OBVIOUS
<1>1. SignalTypeOK'
  <2>1. SIGG' \in Globals BY <1>0 DEF Globals
  <2>2. SIGG'.queue = SIGG.queue OBVIOUS
  <2> QED BY <1>0, <2>1, <2>2 DEF SignalTypeOK, Globals, KeptOK
<1>2. StorageOK' BY DEF StorageOK
<1>3. NestingOK' BY DEF NestingOK
<1>4. FlagOK' BY DEF FlagOK
<1>5. MissedOK' BY DEF MissedOK
<1>6. DrainedOK' BY DEF DrainedOK
<1>7. KeptOK' BY DEF KeptOK
<1>8. OrderOK' BY DEF OrderOK
<1> QED BY <1>1, <1>2, <1>3, <1>4, <1>5, <1>6, <1>7, <1>8 DEF IInv

LEMMA DeactivateEmptyInv ==
  ASSUME IInv, DeactivateEmpty
  PROVE  IInv'
<1> USE Bounds DEF DeactivateEmpty, setup, signalHistory, IInv, SignalTypeOK, StorageOK,
                   NestingOK, FlagOK, MissedOK, DrainedOK, Inside, NotUnblocking, Handler,
                   Queued
<1>0. <<>> \in Seq(zend_sigs) /\ Range(<<>>) = {} /\ IsInjective(<<>>) BY DEF Range, IsInjective
<1>1. SignalTypeOK'
  <2>1. SIGG' \in Globals BY <1>0 DEF Globals
  <2>2. SIGG'.queue = <<>> OBVIOUS
  <2>3. Range(SIGG'.queue) = {} /\ IsInjective(SIGG'.queue) BY <1>0, <2>2
  <2> QED BY SMTT(30), <2>1, <2>3 DEF SignalTypeOK, Globals
<1>2. StorageOK' BY DEF StorageOK
<1>3. NestingOK' BY DEF NestingOK
<1>4. FlagOK' BY <1>0 DEF FlagOK
<1>5. MissedOK' BY DEF MissedOK
<1>6. DrainedOK' BY DEF DrainedOK
<1>7. KeptOK' BY <1>0 DEF KeptOK
<1>8. OrderOK' BY DEF OrderOK
<1> QED BY <1>1, <1>2, <1>3, <1>4, <1>5, <1>6, <1>7, <1>8 DEF IInv

LEMMA SendInv ==
  ASSUME IInv, NEW s \in zend_sigs, Send(s)
  PROVE  IInv'
<1> USE Bounds DEF Send, setup, signalHistory, IInv, SignalTypeOK, StorageOK, NestingOK,
                   FlagOK, MissedOK, DrainedOK, Inside, NotUnblocking, Handler, Queued
<1>1. SignalTypeOK' BY DEF SignalTypeOK
<1>2. StorageOK' BY DEF StorageOK
<1>3. NestingOK' BY DEF NestingOK
<1>4. FlagOK' BY DEF FlagOK
<1>5. MissedOK' BY DEF MissedOK
<1>6. DrainedOK' BY DEF DrainedOK
<1>7. KeptOK' BY DEF KeptOK
<1>8. OrderOK' BY DEF OrderOK
<1> QED BY <1>1, <1>2, <1>3, <1>4, <1>5, <1>6, <1>7, <1>8 DEF IInv

LEMMA SigactionInv ==
  ASSUME IInv, NEW s \in zend_sigs, NEW h \in NewHandler, Sigaction(s, h)
  PROVE  IInv'
<1> USE Bounds DEF Sigaction, setup, signalHistory, IInv, SignalTypeOK, StorageOK,
                   NestingOK, FlagOK, MissedOK, DrainedOK, Inside, NotUnblocking, Handler,
                   Queued
<1>1. SignalTypeOK'
  <2>1. changes + 1 \in 0 .. MaxChanges OBVIOUS
  <2>2. [SIGG.handlers EXCEPT ![s] = h] \in [zend_sigs -> Handler] OBVIOUS
  <2>3. SIGG' \in Globals BY <2>2 DEF Globals
  <2>4. SIGG'.queue = SIGG.queue OBVIOUS
  <2>5. kernel' \in [zend_sigs -> {"other", "defer", "ignore"}] OBVIOUS
  <2> QED BY <2>1, <2>3, <2>4, <2>5 DEF SignalTypeOK, Globals
<1>2. StorageOK' BY DEF StorageOK
<1>3. NestingOK' BY DEF NestingOK
<1>4. FlagOK' BY DEF FlagOK
<1>5. MissedOK' BY DEF MissedOK
<1>6. DrainedOK' BY DEF DrainedOK
<1>7. KeptOK' BY DEF KeptOK
<1>8. OrderOK' BY DEF OrderOK
<1> QED BY <1>1, <1>2, <1>3, <1>4, <1>5, <1>6, <1>7, <1>8 DEF IInv

LEMMA DequeueInv ==
  ASSUME IInv, alive, Dequeue
  PROVE  IInv'
<1> USE Bounds DEF Dequeue, Handle, setup, signalHistory, IInv, SignalTypeOK, StorageOK,
                   NestingOK, FlagOK, MissedOK, DrainedOK, Inside, NotUnblocking, Handler,
                   Queued
<1>0. /\ <<>> \in Seq(zend_sigs) /\ Range(<<>>) = {} /\ IsInjective(<<>>) /\ Len(<<>>) = 0
      /\ DOMAIN <<>> = {}
  BY DEF Range, IsInjective
<1>a. /\ Range(Until(SIGG.queue)) \subseteq Range(SIGG.queue)
      /\ alive' => Until(SIGG.queue) = SIGG.queue
  BY UntilSome
<1>1. SignalTypeOK'
  <2>1. SIGG.pavail + Len(SIGG.queue) \in 0 .. QueueSize OBVIOUS
  <2>2. SIGG' \in Globals BY <1>0, <2>1 DEF Globals
  <2>3. SIGG'.queue = <<>> OBVIOUS
  <2>4. Range(SIGG'.queue) = {} /\ IsInjective(SIGG'.queue) BY <1>0, <2>3
  <2>5. handled' \subseteq Range(arrived) BY <1>a DEF KeptOK
  <2> QED BY <2>2, <2>4, <2>5 DEF SignalTypeOK, Globals
<1>2. StorageOK' BY <1>0, <1>a DEF StorageOK
<1>3. NestingOK' BY <1>0, <1>a DEF NestingOK
<1>4. FlagOK' BY <1>0, <1>a DEF FlagOK
<1>5. MissedOK' BY <1>0, <1>a DEF MissedOK
<1>6. DrainedOK' BY <1>0, <1>a DEF DrainedOK
<1>7. KeptOK'
  <2>1. Range(SIGG'.queue) = {} BY <1>0
  <2>2. alive' => handled' = handled \cup Range(SIGG.queue) BY <1>a
  <2> QED BY <2>1, <2>2 DEF KeptOK
<1>8. OrderOK' BY <1>0, <1>a DEF OrderOK
<1> QED BY <1>1, <1>2, <1>3, <1>4, <1>5, <1>6, <1>7, <1>8 DEF IInv

\* What is known of the signal the kernel delivers.
LEMMA Arrival ==
  ASSUME IInv, NEW s \in pending
  PROVE  /\ s \in zend_sigs /\ s \notin Range(arrived) /\ s \notin Queued /\ s \notin handled
         /\ Append(arrived, s) \in Seq(zend_sigs) /\ IsInjective(Append(arrived, s))
         /\ Range(Append(arrived, s)) = Range(arrived) \cup {s}
         /\ Len(Append(arrived, s)) = Len(arrived) + 1 /\ Len(arrived) \in Nat
         /\ Append(arrived, s)[Len(arrived) + 1] = s
         /\ DOMAIN Append(arrived, s) = DOMAIN arrived \cup {Len(arrived) + 1}
         /\ DOMAIN arrived = 1 .. Len(arrived)
         /\ \A i \in DOMAIN arrived : Append(arrived, s)[i] = arrived[i]
         /\ full # {} => Cardinality(Range(Append(arrived, s))) > QueueSize
<1>1. s \in zend_sigs /\ s \notin Range(arrived) /\ s \notin Queued /\ s \notin handled
  BY DEF IInv, SignalTypeOK, KeptOK
<1>2. arrived \in Seq(zend_sigs) /\ IsInjective(arrived) BY DEF IInv, SignalTypeOK, KeptOK
<1>3. /\ Append(arrived, s) \in Seq(zend_sigs) /\ IsInjective(Append(arrived, s))
      /\ Range(Append(arrived, s)) = Range(arrived) \cup {s}
      /\ Len(Append(arrived, s)) = Len(arrived) + 1
      /\ Append(arrived, s)[Len(arrived) + 1] = s
      /\ \A i \in 1 .. Len(arrived) : Append(arrived, s)[i] = arrived[i]
  BY <1>1, <1>2, AppendSignal
<1>4. /\ DOMAIN arrived = 1 .. Len(arrived) /\ Len(arrived) \in Nat
      /\ DOMAIN Append(arrived, s) = 1 .. Len(arrived) + 1
  BY <1>2, <1>3
<1>5. IsFiniteSet(Range(arrived)) /\ Cardinality(Range(arrived)) \in Nat
  BY <1>2, SignalsCounted, FS_CardinalityType
<1>6. full # {} => Cardinality(Range(Append(arrived, s))) > QueueSize
  <2>1. Cardinality(Range(arrived) \cup {s}) = Cardinality(Range(arrived)) + 1
    BY <1>1, <1>5, FS_AddElement
  <2>2. full # {} => Cardinality(Range(arrived)) > QueueSize BY DEF IInv, KeptOK
  <2> QED BY <1>3, <1>5, <2>1, <2>2, Bounds
<1> QED BY <1>1, <1>3, <1>4, <1>6

\* The part of Deliver that all its cases share.
Received(s) ==
  /\ s \in pending /\ pc \notin {"dequeue", "crashed"}
  /\ pending' = pending \ {s}
  /\ arrived' = Append(arrived, s)
  /\ missed' = (missed \/ (SIGG.active /\ SIGG.depth > 0 /\ unblocking.blocked = "clear"))
  /\ UNCHANGED <<setup, pc, unblocking, requests, section, dropped>>

\* The order is kept if the queue stays or the signal joins its end.
LEMMA OrderKept ==
  ASSUME IInv, NEW s \in pending, Received(s),
         SIGG'.queue \in {SIGG.queue, Append(SIGG.queue, s)}
  PROVE  OrderOK'
<1> DEFINE q == SIGG.queue
<1>1. /\ q \in Seq(zend_sigs) /\ DOMAIN q = 1 .. Len(q) /\ Len(q) \in Nat
      /\ \A i \in DOMAIN q : q[i] \in Range(arrived)
  <2>1. q \in Seq(zend_sigs) BY DEF IInv, SignalTypeOK
  <2>2. Range(q) \subseteq Range(arrived) BY DEF IInv, KeptOK, Queued
  <2>3. \A i \in DOMAIN q : q[i] \in Range(q) BY DEF Range
  <2> QED BY <2>1, <2>2, <2>3
<1>2. /\ arrived' = Append(arrived, s) /\ s \in zend_sigs /\ s \notin Range(arrived)
      /\ DOMAIN arrived' = DOMAIN arrived \cup {Len(arrived) + 1}
      /\ DOMAIN arrived = 1 .. Len(arrived) /\ Len(arrived) \in Nat
      /\ \A i \in DOMAIN arrived : arrived'[i] = arrived[i]
      /\ arrived'[Len(arrived) + 1] = s
  BY Arrival DEF Received
<1>3. \A k \in DOMAIN arrived : arrived[k] \in Range(arrived) BY DEF Range
<1> SUFFICES ASSUME NEW i \in DOMAIN SIGG'.queue, NEW j \in DOMAIN SIGG'.queue,
                    NEW k \in DOMAIN arrived', NEW l \in DOMAIN arrived',
                    i < j, arrived'[k] = SIGG'.queue[i], arrived'[l] = SIGG'.queue[j]
             PROVE  k < l
  BY DEF OrderOK
<1>4. \A n \in DOMAIN SIGG'.queue :
        \/ n \in DOMAIN q /\ SIGG'.queue[n] = q[n]
        \/ n = Len(q) + 1 /\ SIGG'.queue[n] = s
  BY SMTT(30), <1>1, <1>2
<1>5. /\ i \in DOMAIN q /\ SIGG'.queue[i] = q[i]
      /\ k \in DOMAIN arrived /\ arrived[k] = q[i]
  <2>1. i \in DOMAIN q /\ SIGG'.queue[i] = q[i]
    <3>1. i # Len(q) + 1
      <4> SUFFICES ASSUME i = Len(q) + 1 PROVE FALSE OBVIOUS
      <4>1. j <= Len(q) + 1 BY <1>1, <1>4
      <4> QED BY <1>1, <4>1, <1>4
    <3> QED BY <3>1, <1>4
  <2>2. k # Len(arrived) + 1 BY <1>1, <1>2, <2>1
  <2> QED BY <1>2, <2>1, <2>2
<1>6. CASE j \in DOMAIN q /\ SIGG'.queue[j] = q[j]
  <2>1. l \in DOMAIN arrived /\ arrived[l] = q[j]
    <3>1. l # Len(arrived) + 1 BY <1>1, <1>2, <1>6
    <3> QED BY <1>2, <1>6, <3>1
  <2> QED BY <1>5, <1>6, <2>1 DEF IInv, OrderOK
<1>7. CASE j = Len(q) + 1 /\ SIGG'.queue[j] = s
  <2>1. l = Len(arrived) + 1 BY <1>2, <1>3, <1>7
  <2> QED BY <1>2, <1>5, <2>1
<1> QED BY <1>4, <1>6, <1>7

\* The types after a delivery, from the parts.
LEMMA TypesKept ==
  ASSUME SignalTypeOK, NEW s, Received(s), SIGG' \in Globals, IsInjective(SIGG'.queue),
         IsInjective(arrived'), handled' \cap Range(SIGG'.queue) = {},
         (handled \cup full \cup dropped)' \subseteq Range(arrived'),
         alive' \in BOOLEAN, missed' \in BOOLEAN, drained' \in BOOLEAN
  PROVE  SignalTypeOK'
BY DEF SignalTypeOK, Globals, Received, Queued, setup

LEMMA RunDirectlyInv ==
  ASSUME IInv, alive, NEW s \in zend_sigs, Received(s), RunDirectly(s)
  PROVE  IInv'
<1>0. /\ s \notin Range(arrived) /\ s \notin Queued /\ s \notin handled
      /\ arrived' \in Seq(zend_sigs) /\ IsInjective(arrived')
      /\ Range(arrived') = Range(arrived) \cup {s}
      /\ full # {} => Cardinality(Range(arrived')) > QueueSize
  BY Arrival DEF Received
<1>a. /\ Range(Until(<<s>>)) \subseteq {s} /\ Range(<<s>>) = {s}
      /\ alive' => Until(<<s>>) = <<s>>
  <2>1. <<s>> \in Seq(zend_sigs) /\ Range(<<s>>) = {s} BY DEF Range
  <2> QED BY <2>1, UntilSome DEF RunDirectly, Handle
<1> USE Bounds DEF Received, RunDirectly, Handle, setup, IInv, SignalTypeOK, StorageOK,
                   NestingOK, FlagOK, MissedOK, DrainedOK, Inside, NotUnblocking, Handler,
                   Queued
<1>1. SignalTypeOK'
  <2>1. alive' \in BOOLEAN /\ missed' \in BOOLEAN BY Zenon
  <2>2. (handled \cup full \cup dropped)' \subseteq Range(arrived') BY <1>0, <1>a
  <2>3. handled' \cap Range(SIGG'.queue) = {}
    <3>1. SIGG'.queue = SIGG.queue /\ handled' = handled \cup Range(Until(<<s>>)) OBVIOUS
    <3>2. handled \cap Range(SIGG.queue) = {} /\ s \notin Range(SIGG.queue) BY <1>0
    <3> HIDE DEF Received, IInv, SignalTypeOK, Handle, RunDirectly
    <3> QED BY <1>a, <3>1, <3>2
  <2>4. SIGG' \in Globals /\ IsInjective(SIGG'.queue) /\ drained' \in BOOLEAN BY DEF Globals
  <2> HIDE DEF Received, IInv, SignalTypeOK, Handle, RunDirectly
  <2> QED BY <1>0, <2>1, <2>2, <2>3, <2>4, TypesKept DEF IInv
<1>2. StorageOK' BY DEF StorageOK
<1>3. NestingOK' BY DEF NestingOK
<1>4. FlagOK' BY DEF FlagOK
<1>5. MissedOK' BY DEF MissedOK
<1>6. DrainedOK' BY DEF DrainedOK
<1>7. KeptOK' BY <1>0, <1>a DEF KeptOK
<1>8. OrderOK' BY OrderKept
<1> QED BY <1>1, <1>2, <1>3, <1>4, <1>5, <1>6, <1>7, <1>8 DEF IInv

LEMMA RunAndDrainInv ==
  ASSUME IInv, alive, NEW s \in zend_sigs, Received(s), RunAndDrain(s)
  PROVE  IInv'
<1>0. /\ s \notin Range(arrived) /\ s \notin Queued /\ s \notin handled
      /\ arrived' \in Seq(zend_sigs) /\ IsInjective(arrived')
      /\ Range(arrived') = Range(arrived) \cup {s}
      /\ full # {} => Cardinality(Range(arrived')) > QueueSize
      /\ SIGG.queue \in Seq(zend_sigs) /\ Len(SIGG.queue) \in Nat
  BY Arrival DEF Received, IInv, SignalTypeOK
<1>a. /\ Range(Until(<<s>> \o SIGG.queue)) \subseteq {s} \cup Range(SIGG.queue)
      /\ alive' => Range(Until(<<s>> \o SIGG.queue)) = {s} \cup Range(SIGG.queue)
  <2>1. /\ <<s>> \o SIGG.queue \in Seq(zend_sigs)
        /\ Range(<<s>> \o SIGG.queue) = Range(SIGG.queue) \cup {s}
    BY <1>0, ConsSignal
  <2> QED BY <2>1, UntilSome DEF RunAndDrain, Handle
<1>b. /\ <<>> \in Seq(zend_sigs) /\ Range(<<>>) = {} /\ IsInjective(<<>>) /\ Len(<<>>) = 0
      /\ DOMAIN <<>> = {}
  BY DEF Range, IsInjective
<1> USE Bounds DEF Received, RunAndDrain, Handle, setup, IInv, SignalTypeOK, StorageOK,
                   NestingOK, FlagOK, MissedOK, DrainedOK, Inside, NotUnblocking, Handler,
                   Queued
<1>c. Range(SIGG'.queue) = {} /\ IsInjective(SIGG'.queue) /\ SIGG'.queue = <<>> BY <1>b
<1>1. SignalTypeOK'
  <2>1. alive' \in BOOLEAN /\ missed' \in BOOLEAN /\ drained' \in BOOLEAN BY Zenon
  <2>2. (handled \cup full \cup dropped)' \subseteq Range(arrived') BY <1>0, <1>a DEF KeptOK
  <2>3. SIGG' \in Globals
    <3>1. SIGG.pavail + Len(SIGG.queue) \in 0 .. QueueSize OBVIOUS
    <3> QED BY <1>b, <3>1 DEF Globals
  <2>4. handled' \cap Range(SIGG'.queue) = {} BY <1>c
  <2> HIDE DEF Received, IInv, SignalTypeOK, Handle, RunAndDrain
  <2> QED BY <1>0, <1>c, <2>1, <2>2, <2>3, <2>4, TypesKept DEF IInv
<1>2. StorageOK' BY <1>b, <1>c DEF StorageOK
<1>3. NestingOK' BY DEF NestingOK
<1>4. FlagOK' BY <1>c DEF FlagOK
<1>5. MissedOK' BY <1>c DEF MissedOK
<1>6. DrainedOK' BY <1>c DEF DrainedOK
<1>7. KeptOK'
  <2>1. pending' \cap Range(arrived') = {} BY <1>0 DEF KeptOK
  <2>2. alive' => Range(arrived') = (handled \cup full \cup dropped)' BY <1>0, <1>a DEF KeptOK
  <2> QED BY ZenonT(60), <1>0, <1>c, <2>1, <2>2 DEF KeptOK
<1>8. OrderOK' BY <1>b, <1>c DEF OrderOK
<1> QED BY <1>1, <1>2, <1>3, <1>4, <1>5, <1>6, <1>7, <1>8 DEF IInv

LEMMA DeferInv ==
  ASSUME IInv, alive, NEW s \in zend_sigs, Received(s), Defer(s)
  PROVE  IInv'
<1>0. /\ s \notin Range(arrived) /\ s \notin Queued /\ s \notin handled
      /\ arrived' \in Seq(zend_sigs) /\ IsInjective(arrived')
      /\ Range(arrived') = Range(arrived) \cup {s}
      /\ full # {} => Cardinality(Range(arrived')) > QueueSize
      /\ SIGG.queue \in Seq(zend_sigs) /\ IsInjective(SIGG.queue) /\ Len(SIGG.queue) \in Nat
  BY Arrival DEF Received, IInv, SignalTypeOK
<1>1. CASE SIGG.pavail > 0 /\ Enqueue(s) /\ UNCHANGED full
  <2>0. /\ SIGG'.queue = Append(SIGG.queue, s)
        /\ Append(SIGG.queue, s) \in Seq(zend_sigs) /\ IsInjective(Append(SIGG.queue, s))
        /\ Range(Append(SIGG.queue, s)) = Range(SIGG.queue) \cup {s}
        /\ Len(Append(SIGG.queue, s)) = Len(SIGG.queue) + 1
        /\ Append(SIGG.queue, s) # <<>>
    BY <1>0, <1>1, AppendSignal DEF Enqueue, IInv, SignalTypeOK, Queued
  <2> USE <1>1, Bounds DEF Received, Defer, Enqueue, setup, IInv, SignalTypeOK, StorageOK,
                           NestingOK, FlagOK, MissedOK, DrainedOK, Inside, NotUnblocking,
                           Handler, Queued
  <2>1. SignalTypeOK'
    <3>1. missed' \in BOOLEAN BY Zenon
    <3>2. SIGG.pavail - 1 \in 0 .. QueueSize OBVIOUS
    <3>3. SIGG' \in Globals BY <2>0, <3>2 DEF Globals
    <3>4. (handled \cup full \cup dropped)' \subseteq Range(arrived') BY <1>0
    <3>5. handled' \cap Range(SIGG'.queue) = {} BY <1>0, <2>0
    <3>6. IsInjective(SIGG'.queue) BY <2>0
    <3>7. alive' \in BOOLEAN /\ drained' \in BOOLEAN BY Zenon
    <3> HIDE <1>1 DEF Received, IInv, SignalTypeOK, Enqueue, Defer
    <3> QED BY <1>0, <3>1, <3>3, <3>4, <3>5, <3>6, <3>7, TypesKept DEF IInv
  <2>2. StorageOK' BY <1>0, <2>0 DEF StorageOK
  <2>3. NestingOK' BY <1>0, <2>0 DEF NestingOK
  <2>4. FlagOK' BY <1>0, <2>0 DEF FlagOK
  <2>5. MissedOK' BY <1>0, <2>0 DEF MissedOK
  <2>6. DrainedOK' BY <1>0, <2>0 DEF DrainedOK
  <2>7. KeptOK' BY SMTT(30), <1>0, <2>0 DEF KeptOK
  <2>8. OrderOK' BY <2>0, OrderKept
  <2> QED BY <2>1, <2>2, <2>3, <2>4, <2>5, <2>6, <2>7, <2>8 DEF IInv
<1>2. CASE /\ SIGG.pavail = 0
           /\ SIGG' = [SIGG EXCEPT !.blocked = TRUE]
           /\ full' = full \cup {s}
  <2>0. /\ SIGG'.queue = SIGG.queue /\ SIGG.queue # <<>> /\ Len(SIGG.queue) = QueueSize
    BY <1>0, <1>2, Bounds DEF IInv, SignalTypeOK, StorageOK, NestingOK, Inside, Defer
  <2>a. Cardinality(Range(arrived')) > QueueSize
    <3>1. IsFiniteSet(Range(SIGG.queue)) /\ Cardinality(Range(SIGG.queue)) >= QueueSize
      BY <1>0, <2>0, SignalsCounted, FS_CardinalityType, Bounds
    <3>2. Cardinality(Range(SIGG.queue) \cup {s}) > QueueSize
      <4>1. Cardinality(Range(SIGG.queue)) \in Nat BY <3>1, FS_CardinalityType
      <4>2. Cardinality(Range(SIGG.queue) \cup {s}) = Cardinality(Range(SIGG.queue)) + 1
        BY <1>0, <3>1, FS_AddElement DEF Queued
      <4> QED BY <3>1, <4>1, <4>2, Bounds
    <3>3. IsFiniteSet(Range(arrived')) /\ Range(SIGG.queue) \cup {s} \subseteq Range(arrived')
      BY <1>0, SignalsCounted DEF IInv, KeptOK, Queued
    <3>4. Cardinality(Range(SIGG.queue) \cup {s}) <= Cardinality(Range(arrived'))
      BY <3>3, FS_Subset
    <3>5. /\ IsFiniteSet(Range(SIGG.queue) \cup {s})
          /\ Cardinality(Range(SIGG.queue) \cup {s}) \in Nat /\ Cardinality(Range(arrived')) \in Nat
      BY <3>1, <3>3, FS_AddElement, FS_CardinalityType
    <3> QED BY <3>2, <3>4, <3>5, Bounds
  <2> USE <1>2, Bounds DEF Received, Defer, setup, IInv, SignalTypeOK, StorageOK,
                           NestingOK, FlagOK, MissedOK, DrainedOK, Inside, NotUnblocking,
                           Handler, Queued
  <2>1. SignalTypeOK'
    <3>1. missed' \in BOOLEAN BY Zenon
    <3>2. SIGG' \in Globals BY DEF Globals
    <3> QED BY <1>0, <2>0, <3>1, <3>2 DEF SignalTypeOK, Globals
  <2>2. StorageOK' BY <1>0, <2>0 DEF StorageOK
  <2>3. NestingOK' BY <1>0, <2>0 DEF NestingOK
  <2>4. FlagOK' BY <1>0, <2>0 DEF FlagOK
  <2>5. MissedOK' BY <1>0, <2>0 DEF MissedOK
  <2>6. DrainedOK' BY <1>0, <2>0 DEF DrainedOK
  <2>7. KeptOK' BY <1>0, <2>0, <2>a DEF KeptOK
  <2>8. OrderOK' BY <2>0, OrderKept
  <2> QED BY <2>1, <2>2, <2>3, <2>4, <2>5, <2>6, <2>7, <2>8 DEF IInv
<1> QED BY <1>1, <1>2 DEF Defer

LEMMA StepInv == IInv /\ [SignalNext]_signalVars => IInv'
<1> SUFFICES ASSUME IInv, [SignalNext]_signalVars PROVE IInv' OBVIOUS
<1>1. CASE SignalNext
  <2> USE <1>1
  <2>0. alive BY DEF SignalNext
  <2>1. CASE Activate BY <2>0, <2>1, ActivateInv
  <2>2. CASE Block BY <2>0, <2>2, BlockInv
  <2>3. CASE UnblockRead BY <2>0, <2>3, UnblockReadInv
  <2>4. CASE UnblockStore BY <2>0, <2>4, UnblockStoreInv
  <2>5. CASE UnblockCompare BY <2>0, <2>5, UnblockCompareInv
  <2>6. CASE UnblockMask BY <2>0, <2>6, UnblockMaskInv
  <2>7. CASE Dequeue BY <2>0, <2>7, DequeueInv
  <2>8. CASE DequeueNothing BY <2>0, <2>8, DequeueNothingInv
  <2>9. CASE Bailout BY <2>0, <2>9, BailoutInv
  <2>10. CASE Deactivate BY <2>0, <2>10, DeactivateInv
  <2>11. CASE DeactivateReset BY <2>0, <2>11, DeactivateResetInv
  <2>12. CASE DeactivateSplice BY <2>0, <2>12, DeactivateSpliceInv
  <2>13. CASE DeactivateEmpty BY <2>0, <2>13, DeactivateEmptyInv
  <2>14. ASSUME NEW s \in zend_sigs, NEW h \in NewHandler, Sigaction(s, h) PROVE IInv'
    BY <2>14, SigactionInv
  <2>15. ASSUME NEW s \in zend_sigs, Deliver(s) PROVE IInv'
    <3>1. Received(s) BY <2>15 DEF Deliver, Received
    <3>2. RunDirectly(s) \/ RunAndDrain(s) \/ Defer(s) BY <2>15 DEF Deliver
    <3> QED BY <2>0, <3>1, <3>2, RunDirectlyInv, RunAndDrainInv, DeferInv
  <2>16. ASSUME NEW s \in zend_sigs, Send(s) PROVE IInv' BY <2>16, SendInv
  <2> QED BY <2>1, <2>2, <2>3, <2>4, <2>5, <2>6, <2>7, <2>8, <2>9, <2>10, <2>11, <2>12,
            <2>13, <2>14, <2>15, <2>16 DEF SignalNext, SignalProgram
<1>2. CASE UNCHANGED signalVars
  BY <1>2 DEF signalVars, setup, signalHistory, IInv, SignalTypeOK, StorageOK, NestingOK, FlagOK,
       MissedOK, DrainedOK, KeptOK, OrderOK, Inside, Queued
<1> QED BY <1>1, <1>2

LEMMA Inductive == SignalSpec => []IInv
BY InitInv, StepInv, PTL DEF SignalSpec

-----------------------------------------------------------------------------
(* The theorems.                                                           *)

\* The place of a signal among those that have arrived is the one index
\* where it stands.
LEMMA PlaceOfArrival ==
  ASSUME NEW x \in zend_sigs, arrived \in Seq(zend_sigs), IsInjective(arrived),
         NEW k \in DOMAIN arrived, arrived[k] = x
  PROVE  SelectInSeq(arrived, LAMBDA s : s = x) = k
<1> DEFINE I == {i \in 1 .. Len(arrived) : arrived[i] = x}
<1>1. I = {k} BY DEF IsInjective
<1>2. Min(I) = k BY <1>1 DEF Min
<1>3. SelectInSeq(arrived, LAMBDA s : s = x) = IF I # {} THEN Min(I) ELSE 0
  BY DEF SelectInSeq
<1> QED BY <1>1, <1>2, <1>3

LEMMA OrderImpliesInOrder == IInv => InOrder
<1> SUFFICES ASSUME IInv, NEW i \in DOMAIN SIGG.queue, NEW j \in DOMAIN SIGG.queue, i < j
             PROVE  SelectInSeq(arrived, LAMBDA s : s = SIGG.queue[i])
                      < SelectInSeq(arrived, LAMBDA s : s = SIGG.queue[j])
  BY DEF InOrder
<1> DEFINE x == SIGG.queue[i]
           y == SIGG.queue[j]
<1>1. arrived \in Seq(zend_sigs) /\ IsInjective(arrived) BY DEF IInv, SignalTypeOK, KeptOK
<1>2. x \in Range(arrived) /\ y \in Range(arrived)
  <2>1. Range(SIGG.queue) \subseteq Range(arrived) BY DEF IInv, KeptOK, Queued
  <2> QED BY <2>1 DEF Range
<1>3. PICK k \in DOMAIN arrived : arrived[k] = x BY <1>2 DEF Range
<1>4. PICK l \in DOMAIN arrived : arrived[l] = y BY <1>2 DEF Range
<1>5. k < l BY <1>3, <1>4 DEF IInv, OrderOK
<1>6. x \in zend_sigs /\ y \in zend_sigs BY <1>1, <1>3, <1>4
<1> HIDE DEF x, y
<1>7. SelectInSeq(arrived, LAMBDA s : s = x) = k BY <1>1, <1>3, <1>6, PlaceOfArrival
<1>8. SelectInSeq(arrived, LAMBDA s : s = y) = l BY <1>1, <1>4, <1>6, PlaceOfArrival
<1>9. SelectInSeq(arrived, LAMBDA s : s = x) < SelectInSeq(arrived, LAMBDA s : s = y)
  BY <1>5, <1>7, <1>8
<1> QED BY <1>9 DEF x, y

\* Types, for every number of signals and any size of the queue.
THEOREM SignalTypeCorrect == SignalSpec => []SignalTypeOK
<1>1. IInv => SignalTypeOK BY DEF IInv
<1> QED BY <1>1, Inductive, PTL

\* The queue of deferred signals is in order (zend_signal.c:84-173, 336-371)
\* in a program whose signals are those of zend_sigs, which global_sigmask
\* keeps out of each other's handlers: no entry of its storage is lost, no
\* signal is lost or handled out of turn but where the code's comments say so,
\* and it is read empty only after a signal came between the end of a section
\* and the masking of the signals.  A signal outside global_sigmask is not
\* among them; it may be dropped at zend_signal.c:105 or spoil the queue.
THEOREM QueueInOrder == SignalSpec => []SignalQueueOK
<1>1. IInv => StorageConserved BY DEF IInv, StorageOK, StorageConserved
<1>2. IInv => SignalsKept BY DEF IInv, KeptOK, MissedOK, SignalsKept
<1>3. IInv => CrashOnlyIfDrained
  <2> SUFFICES ASSUME IInv, pc = "crashed" PROVE drained BY DEF CrashOnlyIfDrained
  <2> QED BY DEF IInv, DrainedOK
<1>4. IInv => SignalQueueOK BY <1>1, <1>2, <1>3, OrderImpliesInOrder DEF SignalQueueOK
<1> QED BY <1>4, Inductive, PTL

\* A handler of zend_sigs never runs inside a section of the running request
\* (zend_signal.c:101, 122).
THEOREM HandlersWait == SignalSpec => NoHandlerInSection
<1>1. IInv /\ [SignalNext]_signalVars =>
        [SIGG.active /\ handled' # handled => section = 0]_signalVars
  <2> SUFFICES ASSUME IInv, SignalNext, SIGG.active, handled' # handled PROVE section = 0
    OBVIOUS
  <2>1. section = 0 \/ SIGG.depth > 0 BY DEF IInv, NestingOK, SignalTypeOK
  <2>2. SIGG.depth = 0
    <3>1. CASE Dequeue BY <3>1 DEF Dequeue, IInv, NestingOK
    <3>2. ASSUME NEW s \in zend_sigs, Deliver(s) PROVE SIGG.depth = 0
      BY <3>2 DEF Deliver, RunDirectly, RunAndDrain, Defer
    <3> QED BY <3>1, <3>2 DEF SignalNext, SignalProgram, Activate, Block, UnblockRead, UnblockStore,
              UnblockCompare, UnblockMask, DequeueNothing, Sigaction, Bailout, Deactivate, Send,
              DeactivateReset, DeactivateSplice, DeactivateEmpty, signalHistory
  <2> QED BY <2>1, <2>2 DEF IInv, SignalTypeOK, NestingOK
<1> QED BY <1>1, Inductive, PTL DEF SignalSpec, NoHandlerInSection

-----------------------------------------------------------------------------
(* Pcntl.                                                                  *)

(***************************************************************************)
(* The lists of records.                                                   *)
(***************************************************************************)

\* The records that follow each other from p, with nx for next.
IsChain(nx, p, s) ==
  /\ s \in Seq(Record) /\ IsInjective(s)
  /\ p = IF s = <<>> THEN "NULL" ELSE s[1]
  /\ \A i \in 1 .. Len(s) : nx[s[i]] = IF i = Len(s) THEN "NULL" ELSE s[i + 1]

\* What List does, one record at a time.
Follow(nx, p, s) ==
  LET r == IF s = <<>> THEN p ELSE nx[Last(s)]
  IN IF r = "NULL" \/ r \in Range(s) THEN s ELSE Append(s, r)

Walk(nx, p, k, f) == f = [i \in 0 .. k |-> IF i = 0 THEN <<>> ELSE Follow(nx, p, f[i - 1])]

LEMMA PcntlBounds ==
  /\ IsFiniteSet(Record) /\ "NULL" \notin Record /\ Cardinality(Record) \in Nat
  /\ num_signals \in Nat \ {0} /\ MaxSent \in Nat
BY PcntlAssumption, FS_CardinalityType

\* A least element of a set of numbers.
LEMMA LeastNumber ==
  ASSUME NEW S \in SUBSET Nat, S # {}
  PROVE  \E i \in S : \A j \in S : i <= j
<1> DEFINE LessThan == {ij \in Nat \X Nat : ij[1] < ij[2]}
<1>1. IsWellFoundedOn(LessThan, Nat) BY NatLessThanWellFounded DEF OpToRel
<1>2. PICK i \in S : \A j \in S : ~(<<j, i>> \in LessThan)
  <2> HIDE DEF LessThan
  <2> QED BY <1>1, WFMin
<1>3. \A j \in S : i <= j
  <2> SUFFICES ASSUME NEW j \in S PROVE ~(j < i) OBVIOUS
  <2>1. <<j, i>> \in Nat \X Nat OBVIOUS
  <2> QED BY <1>2, <2>1
<1> QED BY <1>3

LEMMA WalkExists ==
  ASSUME NEW nx, NEW p, NEW k \in Nat
  PROVE  \E f : Walk(nx, p, k, f)
<1> DEFINE Bad == {j \in Nat : ~\E f : Walk(nx, p, j, f)}
<1> SUFFICES ASSUME Bad # {} PROVE FALSE OBVIOUS
<1>1. PICK j \in Bad : \A i \in Bad : j <= i
  <2>1. Bad \in SUBSET Nat OBVIOUS
  <2> HIDE DEF Bad
  <2> QED BY <2>1, LeastNumber
<1>2. CASE j = 0
  <2> DEFINE f == [i \in 0 .. 0 |-> <<>>]
  <2>1. Walk(nx, p, 0, f) BY DEF Walk
  <2> QED BY <2>1, <1>2
<1>3. CASE j # 0
  <2>1. j - 1 \in Nat /\ j - 1 \notin Bad BY <1>1, <1>3
  <2>2. PICK g : Walk(nx, p, j - 1, g) BY <2>1
  <2> DEFINE f == [i \in 0 .. j |-> IF i = j THEN Follow(nx, p, g[j - 1]) ELSE g[i]]
  <2>3. \A i \in 0 .. j - 1 : f[i] = g[i] BY <1>3
  <2>4. \A i \in 0 .. j - 1 : g[i] = IF i = 0 THEN <<>> ELSE Follow(nx, p, g[i - 1])
    BY <2>2 DEF Walk
  <2>5. ASSUME NEW i \in 0 .. j
        PROVE  f[i] = IF i = 0 THEN <<>> ELSE Follow(nx, p, f[i - 1])
    <3>1. CASE i = j
      <4>1. f[j - 1] = g[j - 1] BY <2>3, <2>1
      <4>2. f[j] = Follow(nx, p, g[j - 1]) OBVIOUS
      <4> HIDE DEF f
      <4> QED BY <4>1, <4>2, <3>1, <1>3
    <3>2. CASE i # j
      <4>1. i \in 0 .. j - 1 /\ (i # 0 => i - 1 \in 0 .. j - 1) BY <3>2
      <4>2. f[i] = g[i] /\ (i # 0 => f[i - 1] = g[i - 1]) BY <2>3, <4>1
      <4> HIDE DEF f
      <4> QED BY <4>1, <4>2, <2>4
    <3> QED BY <3>1, <3>2
  <2>6. Walk(nx, p, j, f)
    <3>1. f = [i \in 0 .. j |-> f[i]] OBVIOUS
    <3> HIDE DEF f
    <3> QED BY <3>1, <2>5 DEF Walk
  <2> QED BY <2>6
<1> QED BY <1>2, <1>3

LEMMA ListIsWalk ==
  ASSUME NEW p
  PROVE  \E f : /\ List(p) = f[Cardinality(Record)]
                /\ f[0] = <<>>
                /\ \A i \in 1 .. Cardinality(Record) : f[i] = Follow(next, p, f[i - 1])
<1> DEFINE r == CHOOSE f : Walk(next, p, Cardinality(Record), f)
<1>1. Walk(next, p, Cardinality(Record), r) BY PcntlBounds, WalkExists
<1>2. List(p) = r[Cardinality(Record)] BY DEF List, Walk, Follow
<1>3. \A i \in 0 .. Cardinality(Record) : r[i] = IF i = 0 THEN <<>> ELSE Follow(next, p, r[i - 1])
  BY <1>1 DEF Walk
<1> HIDE DEF r
<1>4. /\ r[0] = <<>>
      /\ \A i \in 1 .. Cardinality(Record) : r[i] = Follow(next, p, r[i - 1])
  BY <1>3, PcntlBounds
<1> QED BY <1>2, <1>4

\* A chain is no longer than there are records.
LEMMA ChainLength ==
  ASSUME NEW s \in Seq(Record), IsInjective(s)
  PROVE  Len(s) \in Nat /\ Len(s) <= Cardinality(Record)
<1>1. DOMAIN s = 1 .. Len(s) /\ Len(s) \in Nat OBVIOUS
<1>2. s \in Injection(1 .. Len(s), Record) BY <1>1 DEF Injection
<1>3. Cardinality(1 .. Len(s)) <= Cardinality(Record) BY <1>2, PcntlBounds, FS_Injection
<1>4. Cardinality(1 .. Len(s)) = Len(s)
  <2>1. Len(s) \in Int /\ 1 \in Int /\ (Len(s) - 1) + 1 = Len(s) /\ (1 > Len(s) => Len(s) = 0)
    BY <1>1
  <2>2. Cardinality(1 .. Len(s)) = IF 1 > Len(s) THEN 0 ELSE Len(s) - 1 + 1
    BY <2>1, FS_Interval
  <2> QED BY <2>1, <2>2
<1> QED BY <1>1, <1>3, <1>4

\* List finds the chain there is.
LEMMA ListOfChain ==
  ASSUME NEW p, NEW s, IsChain(next, p, s)
  PROVE  List(p) = s
<1> DEFINE N == Cardinality(Record)
           Part(i) == SubSeq(s, 1, IF i <= Len(s) THEN i ELSE Len(s))
<1>1. PICK f : /\ List(p) = f[N] /\ f[0] = <<>>
               /\ \A i \in 1 .. N : f[i] = Follow(next, p, f[i - 1])
  BY ListIsWalk
<1>2. N \in Nat /\ Len(s) \in Nat /\ Len(s) <= N BY PcntlBounds, ChainLength DEF IsChain
<1>3. s \in Seq(Record) /\ IsInjective(s) /\ DOMAIN s = 1 .. Len(s) BY DEF IsChain
<1> HIDE DEF N
<1>4. ASSUME NEW i \in 1 .. N, f[i - 1] = Part(i - 1) PROVE f[i] = Part(i)
  <2>1. f[i] = Follow(next, p, Part(i - 1)) BY <1>1, <1>4
  <2>2. CASE i <= Len(s)
    <3>1. Part(i - 1) = SubSeq(s, 1, i - 1) /\ Part(i) = SubSeq(s, 1, i) BY <1>2, <2>2
    <3> DEFINE t == SubSeq(s, 1, i - 1)
               r == IF t = <<>> THEN p ELSE next[Last(t)]
    <3>2. /\ t \in Seq(Record) /\ Len(t) = i - 1 /\ DOMAIN t = 1 .. i - 1
          /\ \A j \in 1 .. i - 1 : t[j] = s[j]
      BY <1>2, <1>3, <2>2
    <3>3. r = s[i]
      <4>1. CASE i = 1
        <5>1. t = <<>> BY <3>2, <4>1
        <5>2. s # <<>> BY <2>2, <4>1
        <5>3. r = p BY <5>1
        <5> HIDE DEF t, r
        <5> QED BY <5>2, <5>3, <4>1 DEF IsChain
      <4>2. CASE i # 1
        <5>1. t # <<>> /\ Last(t) = s[i - 1]
          <6> HIDE DEF t
          <6>1. i - 1 \in 1 .. i - 1 /\ Len(t) = i - 1 /\ i - 1 # 0 BY <3>2, <4>2
          <6>2. t[i - 1] = s[i - 1] BY <3>2, <6>1
          <6>3. Last(t) = t[i - 1] BY <6>1 DEF Last
          <6>4. t # <<>> BY <6>1
          <6> QED BY <6>2, <6>3, <6>4
        <5>2. r = next[Last(t)] BY <5>1
        <5>3. i - 1 \in 1 .. Len(s) /\ i - 1 # Len(s) /\ (i - 1) + 1 = i BY <4>2, <2>2, <1>2
        <5>4. next[s[i - 1]] = s[i]
          BY <5>3 DEF IsChain
        <5> HIDE DEF t, r
        <5> QED BY <5>1, <5>2, <5>4
      <4> QED BY <4>1, <4>2
    <3>4. s[i] \in Record BY <1>2, <1>3, <2>2
    <3>5. s[i] \notin Range(t)
      <4> HIDE DEF t
      <4>1. \A j \in 1 .. i - 1 : s[j] # s[i] BY <1>2, <1>3, <2>2 DEF IsInjective
      <4> QED BY <3>2, <4>1 DEF Range
    <3>6. Follow(next, p, t) = Append(t, r) BY <3>3, <3>4, <3>5, PcntlBounds DEF Follow
    <3>7. Append(t, s[i]) = SubSeq(s, 1, i) BY <1>2, <1>3, <2>2
    <3> HIDE DEF t, r
    <3> QED BY <2>1, <3>1, <3>3, <3>6, <3>7 DEF t
  <2>3. CASE ~(i <= Len(s))
    <3>1. Part(i - 1) = s /\ Part(i) = s BY <1>2, <1>3, <2>3
    <3>2. Follow(next, p, s) = s
      <4>1. CASE s = <<>> BY <4>1 DEF IsChain, Follow
      <4>2. CASE s # <<>>
        <5>1. Len(s) \in 1 .. Len(s) BY <1>2, <1>3, <4>2
        <5>2. next[Last(s)] = "NULL" BY <5>1 DEF IsChain, Last
        <5> QED BY <4>2, <5>2 DEF Follow
      <4> QED BY <4>1, <4>2
    <3> HIDE DEF Part
    <3> QED BY <2>1, <3>1, <3>2
  <2> QED BY <2>2, <2>3
<1>5. f[0] = Part(0)
  <2>1. Part(0) = <<>> BY <1>2, <1>3
  <2> QED BY <2>1, <1>1
<1>6. Part(N) = s
  <2>1. (IF N <= Len(s) THEN N ELSE Len(s)) = Len(s) BY <1>2
  <2>2. SubSeq(s, 1, Len(s)) = s BY <1>3
  <2> QED BY <2>1, <2>2
<1> HIDE DEF Part
<1>7. f[N] = Part(N)
  <2> DEFINE Bad == {i \in 0 .. N : f[i] # Part(i)}
  <2> SUFFICES ASSUME Bad # {} PROVE FALSE BY <1>2
  <2>1. PICK m \in Bad : \A i \in Bad : m <= i
    <3>1. Bad \in SUBSET Nat BY <1>2
    <3> HIDE DEF Bad
    <3> QED BY <3>1, LeastNumber
  <2>2. m # 0 BY <2>1, <1>5
  <2>3. m \in 1 .. N /\ m - 1 \in 0 .. N /\ m - 1 \notin Bad BY <2>1, <2>2, <1>2
  <2>4. f[m - 1] = Part(m - 1) BY <2>3
  <2>5. f[m] = Part(m) BY <2>3, <2>4, <1>4
  <2> QED BY <2>1, <2>5
<1> QED BY <1>1, <1>6, <1>7

\* Whatever the pointers are, the list that starts at a record is not empty.
LEMMA ListOfRecord ==
  ASSUME next \in [Record -> Pointer], NEW p \in Record
  PROVE  List(p) \in Seq(Record) /\ Last(List(p)) \in Record
<1> DEFINE N == Cardinality(Record)
           Good(s) == s \in Seq(Record) /\ s # <<>>
<1>1. PICK f : /\ List(p) = f[N] /\ f[0] = <<>>
               /\ \A i \in 1 .. N : f[i] = Follow(next, p, f[i - 1])
  BY ListIsWalk
<1>2. N \in Nat \ {0} BY PcntlBounds, FS_EmptySet
<1> HIDE DEF N
<1>3. Good(f[1])
  <2>1. 1 \in 1 .. N /\ 1 - 1 = 0 BY <1>2
  <2>2. f[1] = Follow(next, p, <<>>) BY <1>1, <2>1
  <2>3. Range(<<>>) = {} BY DEF Range
  <2>4. Follow(next, p, <<>>) = Append(<<>>, p) BY PcntlBounds, <2>3 DEF Follow
  <2>5. Append(<<>>, p) \in Seq(Record) /\ Append(<<>>, p) # <<>> OBVIOUS
  <2> HIDE DEF Good
  <2>6. f[1] = Append(<<>>, p) BY <2>2, <2>4
  <2> QED BY <2>5, <2>6 DEF Good
<1>4. ASSUME NEW s, Good(s) PROVE Good(Follow(next, p, s))
  <2>1. Len(s) \in DOMAIN s BY <1>4
  <2>2. next[Last(s)] \in Pointer BY <1>4, <2>1 DEF Last
  <2> DEFINE r == next[Last(s)]
  <2>3. Follow(next, p, s) = IF r = "NULL" \/ r \in Range(s) THEN s ELSE Append(s, r)
    BY <1>4 DEF Follow
  <2> HIDE DEF r
  <2>4. r \in Pointer BY <2>2 DEF r
  <2>5. CASE r = "NULL" \/ r \in Range(s) BY <2>3, <2>5, <1>4
  <2>6. CASE ~(r = "NULL" \/ r \in Range(s))
    <3>1. r \in Record BY <2>4, <2>6 DEF Pointer
    <3> QED BY <2>3, <2>6, <3>1, <1>4
  <2> QED BY <2>5, <2>6
<1> HIDE DEF Good
<1>5. Good(f[N])
  <2> DEFINE Bad == {i \in 1 .. N : ~Good(f[i])}
  <2> SUFFICES ASSUME Bad # {} PROVE FALSE BY <1>2
  <2>1. PICK m \in Bad : \A i \in Bad : m <= i
    <3>1. Bad \in SUBSET Nat BY <1>2
    <3> HIDE DEF Bad
    <3> QED BY <3>1, LeastNumber
  <2>2. m # 1 BY <2>1, <1>3
  <2>3. m \in 1 .. N /\ m - 1 \in 1 .. N /\ m - 1 \notin Bad BY <2>1, <2>2, <1>2
  <2>4. Good(f[m]) BY <2>3, <1>1, <1>4
  <2> QED BY <2>1, <2>4
<1>6. Good(List(p)) BY <1>1, <1>5
<1> QED BY <1>6 DEF Good, Last

LEMMA ChainStart ==
  ASSUME NEW nx, NEW p, NEW s, IsChain(nx, p, s)
  PROVE  /\ p = "NULL" <=> s = <<>>
         /\ p = "NULL" <=> Range(s) = {}
         /\ p # "NULL" => p \in Range(s) /\ p = s[1] /\ Len(s) > 0
         /\ s \in Seq(Record) /\ IsInjective(s) /\ Len(s) \in Nat
         /\ DOMAIN s = 1 .. Len(s) /\ Range(s) \subseteq Record
<1>1. /\ s \in Seq(Record) /\ IsInjective(s) /\ DOMAIN s = 1 .. Len(s) /\ Len(s) \in Nat
      /\ p = IF s = <<>> THEN "NULL" ELSE s[1]
  BY DEF IsChain
<1>2. Range(s) \subseteq Record BY <1>1 DEF Range
<1>3. CASE s = <<>>
  <2>1. Range(s) = {} BY <1>3 DEF Range
  <2> QED BY <1>1, <1>2, <1>3, <2>1
<1>4. CASE s # <<>>
  <2>1. Len(s) > 0 /\ 1 \in DOMAIN s BY <1>1, <1>4
  <2>2. s[1] \in Range(s) BY <2>1 DEF Range
  <2>3. s[1] # "NULL" BY <2>2, <1>2, PcntlBounds
  <2> QED BY <1>1, <1>2, <1>4, <2>1, <2>2, <2>3
<1> QED BY <1>3, <1>4

LEMMA ChainNone ==
  ASSUME NEW nx
  PROVE  IsChain(nx, "NULL", <<>>) /\ Range(<<>>) = {}
BY DEF IsChain, IsInjective, Range

\* A chain stays one if the pointers of its members do.
LEMMA ChainKept ==
  ASSUME NEW nx, NEW nx2, NEW p, NEW s, IsChain(nx, p, s), \A r \in Range(s) : nx2[r] = nx[r]
  PROVE  IsChain(nx2, p, s)
<1>1. /\ s \in Seq(Record) /\ IsInjective(s) /\ DOMAIN s = 1 .. Len(s)
      /\ p = IF s = <<>> THEN "NULL" ELSE s[1]
      /\ \A i \in 1 .. Len(s) : nx[s[i]] = IF i = Len(s) THEN "NULL" ELSE s[i + 1]
  BY DEF IsChain
<1>2. \A i \in 1 .. Len(s) : nx2[s[i]] = nx[s[i]] BY <1>1 DEF Range
<1> QED BY <1>1, <1>2 DEF IsChain

\* A chain without its first record.
LEMMA ChainTail ==
  ASSUME NEW nx, NEW p, NEW s, IsChain(nx, p, s), p # "NULL"
  PROVE  /\ IsChain(nx, nx[p], Tail(s)) /\ Range(Tail(s)) = Range(s) \ {p}
         /\ Len(Tail(s)) = Len(s) - 1
         /\ \A i \in 1 .. Len(Tail(s)) : Tail(s)[i] = s[i + 1] /\ i + 1 \in 1 .. Len(s)
<1>1. /\ s \in Seq(Record) /\ IsInjective(s) /\ DOMAIN s = 1 .. Len(s) /\ Len(s) \in Nat
      /\ p = s[1] /\ Len(s) > 0 /\ s # <<>>
  BY ChainStart DEF IsChain
<1>0. \A i \in 1 .. Len(s) : nx[s[i]] = IF i = Len(s) THEN "NULL" ELSE s[i + 1]
  BY DEF IsChain
<1> DEFINE t == Tail(s)
<1>2. /\ t \in Seq(Record) /\ Len(t) = Len(s) - 1 /\ DOMAIN t = 1 .. Len(s) - 1
      /\ \A i \in 1 .. Len(s) - 1 : t[i] = s[i + 1] /\ i + 1 \in 1 .. Len(s)
  BY <1>1
<1> HIDE DEF t
<1>3. \A i, j \in 1 .. Len(s) : s[i] = s[j] => i = j BY <1>1 DEF IsInjective
<1>4. IsInjective(t)
  <2> SUFFICES ASSUME NEW i \in 1 .. Len(s) - 1, NEW j \in 1 .. Len(s) - 1, t[i] = t[j]
               PROVE  i = j
    BY <1>2 DEF IsInjective
  <2>1. s[i + 1] = s[j + 1] /\ i + 1 \in 1 .. Len(s) /\ j + 1 \in 1 .. Len(s) BY <1>2
  <2>2. i + 1 = j + 1 BY <2>1, <1>3
  <2> QED BY <2>2
<1>5. nx[p] = IF t = <<>> THEN "NULL" ELSE t[1]
  <2>1. 1 \in 1 .. Len(s) BY <1>1
  <2>2. nx[p] = IF 1 = Len(s) THEN "NULL" ELSE s[1 + 1] BY <1>0, <1>1, <2>1
  <2>3. CASE Len(s) = 1
    <3>1. t = <<>> BY <1>2, <2>3
    <3> QED BY <2>2, <2>3, <3>1
  <2>4. CASE Len(s) # 1
    <3>1. t # <<>> /\ t[1] = s[1 + 1] BY <1>1, <1>2, <2>4
    <3> QED BY <2>2, <2>4, <3>1
  <2> QED BY <2>3, <2>4
<1>6. ASSUME NEW i \in 1 .. Len(t)
      PROVE  nx[t[i]] = IF i = Len(t) THEN "NULL" ELSE t[i + 1]
  <2>1. i \in 1 .. Len(s) - 1 /\ i + 1 \in 1 .. Len(s) /\ t[i] = s[i + 1] BY <1>2
  <2>2. nx[s[i + 1]] = IF i + 1 = Len(s) THEN "NULL" ELSE s[(i + 1) + 1] BY <1>0, <2>1
  <2>3. CASE i = Len(t) BY <1>1, <1>2, <2>1, <2>2, <2>3
  <2>4. CASE i # Len(t)
    <3>0. Len(s) \in Nat /\ i \in 1 .. Len(s) - 1 /\ i # Len(s) - 1 BY <1>1, <1>2, <2>1, <2>4
    <3>1. i + 1 \in 1 .. Len(s) - 1 /\ i + 1 # Len(s) BY <3>0
    <3>2. t[i + 1] = s[(i + 1) + 1] BY <1>2, <3>1
    <3> QED BY <2>1, <2>2, <2>4, <3>1, <3>2
  <2> QED BY <2>3, <2>4
<1>7. Range(t) = Range(s) \ {p}
  <2>1. ASSUME NEW r \in Range(t) PROVE r \in Range(s) \ {p}
    <3>1. PICK i \in 1 .. Len(s) - 1 : r = t[i] BY <1>2, <2>1 DEF Range
    <3>2. r = s[i + 1] /\ i + 1 \in 1 .. Len(s) /\ i + 1 # 1 /\ 1 \in 1 .. Len(s)
      BY <1>1, <1>2, <3>1
    <3>3. r # s[1] BY <1>3, <3>2
    <3>4. r \in Range(s) BY <1>1, <3>2 DEF Range
    <3> QED BY <1>1, <3>3, <3>4
  <2>2. ASSUME NEW r \in Range(s) \ {p} PROVE r \in Range(t)
    <3>1. PICK i \in 1 .. Len(s) : r = s[i] BY <1>1, <2>2 DEF Range
    <3>2. i # 1 BY <1>1, <3>1, <2>2
    <3>3. i - 1 \in 1 .. Len(s) - 1 /\ (i - 1) + 1 = i BY <3>2, <1>1
    <3>4. t[i - 1] = r BY <3>1, <3>3, <1>2
    <3> QED BY <1>2, <3>3, <3>4 DEF Range
  <2> QED BY <2>1, <2>2
<1>8. IsChain(nx, nx[p], t) BY <1>2, <1>4, <1>5, <1>6 DEF IsChain
<1> QED BY <1>2, <1>7, <1>8 DEF t

\* A record before a chain.
LEMMA ChainCons ==
  ASSUME NEW nx, NEW p, NEW s, IsChain(nx, p, s), NEW r \in Record \ Range(s), nx[r] = p
  PROVE  IsChain(nx, r, <<r>> \o s) /\ Range(<<r>> \o s) = Range(s) \cup {r}
<1>1. /\ s \in Seq(Record) /\ IsInjective(s) /\ DOMAIN s = 1 .. Len(s) /\ Len(s) \in Nat
      /\ p = IF s = <<>> THEN "NULL" ELSE s[1]
  BY DEF IsChain
<1>0. \A i \in 1 .. Len(s) : nx[s[i]] = IF i = Len(s) THEN "NULL" ELSE s[i + 1]
  BY DEF IsChain
<1> DEFINE t == <<r>> \o s
<1>2. /\ t \in Seq(Record) /\ Len(t) = Len(s) + 1 /\ DOMAIN t = 1 .. Len(s) + 1 /\ t # <<>>
      /\ t[1] = r /\ \A i \in 1 .. Len(s) + 1 : t[i] = IF i = 1 THEN r ELSE s[i - 1]
  BY <1>1
<1> HIDE DEF t
<1>3. \A i \in 2 .. Len(s) + 1 : t[i] = s[i - 1] /\ i - 1 \in 1 .. Len(s) BY <1>1, <1>2
<1>4. \A i \in 1 .. Len(s) : s[i] # r /\ s[i] \in Range(s) BY <1>1 DEF Range
<1>5. IsInjective(t)
  <2> SUFFICES ASSUME NEW i \in 1 .. Len(s) + 1, NEW j \in 1 .. Len(s) + 1, t[i] = t[j]
               PROVE  i = j
    BY <1>2 DEF IsInjective
  <2>1. CASE i = 1 /\ j = 1 BY <2>1
  <2>2. CASE i # 1 /\ j # 1
    <3>1. i \in 2 .. Len(s) + 1 /\ j \in 2 .. Len(s) + 1 BY <2>2
    <3>2. s[i - 1] = s[j - 1] /\ i - 1 \in DOMAIN s /\ j - 1 \in DOMAIN s BY <1>1, <1>3, <3>1
    <3>3. i - 1 = j - 1 BY <1>1, <3>2 DEF IsInjective
    <3> QED BY <3>3
  <2>3. CASE i # 1 /\ j = 1
    <3>1. i \in 2 .. Len(s) + 1 BY <2>3
    <3> QED BY <1>2, <1>3, <1>4, <2>3, <3>1
  <2>4. CASE i = 1 /\ j # 1
    <3>1. j \in 2 .. Len(s) + 1 BY <2>4
    <3> QED BY <1>2, <1>3, <1>4, <2>4, <3>1
  <2> QED BY <2>1, <2>2, <2>3, <2>4
<1>6. ASSUME NEW i \in 1 .. Len(t)
      PROVE  nx[t[i]] = IF i = Len(t) THEN "NULL" ELSE t[i + 1]
  <2>1. CASE i = 1
    <3>1. nx[t[i]] = p BY <1>2, <2>1
    <3>2. CASE s = <<>> BY <1>1, <1>2, <2>1, <3>1, <3>2
    <3>3. CASE s # <<>>
      <4>1. Len(s) > 0 /\ i # Len(t) /\ i + 1 \in 2 .. Len(s) + 1 /\ (i + 1) - 1 = 1
        BY <1>1, <1>2, <2>1, <3>3
      <4>2. t[i + 1] = s[1] BY <1>3, <4>1
      <4> QED BY <1>1, <3>1, <3>3, <4>1, <4>2
    <3> QED BY <3>2, <3>3
  <2>2. CASE i # 1
    <3>1. i \in 2 .. Len(s) + 1 /\ t[i] = s[i - 1] /\ i - 1 \in 1 .. Len(s) BY <1>2, <1>3, <2>2
    <3>2. nx[t[i]] = IF i - 1 = Len(s) THEN "NULL" ELSE s[(i - 1) + 1] BY <1>0, <3>1
    <3>3. CASE i = Len(t) BY <1>1, <1>2, <3>1, <3>2, <3>3
    <3>4. CASE i # Len(t)
      <4>1. i + 1 \in 2 .. Len(s) + 1 /\ i - 1 # Len(s) /\ (i - 1) + 1 = i /\ (i + 1) - 1 = i
        BY <1>1, <1>2, <3>1, <3>4
      <4>2. t[i + 1] = s[i] BY <1>3, <4>1
      <4> QED BY <3>2, <3>4, <4>1, <4>2
    <3> QED BY <3>3, <3>4
  <2> QED BY <2>1, <2>2
<1>7. Range(t) = Range(s) \cup {r}
  <2>1. ASSUME NEW q \in Range(t) PROVE q \in Range(s) \cup {r}
    <3>1. PICK i \in 1 .. Len(s) + 1 : q = t[i] BY <1>2, <2>1 DEF Range
    <3>2. CASE i = 1 BY <1>2, <3>1, <3>2
    <3>3. CASE i # 1
      <4>1. i \in 2 .. Len(s) + 1 BY <3>3
      <4> QED BY <1>3, <1>4, <3>1, <4>1
    <3> QED BY <3>2, <3>3
  <2>2. ASSUME NEW q \in Range(s) PROVE q \in Range(t)
    <3>1. PICK i \in 1 .. Len(s) : q = s[i] BY <1>1, <2>2 DEF Range
    <3>2. i + 1 \in 2 .. Len(s) + 1 /\ i + 1 \in 1 .. Len(s) + 1 /\ (i + 1) - 1 = i BY <1>1
    <3>3. t[i + 1] = q BY <1>3, <3>1, <3>2
    <3> QED BY <1>2, <3>2, <3>3 DEF Range
  <2>3. r \in Range(t)
    <3>1. 1 \in 1 .. Len(s) + 1 BY <1>1
    <3> QED BY <1>2, <3>1 DEF Range
  <2> QED BY <2>1, <2>2, <2>3
<1>8. IsChain(nx, r, t) BY <1>2, <1>5, <1>6 DEF IsChain
<1> QED BY <1>7, <1>8 DEF t

\* A record behind a chain.
LinksBehind(nx, nx2, s, r) ==
  /\ nx2[r] = "NULL" /\ (s # <<>> => nx2[s[Len(s)]] = r)
  /\ \A q \in Range(s) : q # s[Len(s)] => nx2[q] = nx[q]

LEMMA ChainAppend ==
  ASSUME NEW nx, NEW nx2, NEW p, NEW s, IsChain(nx, p, s), NEW r \in Record \ Range(s),
         NEW p2, p2 = IF p = "NULL" THEN r ELSE p,
         LinksBehind(nx, nx2, s, r)
  PROVE  /\ IsChain(nx2, p2, Append(s, r))
         /\ Range(Append(s, r)) = Range(s) \cup {r}
         /\ Len(Append(s, r)) = Len(s) + 1 /\ Append(s, r)[Len(s) + 1] = r
         /\ \A i \in 1 .. Len(s) : Append(s, r)[i] = s[i]
<1>1. /\ s \in Seq(Record) /\ IsInjective(s) /\ DOMAIN s = 1 .. Len(s) /\ Len(s) \in Nat
      /\ p = IF s = <<>> THEN "NULL" ELSE s[1]
      /\ p = "NULL" <=> s = <<>>
  BY ChainStart DEF IsChain
<1>0. \A i \in 1 .. Len(s) : nx[s[i]] = IF i = Len(s) THEN "NULL" ELSE s[i + 1]
  BY DEF IsChain
<1> USE DEF LinksBehind
<1> DEFINE t == Append(s, r)
<1>2. /\ t \in Seq(Record) /\ Len(t) = Len(s) + 1 /\ DOMAIN t = 1 .. Len(s) + 1 /\ t # <<>>
      /\ t[Len(s) + 1] = r /\ \A i \in 1 .. Len(s) : t[i] = s[i]
  <2>1. s \in Seq(Record) /\ r \in Record /\ Len(s) \in Nat BY <1>1
  <2>2. /\ t \in Seq(Record) /\ Len(t) = Len(s) + 1 /\ DOMAIN t = 1 .. Len(s) + 1
        /\ t[Len(s) + 1] = r /\ \A i \in 1 .. Len(s) : t[i] = s[i]
    BY <2>1
  <2>3. t # <<>> BY <2>1, <2>2
  <2> QED BY <2>2, <2>3
<1> HIDE DEF t
<1>3. \A i \in 1 .. Len(s) : s[i] # r /\ s[i] \in Range(s) BY <1>1 DEF Range
<1>4. \A i, j \in 1 .. Len(s) : s[i] = s[j] => i = j BY <1>1 DEF IsInjective
<1>5. IsInjective(t)
  <2> SUFFICES ASSUME NEW i \in 1 .. Len(s) + 1, NEW j \in 1 .. Len(s) + 1, t[i] = t[j]
               PROVE  i = j
    BY <1>2 DEF IsInjective
  <2>1. \A k \in 1 .. Len(s) + 1 : k # Len(s) + 1 => k \in 1 .. Len(s) BY <1>1
  <2> QED BY <2>1, <1>2, <1>3, <1>4
<1>6. ASSUME NEW i \in 1 .. Len(t)
      PROVE  nx2[t[i]] = IF i = Len(t) THEN "NULL" ELSE t[i + 1]
  <2>1. CASE i = Len(s) + 1 BY <1>2, <2>1
  <2>2. CASE i = Len(s)
    <3>1. s # <<>> /\ i \in 1 .. Len(s) BY <1>1, <2>2
    <3>2. nx2[s[i]] = r /\ t[i] = s[i] BY <1>2, <2>2, <3>1
    <3> QED BY <1>1, <1>2, <2>2, <3>2
  <2>3. CASE i # Len(s) + 1 /\ i # Len(s)
    <3>0. Len(s) \in Nat /\ i \in 1 .. Len(s) + 1 BY <1>1, <1>2
    <3>1. i \in 1 .. Len(s) /\ i + 1 \in 1 .. Len(s) /\ Len(s) \in 1 .. Len(s) BY <3>0, <2>3
    <3>2. s[i] # s[Len(s)] BY <1>4, <2>3, <3>1
    <3>3. nx2[s[i]] = nx[s[i]] BY <1>3, <3>1, <3>2
    <3>4. nx[s[i]] = s[i + 1] BY <1>0, <2>3, <3>1
    <3> QED BY <1>2, <2>3, <3>1, <3>3, <3>4
  <2> QED BY <2>1, <2>2, <2>3
<1>7. Range(t) = Range(s) \cup {r}
  <2>1. \A k \in 1 .. Len(s) + 1 : k # Len(s) + 1 => k \in 1 .. Len(s) BY <1>1
  <2>2. Range(t) \subseteq Range(s) \cup {r} BY <2>1, <1>2, <1>3 DEF Range
  <2>3. ASSUME NEW q \in Range(s) PROVE q \in Range(t)
    <3>1. PICK i \in 1 .. Len(s) : q = s[i] BY <1>1, <2>3 DEF Range
    <3>2. i \in 1 .. Len(s) + 1 /\ t[i] = q BY <1>1, <1>2, <3>1
    <3> QED BY <1>2, <3>2 DEF Range
  <2>4. r \in Range(t)
    <3>1. Len(s) + 1 \in 1 .. Len(s) + 1 BY <1>1
    <3> QED BY <1>2, <3>1 DEF Range
  <2> QED BY <2>2, <2>3, <2>4
<1>8. p2 = t[1]
  <2>1. CASE s = <<>> BY <1>1, <1>2, <2>1
  <2>2. CASE s # <<>>
    <3>1. 1 \in 1 .. Len(s) BY <1>1, <2>2
    <3>2. p = s[1] /\ p # "NULL" BY <1>1, <2>2
    <3> QED BY <1>2, <3>1, <3>2
  <2> QED BY <2>1, <2>2
<1>9. IsChain(nx2, p2, t) BY <1>2, <1>5, <1>6, <1>8 DEF IsChain
<1> QED BY <1>2, <1>7, <1>9 DEF t

(***************************************************************************)
(* The inductive invariant of Pcntl.                                       *)
(***************************************************************************)

TypesOK ==
  /\ next \in [Record -> Pointer] /\ signo \in [Record -> 0 .. MaxSent]
  /\ head \in Pointer /\ tail \in Pointer /\ spares \in Pointer /\ queue \in Pointer
  /\ psig \in Pointer
  /\ pending_signals \in BOOLEAN /\ async_signals \in BOOLEAN
  /\ processing_signal_queue \in BOOLEAN /\ vm_interrupt \in BOOLEAN
  /\ masked \in BOOLEAN /\ old_mask \in BOOLEAN /\ handler_threw \in BOOLEAN
  /\ php_signal_table \in {"none", "callable", "long"}
  /\ fresh \subseteq Record /\ left \in 0 .. num_signals
  /\ from \in {"run", "handler"}
  /\ at \in {"run", "interrupt", "link", "store", "install", "play", "handler",
             "give_back", "give_back_store"}
  /\ sent \in 0 .. MaxSent /\ asked \subseteq 1 .. sent
  /\ marred \subseteq {"raced", "unmasked", "bailout"}
  /\ called \in Seq(Nat)

\* The program is in the dispatcher, or in a handler it has called.
InDispatcher ==
  at \in {"play", "handler", "give_back", "give_back_store"} \/ from = "handler"

\* The first record of the dispatcher's queue has been dealt with.
Begun == at \in {"handler", "give_back"} \/ from = "handler"

\* What the local variables are where the program is.  After a bailout the
\* dispatcher believes for ever that it is running.
PlaceOK ==
  /\ from = "handler" => at \in {"link", "store", "install"}
  /\ at \in {"link", "store"} => left > 0
  /\ at = "link" => Cardinality(fresh) >= left
  /\ at = "store" => Cardinality(fresh) >= left - 1
  /\ psig # "NULL" <=> at \in {"store", "give_back_store"}
  /\ Begun => queue # "NULL"
  /\ ~InDispatcher => queue = "NULL"
  /\ processing_signal_queue <=> InDispatcher \/ "bailout" \in marred
  /\ "bailout" \in marred => ~InDispatcher

\* No signal comes while the dispatcher has the queue.
MaskOK ==
  marred = {} => /\ processing_signal_queue => masked /\ pending_signals /\ head = "NULL"
                 /\ head # "NULL" => pending_signals

\* The queue, the spare records and the dispatcher's queue are chains that have
\* no record in common, and with the one in a local variable they are all.
ListsOK(h, s, q) ==
  /\ IsChain(next, head, h) /\ IsChain(next, spares, s) /\ IsChain(next, queue, q)
  /\ Range(h) \cap Range(s) = {} /\ Range(h) \cap Range(q) = {} /\ Range(s) \cap Range(q) = {}
  /\ psig # "NULL" => psig \notin Range(h) \cup Range(s) \cup Range(q) /\ next[psig] = spares
  /\ Range(h) \cup Range(s) \cup Range(q) \cup ({psig} \ {"NULL"}) = Record \ fresh
  /\ tail = IF h = <<>> THEN "NULL" ELSE h[Len(h)]

Increasing(s) == \A i, j \in 1 .. Len(s) : i < j => signo[s[i]] < signo[s[j]]

\* Where each signal is, and that what waits came after what was called.
SignalsOK(h, q) ==
  /\ 1 .. sent = Range(called) \cup without \cup skipped
                   \cup {signo[r] : r \in Range(h) \cup Range(q)}
  /\ Increasing(h) /\ Increasing(q)
  /\ \A i \in 1 .. Len(called) : \A r \in Range(h) : called[i] < signo[r]
  /\ \A i \in 1 .. Len(called) : \A j \in 1 .. Len(q) :
       ~Begun \/ j > 1 => called[i] < signo[q[j]]
  /\ Begun => signo[queue] \in Range(called) \cup skipped

QueueOK == marred = {} => \E h, s, q : ListsOK(h, s, q) /\ SignalsOK(h, q)

PcntlInv == TypesOK /\ PlaceOK /\ MaskOK /\ QueueOK /\ CalledInOrder

LEMMA PcntlInitInv == PcntlInit => PcntlInv
<1> SUFFICES ASSUME PcntlInit PROVE PcntlInv OBVIOUS
<1> USE DEF PcntlInit
<1>1. TypesOK
  <2>1. /\ next \in [Record -> Pointer] /\ signo \in [Record -> 0 .. MaxSent]
        /\ sent \in 0 .. MaxSent /\ left \in 0 .. num_signals /\ called \in Seq(Nat)
    BY PcntlBounds DEF Pointer
  <2> QED BY <2>1 DEF TypesOK, Pointer
<1>2. PlaceOK /\ MaskOK BY DEF PlaceOK, MaskOK, InDispatcher, Begun
<1>3. QueueOK
  <2>1. Range(<<>>) = {} BY DEF Range
  <2>2. ListsOK(<<>>, <<>>, <<>>) BY <2>1, ChainNone DEF ListsOK
  <2>3. SignalsOK(<<>>, <<>>) BY <2>1 DEF SignalsOK, Increasing, Begun
  <2> QED BY <2>2, <2>3 DEF QueueOK
<1>4. CalledInOrder BY DEF CalledInOrder
<1> QED BY <1>1, <1>2, <1>3, <1>4 DEF PcntlInv

-----------------------------------------------------------------------------
(* Types and places are kept by every step.                                *)

LEMMA AppendCalled ==
  ASSUME NEW c \in Seq(Nat), NEW x \in Nat
  PROVE  /\ Append(c, x) \in Seq(Nat) /\ Len(Append(c, x)) = Len(c) + 1
         /\ Len(c) \in Nat /\ DOMAIN c = 1 .. Len(c)
         /\ Append(c, x)[Len(c) + 1] = x
         /\ \A i \in 1 .. Len(c) : Append(c, x)[i] = c[i] /\ c[i] \in Nat
         /\ Range(Append(c, x)) = Range(c) \cup {x}
<1>1. /\ Append(c, x) \in Seq(Nat) /\ Len(Append(c, x)) = Len(c) + 1 /\ Len(c) \in Nat
      /\ Append(c, x)[Len(c) + 1] = x /\ \A i \in 1 .. Len(c) : Append(c, x)[i] = c[i] /\ c[i] \in Nat
      /\ DOMAIN c = 1 .. Len(c) /\ DOMAIN Append(c, x) = 1 .. Len(c) + 1
  OBVIOUS
<1>2. \A k \in 1 .. Len(c) + 1 : k # Len(c) + 1 => k \in 1 .. Len(c) BY <1>1
<1>3. Len(c) + 1 \in 1 .. Len(c) + 1 /\ \A k \in 1 .. Len(c) : k \in 1 .. Len(c) + 1 BY <1>1
<1>4. Range(Append(c, x)) \subseteq Range(c) \cup {x} BY <1>1, <1>2 DEF Range
<1>5. Range(c) \cup {x} \subseteq Range(Append(c, x))
  <2>1. \A k \in 1 .. Len(c) + 1 : Append(c, x)[k] \in Range(Append(c, x)) BY <1>1 DEF Range
  <2>2. x \in Range(Append(c, x)) BY <1>1, <1>3, <2>1
  <2>3. ASSUME NEW y \in Range(c) PROVE y \in Range(Append(c, x))
    <3>1. PICK k \in 1 .. Len(c) : y = c[k] BY <1>1, <2>3 DEF Range
    <3> QED BY <1>1, <1>3, <2>1, <3>1
  <2> QED BY <2>2, <2>3
<1> QED BY <1>1, <1>4, <1>5

LEMMA FreshTaken ==
  ASSUME TypesOK, PlaceOK, at = "link", NEW r, r = CHOOSE x \in fresh : TRUE
  PROVE  /\ r \in fresh /\ r \in Record /\ r # "NULL"
         /\ Cardinality(fresh \ {r}) = Cardinality(fresh) - 1
         /\ Cardinality(fresh) \in Nat
<1>1. IsFiniteSet(fresh) /\ Cardinality(fresh) \in Nat
  BY PcntlBounds, FS_Subset, FS_CardinalityType DEF TypesOK
<1>2. left \in Nat /\ left > 0 /\ Cardinality(fresh) >= left BY DEF TypesOK, PlaceOK
<1>3. fresh # {} BY <1>1, <1>2, FS_EmptySet
<1>4. r \in fresh BY <1>3
<1>5. r \in Record /\ r # "NULL" BY <1>4, PcntlBounds DEF TypesOK
<1>6. Cardinality(fresh \ {r}) = Cardinality(fresh) - 1 BY <1>1, <1>4, FS_RemoveElement
<1> QED BY <1>1, <1>4, <1>5, <1>6

LEMMA PcntlTypesKept == TypesOK /\ PlaceOK /\ [PcntlNext]_pcntlVars => TypesOK'
<1> SUFFICES ASSUME TypesOK, PlaceOK, [PcntlNext]_pcntlVars PROVE TypesOK' OBVIOUS
<1> USE PcntlBounds
<1> USE DEF TypesOK, lists, flagVars, setVars, local, record
<1>1. CASE CallSignal BY <1>1 DEF CallSignal
<1>2. CASE AllocLink
  <2> DEFINE r == CHOOSE x \in fresh : TRUE
  <2>1. r \in fresh /\ r \in Record /\ r # "NULL" BY <1>2, FreshTaken DEF AllocLink
  <2>2. /\ psig' = r /\ fresh' = fresh \ {r} /\ next' = [next EXCEPT ![r] = spares]
        /\ at' = "store"
        /\ UNCHANGED <<signo, head, tail, spares, flagVars, setVars, masked, queue, old_mask, left, from,
                 handler_threw, record>>
    BY <1>2 DEF AllocLink
  <2> HIDE DEF r
  <2> QED BY <2>1, <2>2 DEF Pointer
<1>3. CASE AllocStore BY <1>3 DEF AllocStore, PlaceOK, Pointer
<1>4. CASE Install BY <1>4 DEF Install
<1>5. CASE Async
  <2>1. async_signals' \in BOOLEAN /\ asked' \subseteq 1 .. sent' BY <1>5 DEF Async
  <2>2. UNCHANGED <<lists, flagVars, php_signal_table, masked, local, at, sent, called, marred>>
    BY <1>5 DEF Async
  <2> QED BY <2>1, <2>2
<1>6. CASE Sigprocmask BY <1>6 DEF Sigprocmask
<1>7. CASE NextRequest
  <2>1. next' \in [Record -> Pointer] /\ signo' \in [Record -> 0 .. MaxSent]
    BY <1>7 DEF NextRequest, Pointer
  <2> QED BY <1>7, <2>1 DEF NextRequest, Pointer
<1>8. CASE Interrupt BY <1>8 DEF Interrupt
<1>9. CASE InterruptInHandler BY <1>9 DEF InterruptInHandler
<1>10. CASE Dispatch BY <1>10 DEF Dispatch, Pointer
<1>11. CASE NothingToDispatch BY <1>11 DEF NothingToDispatch
<1>12. CASE Play
  <2>1. queue \in Record BY <1>12 DEF Play, Pointer
  <2>2. signo[queue] \in Nat BY <2>1
  <2>3. called' \in Seq(Nat)
    <3>1. called' = called \/ called' = Append(called, signo[queue]) BY <1>12 DEF Play
    <3>2. Append(called, signo[queue]) \in Seq(Nat) BY <2>2, AppendCalled
    <3> QED BY <3>1, <3>2
  <2>4. UNCHANGED <<lists, flagVars, setVars, masked, local, sent, without, asked, marred>>
        /\ at' \in {"handler", "give_back"}
    BY <1>12 DEF Play
  <2> QED BY <2>3, <2>4
<1>13. CASE HandlerEnds BY <1>13 DEF HandlerEnds
<1>14. CASE HandlerBailout
  <2>1. marred' \subseteq {"raced", "unmasked", "bailout"} BY <1>14 DEF HandlerBailout
  <2>2. /\ at' = "run" /\ queue' = "NULL" /\ old_mask' = FALSE
        /\ UNCHANGED <<lists, flagVars, setVars, masked, psig, left, from, handler_threw,
                       sent, called, without, skipped, asked>>
    BY <1>14 DEF HandlerBailout
  <2>3. /\ sent' \in 0 .. MaxSent /\ asked' \subseteq 1 .. sent' /\ called' \in Seq(Nat)
        /\ left' \in 0 .. num_signals
    BY <2>2
  <2>4. /\ next' \in [Record -> Pointer] /\ signo' \in [Record -> 0 .. MaxSent]
        /\ head' \in Pointer /\ tail' \in Pointer /\ spares' \in Pointer /\ queue' \in Pointer
        /\ psig' \in Pointer /\ fresh' \subseteq Record
    BY <2>2 DEF Pointer
  <2>5. /\ pending_signals' \in BOOLEAN /\ async_signals' \in BOOLEAN
        /\ processing_signal_queue' \in BOOLEAN /\ vm_interrupt' \in BOOLEAN
        /\ masked' \in BOOLEAN /\ old_mask' \in BOOLEAN /\ handler_threw' \in BOOLEAN
        /\ php_signal_table' \in {"none", "callable", "long"}
        /\ from' \in {"run", "handler"} /\ at' = "run"
    BY <2>2
  <2> QED BY <2>1, <2>3, <2>4, <2>5
<1>15. CASE GiveBackLink BY <1>15 DEF GiveBackLink, PlaceOK, Begun, Pointer
<1>16. CASE GiveBackStore
  <2>1. signo' \in [Record -> 0 .. MaxSent]
    <3>1. 0 \in 0 .. MaxSent /\ signo \in [Record -> 0 .. MaxSent] OBVIOUS
    <3>2. signo' = [signo EXCEPT ![psig] = 0] BY <1>16 DEF GiveBackStore
    <3> QED BY ONLY <3>1, <3>2
  <2>2. /\ spares' = psig /\ psig' = "NULL" /\ at' = "play"
        /\ UNCHANGED <<next, head, tail, fresh, flagVars, setVars, masked, queue, old_mask,
                       left, from, handler_threw, record>>
    BY <1>16 DEF GiveBackStore
  <2> QED BY <2>1, <2>2 DEF Pointer
<1>17. CASE Played BY <1>17 DEF Played, Leave, Pointer
<1>18. CASE PutBack
  <2>1. queue \in Record BY <1>18 DEF PutBack, Pointer
  <2>2. Last(List(queue)) \in Record BY <2>1, ListOfRecord
  <2> QED BY <1>18, <2>2 DEF PutBack, Leave, Pointer
<1>19. CASE pcntl_signal_handler
  <2>0. /\ sent' = sent + 1 /\ sent' \in 0 .. MaxSent /\ (1 .. sent) \subseteq (1 .. sent')
        /\ sent' \in 1 .. sent'
    BY <1>19 DEF pcntl_signal_handler
  <2>1. CASE spares = "NULL"
    <3>1. /\ UNCHANGED <<lists, pending_signals, vm_interrupt, asked, marred>>
          /\ UNCHANGED <<processing_signal_queue, setVars, masked, local, at, called, skipped>>
      BY <1>19, <2>1 DEF pcntl_signal_handler
    <3> QED BY <2>0, <3>1
  <2>2. CASE spares # "NULL"
    <3>1. spares \in Record BY <2>2 DEF Pointer
    <3>2. next' \in [Record -> Pointer] /\ head' \in Pointer /\ tail' \in Pointer
      BY <1>19, <2>2, <3>1 DEF pcntl_signal_handler, EnqueueRecord, Pointer
    <3>3. spares' \in Pointer BY <1>19, <2>2, <3>1 DEF pcntl_signal_handler
    <3>4. signo' \in [Record -> 0 .. MaxSent] /\ sent' \in 0 .. MaxSent /\ asked' \subseteq 1 .. sent'
      <4>1. /\ signo' = [signo EXCEPT ![spares] = sent']
            /\ asked' = asked \cup {sent'} \/ asked' = asked
        BY <1>19, <2>0, <2>2 DEF pcntl_signal_handler
      <4> QED BY <2>0, <4>1
    <3>5. /\ pending_signals' \in BOOLEAN /\ vm_interrupt' \in BOOLEAN /\ fresh' = fresh
          /\ marred' \subseteq {"raced", "unmasked", "bailout"}
          /\ UNCHANGED <<processing_signal_queue, setVars, masked, local, at, called>>
      BY <1>19, <2>2 DEF pcntl_signal_handler
    <3> QED BY <3>2, <3>3, <3>4, <3>5
  <2> QED BY <2>1, <2>2
<1>20. CASE UNCHANGED pcntlVars BY <1>20 DEF pcntlVars
<1> QED BY <1>1, <1>2, <1>3, <1>4, <1>5, <1>6, <1>7, <1>8, <1>9, <1>10, <1>11, <1>12, <1>13,
           <1>14, <1>15, <1>16, <1>17, <1>18, <1>19, <1>20
        DEF PcntlNext, pcntl_signal, pcntl_signal_dispatch

LEMMA PlacesKept == TypesOK /\ PlaceOK /\ [PcntlNext]_pcntlVars => PlaceOK'
<1> SUFFICES ASSUME TypesOK, PlaceOK, [PcntlNext]_pcntlVars PROVE PlaceOK' OBVIOUS
<1> USE PcntlBounds
<1> USE DEF PlaceOK, InDispatcher, Begun, lists, flagVars, setVars, local, record
<1>1. CASE CallSignal BY <1>1 DEF CallSignal
<1>2. CASE AllocLink
  <2> DEFINE r == CHOOSE x \in fresh : TRUE
  <2>1. r # "NULL" /\ Cardinality(fresh \ {r}) = Cardinality(fresh) - 1 /\ Cardinality(fresh) \in Nat
    BY <1>2, FreshTaken DEF AllocLink
  <2>2. /\ psig' = r /\ fresh' = fresh \ {r} /\ at = "link" /\ at' = "store"
        /\ UNCHANGED <<left, from, queue, processing_signal_queue, marred>>
    BY <1>2 DEF AllocLink
  <2> HIDE DEF r
  <2>3. left \in Nat BY DEF TypesOK
  <2>4. Cardinality(fresh') >= left' - 1 BY <2>1, <2>2, <2>3
  <2> QED BY <2>1, <2>2, <2>4
<1>3. CASE AllocStore
  <2>1. left \in Nat BY DEF TypesOK
  <2> QED BY <1>3, <2>1 DEF AllocStore
<1>4. CASE Install BY <1>4 DEF Install, TypesOK
<1>5. CASE Async BY <1>5 DEF Async
<1>6. CASE Sigprocmask BY <1>6 DEF Sigprocmask
<1>7. CASE NextRequest BY <1>7 DEF NextRequest
<1>8. CASE Interrupt BY <1>8 DEF Interrupt
<1>9. CASE InterruptInHandler BY <1>9 DEF InterruptInHandler
<1>10. CASE Dispatch BY <1>10 DEF Dispatch, CanDispatch
<1>11. CASE NothingToDispatch BY <1>11 DEF NothingToDispatch
<1>12. CASE Play BY <1>12 DEF Play
<1>13. CASE HandlerEnds BY <1>13 DEF HandlerEnds
<1>14. CASE HandlerBailout BY <1>14 DEF HandlerBailout
<1>15. CASE GiveBackLink BY <1>15 DEF GiveBackLink
<1>16. CASE GiveBackStore BY <1>16 DEF GiveBackStore
<1>17. CASE Played BY <1>17 DEF Played, Leave, Stopped
<1>18. CASE PutBack BY <1>18 DEF PutBack, Leave, Stopped
<1>19. CASE pcntl_signal_handler
  <2>1. /\ UNCHANGED <<processing_signal_queue, from, queue, psig, left, fresh, at>>
        /\ marred' = marred \/ marred' = marred \cup {"raced"}
    BY <1>19 DEF pcntl_signal_handler
  <2> QED BY <2>1
<1>20. CASE UNCHANGED pcntlVars BY <1>20 DEF pcntlVars
<1> QED BY <1>1, <1>2, <1>3, <1>4, <1>5, <1>6, <1>7, <1>8, <1>9, <1>10, <1>11, <1>12, <1>13,
           <1>14, <1>15, <1>16, <1>17, <1>18, <1>19, <1>20
        DEF PcntlNext, pcntl_signal, pcntl_signal_dispatch

LEMMA MasksKept == TypesOK /\ PlaceOK /\ MaskOK /\ [PcntlNext]_pcntlVars => MaskOK'
<1> SUFFICES ASSUME TypesOK, PlaceOK, MaskOK, [PcntlNext]_pcntlVars PROVE MaskOK' OBVIOUS
<1> USE DEF MaskOK, lists, flagVars, setVars, local, record
<1>1. CASE CallSignal BY <1>1 DEF CallSignal
<1>2. CASE AllocLink BY <1>2 DEF AllocLink
<1>3. CASE AllocStore BY <1>3 DEF AllocStore
<1>4. CASE Install BY <1>4 DEF Install
<1>5. CASE Async BY <1>5 DEF Async
<1>6. CASE Sigprocmask
  BY <1>6 DEF Sigprocmask, PlaceOK, InDispatcher, TypesOK
<1>7. CASE NextRequest BY <1>7 DEF NextRequest, PlaceOK, InDispatcher
<1>8. CASE Interrupt BY <1>8 DEF Interrupt
<1>9. CASE InterruptInHandler BY <1>9 DEF InterruptInHandler
<1>10. CASE Dispatch BY <1>10 DEF Dispatch, CanDispatch
<1>11. CASE NothingToDispatch BY <1>11 DEF NothingToDispatch
<1>12. CASE Play BY <1>12 DEF Play
<1>13. CASE HandlerEnds BY <1>13 DEF HandlerEnds
<1>14. CASE HandlerBailout BY <1>14 DEF HandlerBailout
<1>15. CASE GiveBackLink BY <1>15 DEF GiveBackLink
<1>16. CASE GiveBackStore BY <1>16 DEF GiveBackStore
<1>17. CASE Played BY <1>17 DEF Played, Leave, Stopped, PlaceOK, InDispatcher
<1>18. CASE PutBack BY <1>18 DEF PutBack, Leave, Stopped, PlaceOK, InDispatcher
<1>19. CASE pcntl_signal_handler BY <1>19 DEF pcntl_signal_handler
<1>20. CASE UNCHANGED pcntlVars BY <1>20 DEF pcntlVars
<1> QED BY <1>1, <1>2, <1>3, <1>4, <1>5, <1>6, <1>7, <1>8, <1>9, <1>10, <1>11, <1>12, <1>13,
           <1>14, <1>15, <1>16, <1>17, <1>18, <1>19, <1>20
        DEF PcntlNext, pcntl_signal, pcntl_signal_dispatch

-----------------------------------------------------------------------------
(* The lists and the signals in them.                                      *)

\* What the parts say of the sequences, without the sequences' definitions.
LEMMA ListsKnown ==
  ASSUME TypesOK, NEW h, NEW s, NEW q, ListsOK(h, s, q)
  PROVE  /\ Range(h) \subseteq Record /\ Range(s) \subseteq Record /\ Range(q) \subseteq Record
         /\ Len(h) \in Nat /\ Len(q) \in Nat
         /\ DOMAIN h = 1 .. Len(h) /\ DOMAIN q = 1 .. Len(q)
         /\ \A i \in 1 .. Len(h) : h[i] \in Range(h)
         /\ \A i \in 1 .. Len(q) : q[i] \in Range(q)
         /\ head = "NULL" <=> h = <<>>
         /\ spares = "NULL" <=> s = <<>>
         /\ queue = "NULL" <=> q = <<>>
         /\ head # "NULL" => head \in Range(h)
         /\ spares # "NULL" => spares \in Range(s)
         /\ queue # "NULL" => queue \in Range(q) /\ queue = q[1] /\ Len(q) > 0
         /\ h # <<>> => Len(h) \in 1 .. Len(h) /\ tail = h[Len(h)]
<1>1. IsChain(next, head, h) /\ IsChain(next, spares, s) /\ IsChain(next, queue, q)
  BY DEF ListsOK
<1>2. /\ Range(h) \subseteq Record /\ Len(h) \in Nat /\ DOMAIN h = 1 .. Len(h)
      /\ head = "NULL" <=> h = <<>>
      /\ head # "NULL" => head \in Range(h) /\ Len(h) > 0
  BY <1>1, ChainStart
<1>3. /\ Range(s) \subseteq Record
      /\ spares = "NULL" <=> s = <<>>
      /\ spares # "NULL" => spares \in Range(s)
  BY <1>1, ChainStart
<1>4. /\ Range(q) \subseteq Record /\ Len(q) \in Nat /\ DOMAIN q = 1 .. Len(q)
      /\ queue = "NULL" <=> q = <<>>
      /\ queue # "NULL" => queue \in Range(q) /\ queue = q[1] /\ Len(q) > 0
  BY <1>1, ChainStart
<1>5. /\ \A i \in 1 .. Len(h) : h[i] \in Range(h)
      /\ \A i \in 1 .. Len(q) : q[i] \in Range(q)
  BY <1>2, <1>4 DEF Range
<1>6. h # <<>> => Len(h) \in 1 .. Len(h) /\ tail = h[Len(h)]
  BY <1>2 DEF ListsOK
<1> QED BY <1>2, <1>3, <1>4, <1>5, <1>6

\* Most steps do not touch the lists.
LEMMA QueueKept ==
  ASSUME TypesOK, PlaceOK, MaskOK, QueueOK,
         UNCHANGED <<lists, queue, psig, sent, called, without, skipped>>,
         Begun' = Begun, marred' = {} => marred = {}
  PROVE  QueueOK'
<1> SUFFICES ASSUME marred' = {} PROVE \E h, s, q : ListsOK(h, s, q)' /\ SignalsOK(h, q)'
  BY DEF QueueOK
<1>1. PICK h, s, q : ListsOK(h, s, q) /\ SignalsOK(h, q) BY DEF QueueOK
<1>2. /\ next' = next /\ signo' = signo /\ head' = head /\ tail' = tail /\ spares' = spares
      /\ fresh' = fresh /\ queue' = queue /\ psig' = psig /\ sent' = sent /\ called' = called
      /\ without' = without /\ skipped' = skipped
  BY DEF lists
<1>3. ListsOK(h, s, q)' BY <1>1, <1>2 DEF ListsOK
<1>4. SignalsOK(h, q)' BY <1>1, <1>2 DEF SignalsOK, Increasing
<1> QED BY <1>3, <1>4

LEMMA NoSpareQueue ==
  ASSUME TypesOK, PlaceOK, MaskOK, QueueOK, pcntl_signal_handler, spares = "NULL"
  PROVE  QueueOK'
<1> SUFFICES ASSUME marred' = {} PROVE \E h, s, q : ListsOK(h, s, q)' /\ SignalsOK(h, q)'
  BY DEF QueueOK
<1>1. /\ sent' = sent + 1 /\ without' = without \cup {sent + 1} /\ called' = called /\ skipped' = skipped
      /\ UNCHANGED <<lists, local, at, marred>>
  BY DEF pcntl_signal_handler
<1>2. PICK h, s, q : ListsOK(h, s, q) /\ SignalsOK(h, q) BY <1>1 DEF QueueOK
<1>3. ListsOK(h, s, q)' BY <1>1, <1>2 DEF ListsOK, lists, local
<1>4. sent \in Nat /\ 1 .. sent' = (1 .. sent) \cup {sent + 1} BY <1>1 DEF TypesOK
<1>5. signo' = signo /\ queue' = queue /\ Begun' = Begun BY <1>1 DEF lists, local, Begun
<1>6. SignalsOK(h, q)' BY <1>1, <1>2, <1>4, <1>5 DEF SignalsOK, Increasing
<1> QED BY <1>3, <1>6

\* A signal takes a spare record to the end of the queue.
LEMMA EnqueueQueue ==
  ASSUME TypesOK, PlaceOK, MaskOK, QueueOK, pcntl_signal_handler, spares # "NULL"
  PROVE  QueueOK'
<1> SUFFICES ASSUME marred' = {} PROVE \E h, s, q : ListsOK(h, s, q)' /\ SignalsOK(h, q)'
  BY DEF QueueOK
<1>0. PICK r : r = spares OBVIOUS
<1>1. /\ ~masked /\ sent' = sent + 1 /\ spares' = next[r] /\ signo' = [signo EXCEPT ![r] = sent + 1]
      /\ EnqueueRecord(r) /\ at \notin {"store", "give_back_store"} /\ marred = {}
      /\ UNCHANGED <<fresh, without, local, at, called, skipped>>
  BY <1>0 DEF pcntl_signal_handler
<1>2. PICK h, s, q : ListsOK(h, s, q) /\ SignalsOK(h, q) BY <1>1 DEF QueueOK
<1>3. /\ IsChain(next, head, h) /\ IsChain(next, spares, s) /\ IsChain(next, queue, q)
      /\ Range(h) \cap Range(s) = {} /\ Range(h) \cap Range(q) = {} /\ Range(s) \cap Range(q) = {}
      /\ Range(h) \cup Range(s) \cup Range(q) \cup ({psig} \ {"NULL"}) = Record \ fresh
  BY <1>2 DEF ListsOK
<1>4. /\ Range(h) \subseteq Record /\ Range(s) \subseteq Record
      /\ Len(h) \in Nat /\ \A i \in 1 .. Len(h) : h[i] \in Range(h)
      /\ head = "NULL" <=> h = <<>>
      /\ queue = "NULL" <=> q = <<>>
      /\ h # <<>> => Len(h) \in 1 .. Len(h) /\ tail = h[Len(h)]
      /\ r \in Range(s) /\ r \in Record
  BY <1>0, <1>2, ListsKnown
<1>5. psig = "NULL" /\ queue = "NULL" /\ ~Begun BY <1>1 DEF PlaceOK, MaskOK, InDispatcher, Begun
<1>6. q = <<>> /\ Range(q) = {} BY <1>4, <1>5, ChainNone
<1>7. r \notin Range(h) /\ next' \in [Record -> Pointer]
      /\ \A x \in Record : next'[x] = IF head # "NULL" /\ tail # "NULL" /\ x = tail THEN r
                                      ELSE IF x = r THEN "NULL" ELSE next[x]
  BY <1>1, <1>3, <1>4, PcntlBounds DEF EnqueueRecord, TypesOK, Pointer
<1>8. h # <<>> => tail \in Range(h) /\ tail # "NULL" /\ head # "NULL" /\ tail # r
  BY <1>4, <1>7, PcntlBounds
<1>9. head' = (IF head = "NULL" THEN r ELSE head) /\ tail' = r
  BY <1>1, <1>4, <1>8 DEF EnqueueRecord
<1>10. /\ next'[r] = "NULL" /\ (h # <<>> => next'[h[Len(h)]] = r)
       /\ \A x \in Range(h) : x # h[Len(h)] => next'[x] = next[x]
  BY <1>4, <1>7, <1>8
<1> DEFINE h2 == Append(h, r)
           s2 == Tail(s)
<1>11. /\ IsChain(next', head', h2) /\ Range(h2) = Range(h) \cup {r}
       /\ Len(h2) = Len(h) + 1 /\ h2[Len(h) + 1] = r /\ \A i \in 1 .. Len(h) : h2[i] = h[i]
  <2>1. r \in Record \ Range(h) BY <1>4, <1>7
  <2> HIDE DEF h2
  <2>0. IsChain(next, head, h) BY <1>3
  <2>2. LinksBehind(next, next', h, r) BY <1>10 DEF LinksBehind
  <2>3. IsChain(next', head', Append(h, r))
        /\ Range(Append(h, r)) = Range(h) \cup {r}
        /\ Len(Append(h, r)) = Len(h) + 1 /\ Append(h, r)[Len(h) + 1] = r
        /\ \A i \in 1 .. Len(h) : Append(h, r)[i] = h[i]
    BY <1>9, <2>0, <2>1, <2>2, ChainAppend
  <2> QED BY <2>3 DEF h2
<1>12. IsChain(next', spares', s2) /\ Range(s2) = Range(s) \ {r}
  <2>1. IsChain(next, next[r], s2) /\ Range(s2) = Range(s) \ {r} BY <1>0, <1>3, ChainTail
  <2>2. ASSUME NEW x \in Range(s2) PROVE next'[x] = next[x]
    <3>1. x \in Range(s) /\ x # r /\ x \in Record /\ x \notin Range(h) BY <2>1, <1>3, <1>4
    <3>2. head # "NULL" => x # tail BY <3>1, <1>4, <1>8
    <3> QED BY <1>7, <3>1, <3>2
  <2> HIDE DEF s2
  <2>3. IsChain(next', next[r], s2) BY <2>1, <2>2, ChainKept
  <2> QED BY <1>1, <2>1, <2>3
<1>13. queue' = "NULL" /\ psig' = "NULL" /\ fresh' = fresh /\ ~Begun' /\ called' = called
       /\ without' = without /\ skipped' = skipped
  BY <1>1, <1>5 DEF local, Begun
<1> HIDE DEF h2, s2
<1>14. ListsOK(h2, s2, <<>>)'
  <2>1. IsChain(next', queue', <<>>) /\ Range(<<>>) = {} BY <1>13, ChainNone
  <2>2. Range(h2) \cap Range(s2) = {} BY <1>3, <1>7, <1>11, <1>12
  <2>3. Range(h2) \cup Range(s2) = Record \ fresh BY <1>3, <1>4, <1>5, <1>6, <1>11, <1>12
  <2>4. h2 # <<>> /\ tail' = h2[Len(h2)]
    <3>1. Len(h2) # 0 BY <1>4, <1>11
    <3> QED BY <3>1, <1>9, <1>11
  <2> QED BY <1>11, <1>12, <1>13, <2>1, <2>2, <2>3, <2>4 DEF ListsOK
<1>15. SignalsOK(h2, <<>>)'
  <2>1. sent \in Nat /\ 1 .. sent' = (1 .. sent) \cup {sent + 1} BY <1>1 DEF TypesOK
  <2>2. /\ signo'[r] = sent + 1 /\ \A x \in Range(h) : signo'[x] = signo[x]
    BY <1>1, <1>4, <1>7 DEF TypesOK
  <2>3. 1 .. sent = Range(called) \cup without \cup skipped \cup {signo[x] : x \in Range(h)}
    BY <1>2, <1>6 DEF SignalsOK
  <2>4. {signo'[x] : x \in Range(h2) \cup Range(<<>>)} = {signo[x] : x \in Range(h)} \cup {sent + 1}
    BY <1>11, <2>2, ChainNone
  <2>5. 1 .. sent' = Range(called') \cup without' \cup skipped'
                       \cup {signo'[x] : x \in Range(h2) \cup Range(<<>>)}
    BY <1>13, <2>1, <2>3, <2>4
  <2>6. \A x \in Range(h) : signo[x] \in 1 .. sent BY <2>3
  <2>7. Increasing(h2)'
    <3> SUFFICES ASSUME NEW i \in 1 .. Len(h) + 1, NEW j \in 1 .. Len(h) + 1, i < j
                 PROVE  signo'[h2[i]] < signo'[h2[j]]
      BY <1>11 DEF Increasing
    <3>1. i \in 1 .. Len(h) /\ h2[i] = h[i] /\ h[i] \in Range(h) BY <1>4, <1>11
    <3>2. CASE j = Len(h) + 1
      <4>1. h2[j] = r BY <1>11, <3>2
      <4>2. signo'[h2[i]] \in 1 .. sent BY <2>2, <2>6, <3>1
      <4> QED BY <2>1, <2>2, <4>1, <4>2
    <3>3. CASE j # Len(h) + 1
      <4>1. j \in 1 .. Len(h) /\ h2[j] = h[j] /\ h[j] \in Range(h) BY <1>4, <1>11, <3>3
      <4>2. signo[h[i]] < signo[h[j]] BY <1>2, <3>1, <4>1 DEF SignalsOK, Increasing
      <4> QED BY <2>2, <3>1, <4>1, <4>2
    <3> QED BY <3>2, <3>3
  <2>8. ASSUME NEW i \in 1 .. Len(called'), NEW x \in Range(h2) PROVE called'[i] < signo'[x]
    <3>1. i \in 1 .. Len(called) BY <1>13
    <3>2. called[i] \in Range(called) BY <3>1 DEF Range, TypesOK
    <3>3. called[i] \in 1 .. sent BY <2>3, <3>2
    <3>4. CASE x = r BY <1>13, <2>1, <2>2, <3>3, <3>4
    <3>5. CASE x \in Range(h)
      <4>1. called[i] < signo[x] BY <1>2, <3>1, <3>5 DEF SignalsOK
      <4> QED BY <1>13, <2>2, <3>5, <4>1
    <3> QED BY <1>11, <3>4, <3>5
  <2>9. Increasing(<<>>)' BY DEF Increasing
  <2> QED BY <1>13, <2>5, <2>7, <2>8, <2>9 DEF SignalsOK
<1> QED BY <1>14, <1>15

LEMMA AllocLinkQueue ==
  ASSUME TypesOK, PlaceOK, MaskOK, QueueOK, AllocLink
  PROVE  QueueOK'
<1> SUFFICES ASSUME marred' = {} PROVE \E h, s, q : ListsOK(h, s, q)' /\ SignalsOK(h, q)'
  BY DEF QueueOK
<1> DEFINE r == CHOOSE x \in fresh : TRUE
<1>1. /\ at = "link" /\ psig' = r /\ fresh' = fresh \ {r} /\ next' = [next EXCEPT ![r] = spares]
      /\ at' = "store" /\ marred = {}
      /\ UNCHANGED <<signo, head, tail, spares, queue, from, record>>
  BY DEF AllocLink, record
<1>2. r \in fresh /\ r \in Record /\ r # "NULL" BY <1>1, FreshTaken
<1> HIDE DEF r
<1>3. PICK h, s, q : ListsOK(h, s, q) /\ SignalsOK(h, q) BY <1>1 DEF QueueOK
<1>4. psig = "NULL" BY <1>1 DEF PlaceOK
<1>5. r \notin Range(h) \cup Range(s) \cup Range(q) BY <1>2, <1>3 DEF ListsOK
<1>6. \A x \in Record : x # r => next'[x] = next[x] BY <1>1 DEF TypesOK
<1>7. Range(h) \subseteq Record /\ Range(s) \subseteq Record /\ Range(q) \subseteq Record
  BY <1>3, ListsKnown
<1>8. IsChain(next', head', h) /\ IsChain(next', spares', s) /\ IsChain(next', queue', q)
  <2>1. \A x \in Range(h) \cup Range(s) \cup Range(q) : next'[x] = next[x] BY <1>5, <1>6, <1>7
  <2>2. IsChain(next, head, h) /\ IsChain(next, spares, s) /\ IsChain(next, queue, q)
    BY <1>3 DEF ListsOK
  <2>3. IsChain(next', head, h) /\ IsChain(next', spares, s) /\ IsChain(next', queue, q)
    BY <2>1, <2>2, ChainKept
  <2> QED BY <1>1, <2>3
<1>9. next'[psig'] = spares' BY <1>1, <1>2 DEF TypesOK
<1>10. Range(h) \cup Range(s) \cup Range(q) \cup ({psig'} \ {"NULL"}) = Record \ fresh'
  <2>1. Range(h) \cup Range(s) \cup Range(q) = Record \ fresh BY <1>3, <1>4 DEF ListsOK
  <2> QED BY <1>1, <1>2, <2>1
<1>11. ListsOK(h, s, q)' BY <1>1, <1>2, <1>3, <1>5, <1>8, <1>9, <1>10 DEF ListsOK
<1>12. Begun' = Begun BY <1>1 DEF Begun
<1>13. SignalsOK(h, q)' BY <1>1, <1>3, <1>12 DEF SignalsOK, Increasing, record
<1> QED BY <1>11, <1>13

LEMMA AllocStoreQueue ==
  ASSUME TypesOK, PlaceOK, MaskOK, QueueOK, AllocStore
  PROVE  QueueOK'
<1> SUFFICES ASSUME marred' = {} PROVE \E h, s, q : ListsOK(h, s, q)' /\ SignalsOK(h, q)'
  BY DEF QueueOK
<1>0. PICK r : r = psig OBVIOUS
<1>1. /\ at = "store" /\ spares' = r /\ psig' = "NULL" /\ at' \in {"install", "link"}
      /\ marred = {} /\ UNCHANGED <<next, signo, head, tail, fresh, queue, from, record>>
  BY <1>0 DEF AllocStore, record
<1>2. PICK h, s, q : ListsOK(h, s, q) /\ SignalsOK(h, q) BY <1>1 DEF QueueOK
<1>3. psig # "NULL" /\ r \in Record BY <1>0, <1>1 DEF PlaceOK, TypesOK, Pointer
<1>4. /\ IsChain(next, spares, s) /\ r \notin Range(h) \cup Range(s) \cup Range(q)
      /\ next[r] = spares
  BY <1>0, <1>2, <1>3 DEF ListsOK
<1> DEFINE s2 == <<r>> \o s
<1>5. IsChain(next, r, s2) /\ Range(s2) = Range(s) \cup {r} BY <1>3, <1>4, ChainCons
<1> HIDE DEF s2
<1>6. ListsOK(h, s2, q)' BY <1>0, <1>1, <1>2, <1>3, <1>4, <1>5 DEF ListsOK
<1>7. Begun' = Begun BY <1>1 DEF Begun
<1>8. SignalsOK(h, q)' BY <1>1, <1>2, <1>7 DEF SignalsOK, Increasing, record
<1> QED BY <1>6, <1>8

LEMMA DispatchQueue ==
  ASSUME TypesOK, PlaceOK, MaskOK, QueueOK, Dispatch
  PROVE  QueueOK'
<1> SUFFICES ASSUME marred' = {} PROVE \E h, s, q : ListsOK(h, s, q)' /\ SignalsOK(h, q)'
  BY DEF QueueOK
<1>1. /\ at \in {"run", "interrupt"} /\ ~processing_signal_queue /\ at' = "play"
      /\ queue' = head /\ head' = "NULL" /\ tail' = "NULL" /\ marred = {}
      /\ UNCHANGED <<next, signo, spares, fresh, psig, from, record>>
  BY DEF Dispatch, CanDispatch, record
<1>2. PICK h, s, q : ListsOK(h, s, q) /\ SignalsOK(h, q) BY <1>1 DEF QueueOK
<1>3. queue = "NULL" /\ from # "handler" BY <1>1 DEF PlaceOK, InDispatcher
<1>4. q = <<>> /\ Range(q) = {} BY <1>2, <1>3, ListsKnown, ChainNone
<1>5. IsChain(next', head', <<>>) /\ Range(<<>>) = {} BY <1>1, ChainNone
<1>6. ListsOK(<<>>, s, h)' BY <1>1, <1>2, <1>4, <1>5 DEF ListsOK
<1>7. ~Begun' BY <1>1, <1>3 DEF Begun
<1>8. SignalsOK(<<>>, h)'
  <2>1. \A j \in 1 .. Len(h) : h[j] \in Range(h) BY <1>2, ListsKnown
  <2>2. Increasing(<<>>)' /\ Increasing(h)' BY <1>1, <1>2 DEF SignalsOK, Increasing
  <2>3. called' = called /\ signo' = signo /\ sent' = sent /\ without' = without /\ skipped' = skipped
    BY <1>1 DEF record
  <2>4. \A i \in 1 .. Len(called) : \A r \in Range(h) : called[i] < signo[r] BY <1>2 DEF SignalsOK
  <2>5. 1 .. sent = Range(called) \cup without \cup skipped \cup {signo[r] : r \in Range(h) \cup {}}
    BY <1>2, <1>4 DEF SignalsOK
  <2> QED BY <1>5, <1>7, <2>1, <2>2, <2>3, <2>4, <2>5 DEF SignalsOK
<1> QED BY <1>6, <1>8

\* What waits in the dispatcher's queue comes after what was called.
LEMMA PlayCalls ==
  ASSUME TypesOK, PlaceOK, MaskOK, QueueOK, CalledInOrder, Play, marred = {}
  PROVE  QueueOK' /\ CalledInOrder'
<1>1. /\ at = "play" /\ queue # "NULL" /\ at' \in {"handler", "give_back"} /\ marred' = {}
      /\ UNCHANGED <<next, signo, head, tail, spares, fresh, queue, psig, from, sent, without>>
      /\ \/ called' = Append(called, signo[queue]) /\ skipped' = skipped
         \/ called' = called /\ skipped' = skipped \cup {signo[queue]}
  BY DEF Play, lists, local
<1>2. PICK h, s, q : ListsOK(h, s, q) /\ SignalsOK(h, q) BY <1>1 DEF QueueOK
<1>3. /\ queue = q[1] /\ queue \in Range(q) /\ Range(q) \subseteq Record /\ Len(q) \in Nat /\ Len(q) > 0
      /\ \A i \in 1 .. Len(q) : q[i] \in Range(q)
  BY <1>1, <1>2, ListsKnown
<1>4. head = "NULL" /\ ~Begun BY <1>1 DEF PlaceOK, MaskOK, InDispatcher, Begun
<1>5. h = <<>> /\ Range(h) = {} BY <1>2, <1>4, ListsKnown, ChainNone
<1>6. ListsOK(h, s, q)' BY <1>1, <1>2 DEF ListsOK
<1> DEFINE x == signo[queue]
<1>7. PICK y : y = x OBVIOUS
<1>8. y \in Nat /\ called \in Seq(Nat) /\ (\A r \in Record : signo[r] \in Nat) /\ signo' = signo
  BY <1>1, <1>3, <1>7 DEF TypesOK
<1>9. Begun' BY <1>1 DEF Begun
<1>10. ASSUME NEW i \in 1 .. Len(called), NEW j \in 1 .. Len(q)
       PROVE  called[i] < signo[q[j]]
  BY <1>2, <1>4 DEF SignalsOK
<1>11. 1 \in 1 .. Len(q) BY <1>3
<1>12. CASE called' = Append(called, x) /\ skipped' = skipped
  <2>1. called' = Append(called, y) BY <1>7, <1>12
  <2>2. /\ called' \in Seq(Nat) /\ Len(called') = Len(called) + 1
        /\ Len(called) \in Nat /\ DOMAIN called = 1 .. Len(called)
        /\ called'[Len(called) + 1] = y
        /\ \A i \in 1 .. Len(called) : called'[i] = called[i] /\ called[i] \in Nat
        /\ Range(called') = Range(called) \cup {y}
    BY <1>8, <2>1, AppendCalled
  <2>3. \A i \in 1 .. Len(called) + 1 : i # Len(called) + 1 => i \in 1 .. Len(called) BY <2>2
  <2>4. DOMAIN called' = 1 .. Len(called) + 1 BY <2>2
  <2>5. \A i \in 1 .. Len(called) : called[i] < y BY <1>3, <1>7, <1>10, <1>11
  <2>6. \A i, j \in DOMAIN called : i < j => called[i] < called[j]
    BY <1>1 DEF CalledInOrder
  <2>7. CalledInOrder'
    <3> SUFFICES ASSUME NEW i \in 1 .. Len(called) + 1, NEW j \in 1 .. Len(called) + 1, i < j
                 PROVE  called'[i] < called'[j]
      BY <2>4 DEF CalledInOrder
    <3>1. i \in 1 .. Len(called) BY <2>2
    <3>2. CASE j = Len(called) + 1 BY <2>2, <2>5, <3>1, <3>2
    <3>3. CASE j # Len(called) + 1
      <4>1. j \in 1 .. Len(called) BY <2>3, <3>3
      <4> QED BY <2>2, <2>6, <3>1, <4>1
    <3> QED BY <3>2, <3>3
  <2>8. ASSUME NEW j \in 1 .. Len(q), j > 1 PROVE y < signo[q[j]]
    BY <1>2, <1>3, <1>7, <1>11, <2>8 DEF SignalsOK, Increasing
  <2>9. ASSUME NEW i \in 1 .. Len(called'), NEW j \in 1 .. Len(q), j > 1
        PROVE  called'[i] < signo'[q[j]]
    <3>1. CASE i = Len(called) + 1 BY <1>8, <2>2, <2>8, <2>9, <3>1
    <3>2. CASE i # Len(called) + 1
      <4>1. i \in 1 .. Len(called) BY <2>2, <2>3, <3>2
      <4> QED BY <1>8, <1>10, <2>2, <4>1
    <3> QED BY <3>1, <3>2
  <2>10. 1 .. sent' = Range(called') \cup without' \cup skipped'
                       \cup {signo'[r] : r \in Range(h) \cup Range(q)}
    <3>1. 1 .. sent = Range(called) \cup without \cup skipped
                       \cup {signo[r] : r \in Range(h) \cup Range(q)}
      BY <1>2 DEF SignalsOK
    <3>2. y \in {signo[r] : r \in Range(h) \cup Range(q)} BY <1>3, <1>7
    <3> QED BY <1>1, <1>12, <2>2, <3>1, <3>2
  <2>11. signo'[queue'] \in Range(called') BY <1>1, <1>7, <2>2
  <2>12. Increasing(h)' /\ Increasing(q)' BY <1>2, <1>8 DEF SignalsOK, Increasing
  <2>13. SignalsOK(h, q)' BY <1>5, <1>9, <2>9, <2>10, <2>11, <2>12 DEF SignalsOK
  <2> QED BY <1>6, <2>7, <2>13 DEF QueueOK
<1>13. CASE called' = called /\ skipped' = skipped \cup {x}
  <2>1. CalledInOrder' BY <1>1, <1>13 DEF CalledInOrder
  <2>2. 1 .. sent' = Range(called') \cup without' \cup skipped'
                       \cup {signo'[r] : r \in Range(h) \cup Range(q)}
    <3>1. 1 .. sent = Range(called) \cup without \cup skipped
                       \cup {signo[r] : r \in Range(h) \cup Range(q)}
      BY <1>2 DEF SignalsOK
    <3>2. y \in {signo[r] : r \in Range(h) \cup Range(q)} BY <1>3, <1>7
    <3>3. skipped' = skipped \cup {y} BY <1>7, <1>13
    <3> QED BY <1>1, <1>13, <3>1, <3>2, <3>3
  <2>3. signo'[queue'] \in skipped' BY <1>1, <1>13
  <2>4. Increasing(h)' /\ Increasing(q)' BY <1>2, <1>8 DEF SignalsOK, Increasing
  <2>5. SignalsOK(h, q)' BY <1>5, <1>8, <1>9, <1>10, <1>13, <2>2, <2>3, <2>4 DEF SignalsOK
  <2> QED BY <1>6, <2>1, <2>5 DEF QueueOK
<1> QED BY <1>1, <1>12, <1>13

LEMMA GiveBackLinkQueue ==
  ASSUME TypesOK, PlaceOK, MaskOK, QueueOK, GiveBackLink
  PROVE  QueueOK'
<1> SUFFICES ASSUME marred' = {} PROVE \E h, s, q : ListsOK(h, s, q)' /\ SignalsOK(h, q)'
  BY DEF QueueOK
<1>0. PICK r : r = queue OBVIOUS
<1>1. /\ at = "give_back" /\ at' = "give_back_store" /\ marred = {}
      /\ next' = [next EXCEPT ![r] = spares] /\ psig' = r /\ queue' = next[r]
      /\ UNCHANGED <<signo, head, tail, spares, fresh, from, record>>
  BY <1>0 DEF GiveBackLink, record
<1>2. PICK h, s, q : ListsOK(h, s, q) /\ SignalsOK(h, q) BY <1>1 DEF QueueOK
<1>3. /\ psig = "NULL" /\ r # "NULL" /\ Begun /\ from # "handler"
  BY <1>0, <1>1 DEF PlaceOK, Begun
<1>4. /\ Range(h) \subseteq Record /\ Range(s) \subseteq Record /\ Range(q) \subseteq Record
      /\ r \in Range(q) /\ r \in Record
  BY <1>0, <1>2, <1>3, ListsKnown
<1>5. /\ IsChain(next, head, h) /\ IsChain(next, spares, s) /\ IsChain(next, r, q)
      /\ Range(h) \cap Range(s) = {} /\ Range(h) \cap Range(q) = {} /\ Range(s) \cap Range(q) = {}
      /\ Range(h) \cup Range(s) \cup Range(q) = Record \ fresh
  BY <1>0, <1>2, <1>3 DEF ListsOK
<1> DEFINE t == Tail(q)
<1>6. /\ IsChain(next, next[r], t) /\ Range(t) = Range(q) \ {r} /\ Len(t) = Len(q) - 1
      /\ \A i \in 1 .. Len(t) : t[i] = q[i + 1] /\ i + 1 \in 1 .. Len(q)
  BY <1>3, <1>5, ChainTail
<1> HIDE DEF t
<1>7. \A x \in Record : x # r => next'[x] = next[x] BY <1>1 DEF TypesOK
<1>8. next'[r] = spares BY <1>1, <1>4 DEF TypesOK
<1>9. r \notin Range(h) \cup Range(s) \cup Range(t) BY <1>4, <1>5, <1>6
<1>10. IsChain(next', head', h) /\ IsChain(next', spares', s) /\ IsChain(next', queue', t)
  <2>1. \A x \in Range(h) \cup Range(s) \cup Range(t) : next'[x] = next[x]
    BY <1>4, <1>6, <1>7, <1>9
  <2>2. IsChain(next', head, h) /\ IsChain(next', spares, s) /\ IsChain(next', next[r], t)
    BY <1>5, <1>6, <2>1, ChainKept
  <2> QED BY <1>1, <2>2
<1>11. ListsOK(h, s, t)'
  <2>1. tail' = IF h = <<>> THEN "NULL" ELSE h[Len(h)] BY <1>1, <1>2 DEF ListsOK
  <2>2. Range(h) \cup Range(s) \cup Range(t) \cup ({psig'} \ {"NULL"}) = Record \ fresh'
    BY <1>1, <1>3, <1>4, <1>5, <1>6
  <2>3. psig' \notin Range(h) \cup Range(s) \cup Range(t) /\ next'[psig'] = spares'
    BY <1>1, <1>8, <1>9
  <2>4. Range(h) \cap Range(s) = {} /\ Range(h) \cap Range(t) = {} /\ Range(s) \cap Range(t) = {}
    BY <1>5, <1>6
  <2> QED BY <1>10, <2>1, <2>2, <2>3, <2>4 DEF ListsOK
<1>12. SignalsOK(h, t)'
  <2>1. called' = called /\ signo' = signo /\ sent' = sent /\ without' = without /\ skipped' = skipped
    BY <1>1 DEF record
  <2>2. ~Begun' BY <1>1, <1>3 DEF Begun
  <2>3. signo[r] \in Range(called) \cup skipped BY <1>0, <1>2, <1>3 DEF SignalsOK
  <2>4. 1 .. sent = Range(called) \cup without \cup skipped
                      \cup {signo[x] : x \in Range(h) \cup Range(t)}
    <3>1. 1 .. sent = Range(called) \cup without \cup skipped
                       \cup {signo[x] : x \in Range(h) \cup Range(q)}
      BY <1>2 DEF SignalsOK
    <3> QED BY <1>4, <1>6, <2>3, <3>1
  <2>5. Len(q) \in Nat BY <1>2, ListsKnown
  <2>6. Increasing(t)
    <3> SUFFICES ASSUME NEW i \in 1 .. Len(t), NEW j \in 1 .. Len(t), i < j
                 PROVE  signo[t[i]] < signo[t[j]]
      BY DEF Increasing
    <3>1. t[i] = q[i + 1] /\ t[j] = q[j + 1] /\ i + 1 \in 1 .. Len(q) /\ j + 1 \in 1 .. Len(q) /\ i + 1 < j + 1
      BY <1>6, <2>5
    <3> QED BY <1>2, <3>1 DEF SignalsOK, Increasing
  <2>7. ASSUME NEW i \in 1 .. Len(called), NEW j \in 1 .. Len(t) PROVE called[i] < signo[t[j]]
    <3>1. t[j] = q[j + 1] /\ j + 1 \in 1 .. Len(q) /\ j + 1 > 1 BY <1>6, <2>5
    <3> QED BY <1>2, <3>1 DEF SignalsOK
  <2>8. Increasing(h)' /\ Increasing(t)' BY <1>2, <2>1, <2>6 DEF SignalsOK, Increasing
  <2>9. \A i \in 1 .. Len(called) : \A x \in Range(h) : called[i] < signo[x] BY <1>2 DEF SignalsOK
  <2> QED BY <2>1, <2>2, <2>4, <2>7, <2>8, <2>9 DEF SignalsOK
<1> QED BY <1>11, <1>12

LEMMA GiveBackStoreQueue ==
  ASSUME TypesOK, PlaceOK, MaskOK, QueueOK, GiveBackStore
  PROVE  QueueOK'
<1> SUFFICES ASSUME marred' = {} PROVE \E h, s, q : ListsOK(h, s, q)' /\ SignalsOK(h, q)'
  BY DEF QueueOK
<1>0. PICK r : r = psig OBVIOUS
<1>1. /\ at = "give_back_store" /\ at' = "play" /\ marred = {}
      /\ spares' = r /\ psig' = "NULL" /\ signo' = [signo EXCEPT ![r] = 0]
      /\ UNCHANGED <<next, head, tail, fresh, queue, from, record>>
  BY <1>0 DEF GiveBackStore, record
<1>2. PICK h, s, q : ListsOK(h, s, q) /\ SignalsOK(h, q) BY <1>1 DEF QueueOK
<1>3. psig # "NULL" /\ r \in Record /\ from # "handler" BY <1>0, <1>1 DEF PlaceOK, TypesOK, Pointer
<1>4. /\ IsChain(next, spares, s) /\ r \notin Range(h) \cup Range(s) \cup Range(q)
      /\ next[r] = spares
  BY <1>0, <1>2, <1>3 DEF ListsOK
<1> DEFINE s2 == <<r>> \o s
<1>5. IsChain(next, r, s2) /\ Range(s2) = Range(s) \cup {r} BY <1>3, <1>4, ChainCons
<1> HIDE DEF s2
<1>6. ListsOK(h, s2, q)' BY <1>0, <1>1, <1>2, <1>3, <1>4, <1>5 DEF ListsOK
<1>7. ~Begun /\ ~Begun' BY <1>1, <1>3 DEF Begun
<1>8. /\ Range(h) \subseteq Record /\ Range(q) \subseteq Record
      /\ \A i \in 1 .. Len(h) : h[i] \in Range(h)
      /\ \A i \in 1 .. Len(q) : q[i] \in Range(q)
  BY <1>2, ListsKnown
<1>9. \A x \in Range(h) \cup Range(q) : signo'[x] = signo[x] BY <1>1, <1>4, <1>8 DEF TypesOK
<1>10. SignalsOK(h, q)'
  <2>1. called' = called /\ sent' = sent /\ without' = without /\ skipped' = skipped
    BY <1>1 DEF record
  <2>2. 1 .. sent' = Range(called') \cup without' \cup skipped'
                       \cup {signo'[x] : x \in Range(h) \cup Range(q)}
    <3>1. {signo'[x] : x \in Range(h) \cup Range(q)} = {signo[x] : x \in Range(h) \cup Range(q)}
      BY <1>9
    <3> QED BY <1>2, <2>1, <3>1 DEF SignalsOK
  <2>3. Increasing(h)' /\ Increasing(q)' BY <1>2, <1>8, <1>9 DEF SignalsOK, Increasing
  <2>4. \A i \in 1 .. Len(called') : \A x \in Range(h) : called'[i] < signo'[x]
    BY <1>2, <1>9, <2>1 DEF SignalsOK
  <2>5. \A i \in 1 .. Len(called') : \A j \in 1 .. Len(q) : called'[i] < signo'[q[j]]
    BY <1>2, <1>7, <1>8, <1>9, <2>1 DEF SignalsOK
  <2> QED BY <1>7, <2>2, <2>3, <2>4, <2>5 DEF SignalsOK
<1> QED BY <1>6, <1>10

LEMMA PutBackQueue ==
  ASSUME TypesOK, PlaceOK, MaskOK, QueueOK, PutBack
  PROVE  QueueOK'
<1> SUFFICES ASSUME marred' = {} PROVE \E h, s, q : ListsOK(h, s, q)' /\ SignalsOK(h, q)'
  BY DEF QueueOK
<1>1. /\ at = "play" /\ queue # "NULL" /\ at' = "run" /\ marred = {}
      /\ head' = queue /\ tail' = Last(List(queue)) /\ queue' = "NULL"
      /\ UNCHANGED <<next, signo, spares, fresh, psig, from, sent, called, without, skipped>>
  BY DEF PutBack, Leave, Stopped
<1>2. PICK h, s, q : ListsOK(h, s, q) /\ SignalsOK(h, q) BY <1>1 DEF QueueOK
<1>3. head = "NULL" /\ from # "handler" BY <1>1 DEF PlaceOK, MaskOK, InDispatcher
<1>4. h = <<>> /\ Range(h) = {} BY <1>2, <1>3, ListsKnown, ChainNone
<1>5. IsChain(next, queue, q) BY <1>2 DEF ListsOK
<1>6. tail' = q[Len(q)] /\ q # <<>> BY <1>1, <1>2, <1>5, ListOfChain, ListsKnown DEF Last
<1>7. IsChain(next', queue', <<>>) /\ Range(<<>>) = {} BY <1>1, ChainNone
<1>8. ListsOK(q, s, <<>>)' BY <1>1, <1>2, <1>4, <1>5, <1>6, <1>7 DEF ListsOK
<1>9. ~Begun /\ ~Begun' BY <1>1, <1>3 DEF Begun
<1>10. SignalsOK(q, <<>>)'
  <2>1. 1 .. sent' = Range(called') \cup without' \cup skipped'
                       \cup {signo'[x] : x \in Range(q) \cup Range(<<>>)}
    BY <1>1, <1>2, <1>4, <1>7 DEF SignalsOK
  <2>2. Increasing(q)' /\ Increasing(<<>>)' BY <1>1, <1>2 DEF SignalsOK, Increasing
  <2>3. ASSUME NEW i \in 1 .. Len(called'), NEW x \in Range(q) PROVE called'[i] < signo'[x]
    <3>1. DOMAIN q = 1 .. Len(q) BY <1>2, ListsKnown
    <3>2. PICK j \in 1 .. Len(q) : x = q[j] BY <2>3, <3>1 DEF Range
    <3>3. i \in 1 .. Len(called) /\ called' = called /\ signo' = signo BY <1>1
    <3>4. called[i] < signo[q[j]] BY <1>2, <1>9, <3>3 DEF SignalsOK
    <3> QED BY <3>2, <3>3, <3>4
  <2> QED BY <1>9, <2>1, <2>2, <2>3 DEF SignalsOK
<1> QED BY <1>8, <1>10

LEMMA NextRequestQueue ==
  ASSUME TypesOK, PlaceOK, MaskOK, QueueOK, NextRequest
  PROVE  QueueOK'
<1> SUFFICES ASSUME marred' = {} PROVE \E h, s, q : ListsOK(h, s, q)' /\ SignalsOK(h, q)'
  BY DEF QueueOK
<1>1. /\ at = "run" /\ at' = at /\ marred = {}
      /\ skipped' = skipped \cup {signo[r] : r \in Range(List(head))}
      /\ head' = "NULL" /\ tail' = "NULL" /\ spares' = "NULL" /\ fresh' = Record
      /\ UNCHANGED <<queue, psig, from, sent, called, without>>
  BY DEF NextRequest, local
<1>2. PICK h, s, q : ListsOK(h, s, q) /\ SignalsOK(h, q) BY <1>1 DEF QueueOK
<1>3. queue = "NULL" /\ psig = "NULL" /\ from # "handler" BY <1>1 DEF PlaceOK, InDispatcher
<1>4. q = <<>> /\ Range(q) = {} BY <1>2, <1>3, ListsKnown, ChainNone
<1>5. List(head) = h BY <1>2, ListOfChain DEF ListsOK
<1>6. IsChain(next', "NULL", <<>>) /\ Range(<<>>) = {} BY ChainNone
<1>7. ListsOK(<<>>, <<>>, <<>>)' BY <1>1, <1>3, <1>6 DEF ListsOK
<1>8. ~Begun' BY <1>1, <1>3 DEF Begun
<1>9. SignalsOK(<<>>, <<>>)'
  <2>1. 1 .. sent = Range(called) \cup without \cup skipped \cup {signo[r] : r \in Range(h)}
    BY <1>2, <1>4 DEF SignalsOK
  <2>2. 1 .. sent' = Range(called') \cup without' \cup skipped'
                       \cup {signo'[x] : x \in Range(<<>>) \cup Range(<<>>)}
    BY <1>1, <1>5, <1>6, <2>1
  <2>3. Increasing(<<>>)' BY DEF Increasing
  <2> QED BY <1>6, <1>8, <2>2, <2>3 DEF SignalsOK
<1> QED BY <1>7, <1>9

-----------------------------------------------------------------------------
(* The step and the theorems.                                              *)

LEMMA QueuesKept == PcntlInv /\ [PcntlNext]_pcntlVars => QueueOK'
<1> SUFFICES ASSUME PcntlInv, [PcntlNext]_pcntlVars PROVE QueueOK' OBVIOUS
<1>0. TypesOK /\ PlaceOK /\ MaskOK /\ QueueOK /\ CalledInOrder BY DEF PcntlInv
<1> DEFINE Quiet == /\ UNCHANGED <<lists, queue, psig, sent, called, without, skipped>>
                    /\ Begun' = Begun /\ (marred' = {} => marred = {})
<1>a. ASSUME Quiet PROVE QueueOK' BY <1>0, <1>a, QueueKept
<1>b. ASSUME marred' # {} PROVE QueueOK' BY <1>b DEF QueueOK
<1> USE DEF local, record, Begun
<1>1. CASE CallSignal
  <2>1. Quiet BY <1>0, <1>1 DEF CallSignal, PlaceOK
  <2> QED BY <2>1, <1>a
<1>2. CASE AllocLink BY <1>0, <1>2, AllocLinkQueue
<1>3. CASE AllocStore BY <1>0, <1>3, AllocStoreQueue
<1>4. CASE Install
  <2>1. Quiet BY <1>0, <1>4 DEF Install, TypesOK
  <2> QED BY <2>1, <1>a
<1>5. CASE Async
  <2>1. Quiet BY <1>5 DEF Async
  <2> QED BY <2>1, <1>a
<1>6. CASE Sigprocmask
  <2>1. Quiet BY <1>6 DEF Sigprocmask
  <2> QED BY <2>1, <1>a
<1>7. CASE NextRequest BY <1>0, <1>7, NextRequestQueue
<1>8. CASE Interrupt
  <2>1. Quiet BY <1>8 DEF Interrupt
  <2> QED BY <2>1, <1>a
<1>9. CASE InterruptInHandler
  <2>1. Quiet BY <1>9 DEF InterruptInHandler
  <2> QED BY <2>1, <1>a
<1>10. CASE Dispatch BY <1>0, <1>10, DispatchQueue
<1>11. CASE NothingToDispatch
  <2>1. Quiet BY <1>11 DEF NothingToDispatch
  <2> QED BY <2>1, <1>a
<1>12. CASE Play
  <2>1. CASE marred = {} BY <1>0, <1>12, <2>1, PlayCalls
  <2>2. CASE marred # {}
    <3>1. marred' # {} BY <1>12, <2>2 DEF Play
    <3> QED BY <1>b, <3>1
  <2> QED BY <2>1, <2>2
<1>13. CASE HandlerEnds
  <2>1. Quiet BY <1>13 DEF HandlerEnds
  <2> QED BY <2>1, <1>a
<1>14. CASE HandlerBailout
  <2>1. marred' # {} BY <1>14 DEF HandlerBailout
  <2> QED BY <1>b, <2>1
<1>15. CASE GiveBackLink BY <1>0, <1>15, GiveBackLinkQueue
<1>16. CASE GiveBackStore BY <1>0, <1>16, GiveBackStoreQueue
<1>17. CASE Played
  <2>1. Quiet BY <1>0, <1>17 DEF Played, Leave, Stopped, PlaceOK, lists
  <2> QED BY <2>1, <1>a
<1>18. CASE PutBack BY <1>0, <1>18, PutBackQueue
<1>19. CASE pcntl_signal_handler BY <1>0, <1>19, NoSpareQueue, EnqueueQueue
<1>20. CASE UNCHANGED pcntlVars
  <2>1. Quiet BY <1>20 DEF pcntlVars
  <2> QED BY <2>1, <1>a
<1> QED BY <1>1, <1>2, <1>3, <1>4, <1>5, <1>6, <1>7, <1>8, <1>9, <1>10, <1>11, <1>12, <1>13,
           <1>14, <1>15, <1>16, <1>17, <1>18, <1>19, <1>20
        DEF PcntlNext, pcntl_signal, pcntl_signal_dispatch

LEMMA CallsKept == PcntlInv /\ [PcntlNext]_pcntlVars => CalledInOrder'
<1> SUFFICES ASSUME PcntlInv, [PcntlNext]_pcntlVars PROVE CalledInOrder' OBVIOUS
<1>0. TypesOK /\ PlaceOK /\ MaskOK /\ QueueOK /\ CalledInOrder BY DEF PcntlInv
<1>a. ASSUME called' = called, marred \subseteq marred' PROVE CalledInOrder'
  BY <1>0, <1>a DEF CalledInOrder
<1> USE DEF local, record
<1>1. CASE CallSignal BY <1>1, <1>a DEF CallSignal
<1>2. CASE AllocLink BY <1>2, <1>a DEF AllocLink
<1>3. CASE AllocStore BY <1>3, <1>a DEF AllocStore
<1>4. CASE Install BY <1>4, <1>a DEF Install
<1>5. CASE Async BY <1>5, <1>a DEF Async
<1>6. CASE Sigprocmask BY <1>6, <1>a DEF Sigprocmask
<1>7. CASE NextRequest BY <1>7, <1>a DEF NextRequest
<1>8. CASE Interrupt BY <1>8, <1>a DEF Interrupt
<1>9. CASE InterruptInHandler BY <1>9, <1>a DEF InterruptInHandler
<1>10. CASE Dispatch BY <1>10, <1>a DEF Dispatch
<1>11. CASE NothingToDispatch BY <1>11, <1>a DEF NothingToDispatch
<1>12. CASE Play
  <2>1. CASE marred = {} BY <1>0, <1>12, <2>1, PlayCalls
  <2>2. CASE marred # {}
    <3>1. "bailout" \notin marred BY <1>0, <1>12 DEF Play, PlaceOK, InDispatcher
    <3>2. ~(marred' \subseteq {"bailout"}) BY <1>12, <2>2, <3>1 DEF Play
    <3> QED BY <3>2 DEF CalledInOrder
  <2> QED BY <2>1, <2>2
<1>13. CASE HandlerEnds BY <1>13, <1>a DEF HandlerEnds
<1>14. CASE HandlerBailout BY <1>14, <1>a DEF HandlerBailout
<1>15. CASE GiveBackLink BY <1>15, <1>a DEF GiveBackLink
<1>16. CASE GiveBackStore BY <1>16, <1>a DEF GiveBackStore
<1>17. CASE Played BY <1>17, <1>a DEF Played, Leave
<1>18. CASE PutBack BY <1>18, <1>a DEF PutBack, Leave
<1>19. CASE pcntl_signal_handler BY <1>19, <1>a DEF pcntl_signal_handler
<1>20. CASE UNCHANGED pcntlVars BY <1>20, <1>a DEF pcntlVars
<1> QED BY <1>1, <1>2, <1>3, <1>4, <1>5, <1>6, <1>7, <1>8, <1>9, <1>10, <1>11, <1>12, <1>13,
           <1>14, <1>15, <1>16, <1>17, <1>18, <1>19, <1>20
        DEF PcntlNext, pcntl_signal, pcntl_signal_dispatch

LEMMA PcntlInductive == PcntlSpec => []PcntlInv
<1>1. PcntlInv /\ [PcntlNext]_pcntlVars => PcntlInv'
  BY PcntlTypesKept, PlacesKept, MasksKept, QueuesKept, CallsKept DEF PcntlInv
<1> QED BY PcntlInitInv, <1>1, PTL DEF PcntlSpec

LEMMA JoinOnce ==
  ASSUME NEW s \in Seq(Record), NEW t \in Seq(Record), IsInjective(s), IsInjective(t),
         Range(s) \cap Range(t) = {}
  PROVE  /\ s \o t \in Seq(Record) /\ IsInjective(s \o t)
         /\ Range(s \o t) = Range(s) \cup Range(t)
<1> DEFINE u == s \o t
<1>1. /\ u \in Seq(Record) /\ Len(s) \in Nat /\ Len(t) \in Nat
      /\ DOMAIN s = 1 .. Len(s) /\ DOMAIN t = 1 .. Len(t) /\ DOMAIN u = 1 .. Len(s) + Len(t)
      /\ \A i \in 1 .. Len(s) + Len(t) : u[i] = IF i <= Len(s) THEN s[i] ELSE t[i - Len(s)]
  OBVIOUS
<1> HIDE DEF u
<1>2. \A i \in 1 .. Len(s) + Len(t) :
        \/ i \in 1 .. Len(s) /\ u[i] = s[i]
        \/ i - Len(s) \in 1 .. Len(t) /\ u[i] = t[i - Len(s)]
  BY <1>1
<1>3. /\ \A i \in 1 .. Len(s) : s[i] \in Range(s)
      /\ \A i \in 1 .. Len(t) : t[i] \in Range(t)
  BY <1>1 DEF Range
<1>4. IsInjective(u)
  <2> SUFFICES ASSUME NEW i \in 1 .. Len(s) + Len(t), NEW j \in 1 .. Len(s) + Len(t), u[i] = u[j]
               PROVE  i = j
    BY <1>1 DEF IsInjective
  <2>1. CASE i \in 1 .. Len(s) /\ u[i] = s[i]
    <3>1. j \in 1 .. Len(s) /\ u[j] = s[j] BY <1>2, <1>3, <2>1
    <3> QED BY <1>1, <2>1, <3>1 DEF IsInjective
  <2>2. CASE i - Len(s) \in 1 .. Len(t) /\ u[i] = t[i - Len(s)]
    <3>1. j - Len(s) \in 1 .. Len(t) /\ u[j] = t[j - Len(s)] BY <1>2, <1>3, <2>2
    <3>2. i - Len(s) = j - Len(s) BY <1>1, <2>2, <3>1 DEF IsInjective
    <3> QED BY <1>1, <3>2
  <2> QED BY <1>2, <2>1, <2>2
<1>5. Range(u) = Range(s) \cup Range(t)
  <2>1. Range(u) \subseteq Range(s) \cup Range(t)
    <3> SUFFICES ASSUME NEW x \in Range(u) PROVE x \in Range(s) \cup Range(t) OBVIOUS
    <3>1. PICK i \in 1 .. Len(s) + Len(t) : x = u[i] BY <1>1 DEF Range
    <3> QED BY <1>2, <1>3, <3>1
  <2>2. ASSUME NEW x \in Range(s) PROVE x \in Range(u)
    <3>1. PICK i \in 1 .. Len(s) : x = s[i] BY <1>1, <2>2 DEF Range
    <3>2. i \in 1 .. Len(s) + Len(t) /\ u[i] = x BY <1>1, <3>1
    <3> QED BY <1>1, <3>2 DEF Range
  <2>3. ASSUME NEW x \in Range(t) PROVE x \in Range(u)
    <3>1. PICK i \in 1 .. Len(t) : x = t[i] BY <1>1, <2>3 DEF Range
    <3>2. i + Len(s) \in 1 .. Len(s) + Len(t) /\ ~(i + Len(s) <= Len(s)) /\ (i + Len(s)) - Len(s) = i
      BY <1>1
    <3>3. u[i + Len(s)] = x BY <1>1, <3>1, <3>2
    <3> QED BY <1>1, <3>2, <3>3 DEF Range
  <2> QED BY <2>1, <2>2, <2>3
<1> QED BY <1>1, <1>4, <1>5 DEF u

LEMMA OnceInPlace == PcntlInv => RecordsOnce /\ SignalsAccounted
<1> SUFFICES ASSUME PcntlInv, marred = {} PROVE RecordsOnce /\ SignalsAccounted
  BY DEF RecordsOnce, SignalsAccounted
<1>0. TypesOK BY DEF PcntlInv
<1>1. PICK h, s, q : ListsOK(h, s, q) /\ SignalsOK(h, q) BY DEF PcntlInv, QueueOK
<1>2. IsChain(next, head, h) /\ IsChain(next, spares, s) /\ IsChain(next, queue, q) BY <1>1 DEF ListsOK
<1>3. List(head) = h /\ List(spares) = s /\ List(queue) = q BY <1>2, ListOfChain
<1>4. SignalsAccounted BY <1>1, <1>3 DEF SignalsAccounted, SignalsOK
<1>5. RecordsOnce
  <2> DEFINE held == IF psig = "NULL" THEN <<>> ELSE <<psig>>
             all == h \o s \o q \o held
  <2>1. /\ h \in Seq(Record) /\ s \in Seq(Record) /\ q \in Seq(Record)
        /\ IsInjective(h) /\ IsInjective(s) /\ IsInjective(q)
    BY <1>2 DEF IsChain
  <2>2. held \in Seq(Record) /\ IsInjective(held) /\ Range(held) = {psig} \ {"NULL"}
    <3>1. CASE psig = "NULL" BY <3>1, ChainNone DEF IsInjective
    <3>2. CASE psig # "NULL"
      <4>1. psig \in Record BY <1>0, <3>2 DEF TypesOK, Pointer
      <4>2. <<psig>> \in Seq(Record) /\ DOMAIN <<psig>> = {1} /\ <<psig>>[1] = psig BY <4>1
      <4>3. Range(<<psig>>) = {psig} /\ IsInjective(<<psig>>) BY <4>2 DEF Range, IsInjective
      <4> QED BY <3>2, <4>2, <4>3
    <3> QED BY <3>1, <3>2
  <2> HIDE DEF held
  <2>3. /\ Range(h) \cap Range(s) = {} /\ (Range(h) \cup Range(s)) \cap Range(q) = {}
        /\ (Range(h) \cup Range(s) \cup Range(q)) \cap Range(held) = {}
        /\ Range(h) \cup Range(s) \cup Range(q) \cup Range(held) = Record \ fresh
    BY <1>1, <2>2 DEF ListsOK
  <2>4. h \o s \in Seq(Record) /\ IsInjective(h \o s) /\ Range(h \o s) = Range(h) \cup Range(s)
    BY <2>1, <2>3, JoinOnce
  <2>5. /\ h \o s \o q \in Seq(Record) /\ IsInjective(h \o s \o q)
        /\ Range(h \o s \o q) = Range(h) \cup Range(s) \cup Range(q)
    BY <2>1, <2>3, <2>4, JoinOnce
  <2>6. IsInjective(all) /\ Range(all) = Record \ fresh
    BY <2>2, <2>3, <2>5, JoinOnce
  <2> QED BY <1>3, <2>6 DEF RecordsOnce, held
<1> QED BY <1>4, <1>5

\* The variables of pcntl have their types; while nothing has marred the lists,
\* the dispatcher works with signals masked, and the end of the queue is known.
THEOREM PcntlTypeCorrect == PcntlSpec => []PcntlTypeOK
<1>1. PcntlInv => PcntlTypeOK
  <2> SUFFICES ASSUME PcntlInv PROVE PcntlTypeOK OBVIOUS
  <2>0. TypesOK /\ PlaceOK /\ MaskOK /\ QueueOK BY DEF PcntlInv
  <2>1. marred = {} /\ processing_signal_queue => masked BY <2>0 DEF MaskOK
  <2>2. ASSUME marred = {}
        PROVE  /\ head = "NULL" <=> tail = "NULL"
               /\ head # "NULL" => tail = Last(List(head))
               /\ queue # "NULL" => head = "NULL"
    <3>1. PICK h, s, q : ListsOK(h, s, q) BY <2>0, <2>2 DEF QueueOK
    <3>2. List(head) = h BY <3>1, ListOfChain DEF ListsOK
    <3>3. /\ head = "NULL" <=> h = <<>>
          /\ h # <<>> => tail = h[Len(h)] /\ tail \in Record
      BY <2>0, <3>1, ListsKnown
    <3>4. h = <<>> => tail = "NULL" BY <3>1 DEF ListsOK
    <3>5. queue # "NULL" => head = "NULL" BY <2>0, <2>2 DEF PlaceOK, MaskOK
    <3> QED BY <3>2, <3>3, <3>4, <3>5, PcntlBounds DEF Last
  <2> QED BY <2>0, <2>1, <2>2 DEF PcntlTypeOK, TypesOK
<1> QED BY PcntlInductive, <1>1, PTL

\* Whatever signals and handlers do between two stores of the program, every
\* record is in one place, what waits is marked, every signal is accounted for,
\* and handlers are called in the order in which the signals came.
THEOREM PcntlQueueCorrect == PcntlSpec => []PcntlQueueOK
<1>1. PcntlInv => PcntlQueueOK
  <2> SUFFICES ASSUME PcntlInv PROVE PcntlQueueOK OBVIOUS
  <2>1. RecordsOnce /\ SignalsAccounted BY OnceInPlace
  <2>2. PendingMarked BY DEF PcntlInv, MaskOK, PendingMarked
  <2>3. CalledInOrder BY DEF PcntlInv
  <2> QED BY <2>1, <2>2, <2>3 DEF PcntlQueueOK
<1> QED BY PcntlInductive, <1>1, PTL
=============================================================================
