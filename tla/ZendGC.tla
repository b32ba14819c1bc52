------------------------------- MODULE ZendGC -------------------------------
(***************************************************************************)
(* Reference counting and the cycle collector (src/Zend/zend_gc.c,         *)
(* zend_objects_API.c): a counter per object, a buffer of objects whose    *)
(* counter was lowered and which may be part of a cycle that is garbage,   *)
(* and a collector that takes the references within the graph below the    *)
(* buffered objects out of the counters, puts back those below an object   *)
(* whose counter is not zero then, and frees the rest.  Destructors run    *)
(* program code in the middle of it, with any effect on the heap.          *)
(*                                                                         *)
(* The program is any that sees only what it can reach.  Calls nest: calls *)
(* is the stack of those under way, the innermost one first.  The passes   *)
(* of the collector run no program code and are one step each, except the  *)
(* scan, whose outcome must not depend on the order it takes.              *)
(***************************************************************************)
EXTENDS Integers, FiniteSets, Sequences

CONSTANTS
  Object,     \* zend_object's the heap has room for
  HasDtor,    \* those whose class has a destructor
  MaxVars,    \* bound: variables of the program that refer to an object
  MaxProps,   \* bound: references in properties, while the program adds one
  MaxNested   \* bound: destructors that run, one in the other, until they
              \* do nothing but return

ASSUME GCAssumption ==
  IsFiniteSet(Object) /\ "none" \notin Object /\ HasDtor \subseteq Object
  /\ MaxVars \in Nat /\ MaxProps \in Nat /\ MaxNested \in Nat

VARIABLES
  used,      \* objects that are allocated
  variables, \* variables[n]: variables of the program that refer to n
  prop,      \* references from a property of one object to another object
  refcount,
  color,     \* GC_BLACK, GC_WHITE, GC_GREY, GC_PURPLE
  tag,       \* of the object's slot in the root buffer; "none" = no slot
  dtor_called, free_called, \* IS_OBJ_DESTRUCTOR_CALLED, IS_OBJ_FREE_CALLED
  nulled,    \* objects whose type the collector has set to IS_NULL
  calls,     \* the calls under way
  gc         \* the collector: phase, the objects still to visit (work, and
             \* black for gc_scan_black), GC_HAS_DESTRUCTORS, and the reruns

objectVars == <<used, dtor_called, free_called, nulled>>
refVars    == <<variables, prop>>
gcVars     == <<objectVars, refVars, refcount, color, tag, calls, gc>>

Succ(n) == {e[2] : e \in {x \in prop : x[1] = n}}

\* The properties a traversal follows.
Visited(n) == IF n \in free_called THEN {} ELSE Succ(n)

\* S and what is found from it through objects of T.
Closure(S, T) ==
  LET r[i \in 0 .. Cardinality(Object)] ==
        IF i = 0 THEN S ELSE r[i - 1] \cup (T \cap UNION {Visited(n) : n \in r[i - 1]})
  IN r[Cardinality(Object)]

Reach(S) == Closure(S, Object)

This == {calls[i].obj : i \in {j \in DOMAIN calls : calls[j].op = "dtor"}}

\* What the program can get at: its variables, and $this in destructors.
Reachable == Reach({n \in Object : variables[n] > 0} \cup This)

Tagged(t) == {n \in Object : tag[n] = t}
Roots == Tagged("root")

Idle == [phase |-> "idle", work |-> {}, black |-> {}, dtors |-> FALSE,
         rerun |-> FALSE, did_rerun |-> FALSE]
Call(op, n) == [op |-> op, obj |-> n]
Top(op) == calls # <<>> /\ calls[1].op = op
Ops == {"dtor", "del", "undtor", "free", "gcfree", "gcdtor", "full", "collect"}

GCTypeOK ==
  /\ used \subseteq Object /\ variables \in [Object -> 0 .. MaxVars]
  /\ prop \subseteq used \X used
  /\ \A n \in Object : refcount[n] \in Nat
  /\ color \in [Object -> {"black", "white", "grey", "purple"}]
  /\ tag \in [Object -> {"none", "root", "garbage", "dtor"}]
  /\ dtor_called \subseteq used /\ free_called \subseteq used /\ nulled \subseteq used
  /\ calls \in Seq([op : Ops, obj : Object \cup {"none"}])
  /\ gc.phase \in {"idle", "mark", "scan", "collect", "dtors", "destroy"}
  /\ gc.work \subseteq used /\ gc.black \subseteq used
  /\ {gc.dtors, gc.rerun, gc.did_rerun} \subseteq BOOLEAN
  /\ gc.phase = "idle" => \A n \in Object : color[n] = IF tag[n] = "root" THEN "purple" ELSE "black"

GCInit ==
  /\ used = {} /\ variables = [n \in Object |-> 0] /\ prop = {}
  /\ refcount = [n \in Object |-> 0]
  /\ color = [n \in Object |-> "black"] /\ tag = [n \in Object |-> "none"]
  /\ dtor_called = {} /\ free_called = {} /\ nulled = {}
  /\ calls = <<>> /\ gc = Idle

-----------------------------------------------------------------------------
(* Lowering a counter.                                                     *)

\* GC_MAY_LEAK: neither buffered nor colored.
MayLeak(n) == tag[n] = "none" /\ color[n] = "black"

Lower(n) == refcount' = [refcount EXCEPT ![n] = @ - 1]

\* gc_possible_root: n gets a slot in the buffer.
gc_possible_root(n) ==
  /\ tag' = [tag EXCEPT ![n] = "root"]
  /\ color' = [color EXCEPT ![n] = "purple"]

\* Slip: only an object that is in no property is remembered.
zend_object_release_InVariables(n, rest) ==
  /\ Lower(n) /\ UNCHANGED gc
  /\ calls' = IF refcount[n] = 1 THEN <<Call("del", n)>> \o rest ELSE rest
  /\ IF refcount[n] > 1 /\ MayLeak(n) /\ refcount[n] > Cardinality({e \in prop : e[2] = n})
     THEN gc_possible_root(n) ELSE UNCHANGED <<tag, color>>

\* zend_object_release and zval_ptr_dtor; rest are the calls to go on with.
\* The threshold, at which it collects first (gc_possible_root_when_full), may
\* be anywhere; n is held meanwhile.
zend_object_release(n, rest) ==
  \/ /\ refcount[n] = 1
     /\ Lower(n) /\ calls' = <<Call("del", n)>> \o rest
     /\ UNCHANGED <<tag, color, gc>>
  \/ /\ refcount[n] > 1 /\ ~MayLeak(n)
     /\ Lower(n) /\ calls' = rest
     /\ UNCHANGED <<tag, color, gc>>
  \/ /\ refcount[n] > 1 /\ MayLeak(n)
     /\ Lower(n) /\ gc_possible_root(n) /\ calls' = rest
     /\ UNCHANGED gc
  \/ /\ refcount[n] > 1 /\ MayLeak(n) /\ gc.phase = "idle"
     /\ calls' = <<Call("collect", "none"), Call("full", n)>> \o rest
     /\ gc' = [Idle EXCEPT !.phase = "mark"]
     /\ UNCHANGED <<refcount, tag, color>>

\* gc_possible_root_when_full after the collection.
Full ==
  /\ Top("full")
  /\ LET n == calls[1].obj IN
     /\ Lower(n)
     /\ calls' = IF refcount[n] = 1 THEN <<Call("del", n)>> \o Tail(calls) ELSE Tail(calls)
     /\ IF refcount[n] > 1 /\ MayLeak(n) THEN gc_possible_root(n) ELSE UNCHANGED <<tag, color>>
  /\ UNCHANGED <<objectVars, refVars, gc>>

-----------------------------------------------------------------------------
(* The program.                                                            *)

IsDtor(c) == c.op = "dtor"

\* It runs at the bottom, and in a destructor.
Running == calls = <<>> \/ (Top("dtor") /\ Len(SelectSeq(calls, IsDtor)) <= MaxNested)

New(n) ==
  /\ Running /\ n \notin used /\ MaxVars > 0
  /\ used' = used \cup {n}
  /\ variables' = [variables EXCEPT ![n] = 1]
  /\ refcount' = [refcount EXCEPT ![n] = 1]
  /\ UNCHANGED <<dtor_called, free_called, nulled, prop, color, tag, calls, gc>>

Copy(n) ==
  /\ Running /\ n \in Reachable /\ variables[n] < MaxVars
  /\ variables' = [variables EXCEPT ![n] = @ + 1]
  /\ refcount' = [refcount EXCEPT ![n] = @ + 1]
  /\ UNCHANGED <<objectVars, prop, color, tag, calls, gc>>

SetProperty(m, n) ==
  /\ Running /\ {m, n} \subseteq Reachable /\ <<m, n>> \notin prop
  /\ Cardinality(prop) < MaxProps
  /\ prop' = prop \cup {<<m, n>>}
  /\ refcount' = [refcount EXCEPT ![n] = @ + 1]
  /\ UNCHANGED <<objectVars, variables, color, tag, calls, gc>>

Unset(n) ==
  /\ Running /\ variables[n] > 0
  /\ variables' = [variables EXCEPT ![n] = @ - 1]
  /\ zend_object_release(n, calls)
  /\ UNCHANGED <<objectVars, prop>>

UnsetProperty(m, n) ==
  /\ Running /\ m \in Reachable /\ <<m, n>> \in prop
  /\ prop' = prop \ {<<m, n>>}
  /\ zend_object_release(n, calls)
  /\ UNCHANGED <<objectVars, variables>>

\* gc_collect_cycles() called by the program.
CollectCall ==
  /\ Running /\ gc.phase = "idle" /\ Roots # {}
  /\ calls' = <<Call("collect", "none")>> \o calls
  /\ gc' = [Idle EXCEPT !.phase = "mark"]
  /\ UNCHANGED <<objectVars, refVars, refcount, color, tag>>

\* A destructor returns: zend_objects_destroy_object gives up $this.
DtorReturns ==
  /\ Top("dtor")
  /\ zend_object_release(calls[1].obj, Tail(calls))
  /\ UNCHANGED <<objectVars, refVars>>

-----------------------------------------------------------------------------
(* zend_objects_store_del.                                                 *)

\* The object's storage goes, properties first.
StartFree(n, rest) ==
  /\ free_called' = free_called \cup {n}
  /\ refcount' = [refcount EXCEPT ![n] = 1]
  /\ calls' = <<Call("free", n)>> \o rest

\* The collector has destroyed it already.
DelNulled ==
  /\ Top("del") /\ calls[1].obj \in nulled
  /\ calls' = Tail(calls)
  /\ UNCHANGED <<objectVars, refVars, refcount, color, tag, gc>>

\* Slip: that the destructor was called is not looked at.
DelDestructor_Again ==
  /\ Top("del")
  /\ LET n == calls[1].obj IN
     /\ n \in HasDtor \ nulled
     /\ dtor_called' = dtor_called \cup {n}
     /\ refcount' = [refcount EXCEPT ![n] = 2]
     /\ calls' = <<Call("dtor", n), Call("undtor", n)>> \o Tail(calls)
  /\ UNCHANGED <<used, free_called, nulled, refVars, color, tag, gc>>

\* The destructor is called, with a counter of 1 and $this.
DelDestructor ==
  /\ Top("del")
  /\ LET n == calls[1].obj IN
     /\ n \in HasDtor \ (nulled \cup dtor_called)
     /\ dtor_called' = dtor_called \cup {n}
     /\ refcount' = [refcount EXCEPT ![n] = 2]
     /\ calls' = <<Call("dtor", n), Call("undtor", n)>> \o Tail(calls)
  /\ UNCHANGED <<used, free_called, nulled, refVars, color, tag, gc>>

DelFree ==
  /\ Top("del")
  /\ LET n == calls[1].obj IN
     /\ n \notin nulled /\ (n \in HasDtor => n \in dtor_called)
     /\ dtor_called' = dtor_called \cup {n}
     /\ StartFree(n, Tail(calls))
  /\ UNCHANGED <<used, nulled, refVars, color, tag, gc>>

\* After the destructor; it may have resurrected the object.
DelAfter ==
  /\ Top("undtor")
  /\ LET n == calls[1].obj IN
     IF refcount[n] = 1 THEN StartFree(n, Tail(calls))
     ELSE Lower(n) /\ calls' = Tail(calls) /\ UNCHANGED free_called
  /\ UNCHANGED <<used, dtor_called, nulled, refVars, color, tag, gc>>

\* free_obj, one property after the other.
FreeProperty ==
  /\ Top("free") \/ Top("gcfree")
  /\ \E m \in Succ(calls[1].obj) :
       /\ prop' = prop \ {<<calls[1].obj, m>>}
       /\ zend_object_release(m, calls)
  /\ UNCHANGED <<objectVars, variables>>

\* efree: the memory of the objects S can be used again.
Efree(S) ==
  /\ used' = used \ S
  /\ refcount' = [n \in Object |-> IF n \in S THEN 0 ELSE refcount[n]]
  /\ tag' = [n \in Object |-> IF n \in S THEN "none" ELSE tag[n]]
  /\ color' = [n \in Object |-> IF n \in S THEN "black" ELSE color[n]]
  /\ dtor_called' = dtor_called \ S /\ free_called' = free_called \ S /\ nulled' = nulled \ S

FreeDone ==
  /\ Top("free") /\ Succ(calls[1].obj) = {}
  /\ Efree({calls[1].obj})
  /\ calls' = Tail(calls)
  /\ UNCHANGED <<refVars, gc>>

-----------------------------------------------------------------------------
(* zend_gc_collect_cycles.                                                 *)

Phase(p) == Top("collect") /\ gc.phase = p

\* The counters with d added for every reference from an object in S.
Count(S, d) == [n \in Object |-> refcount[n] + d * Cardinality({m \in S : n \in Visited(m)})]
Paint(S, c) == [n \in Object |-> IF n \in S THEN c ELSE color[n]]
Colored(S, c) == {n \in S : color[n] = c}

gcFrame == <<objectVars, refVars, calls>>

\* gc_mark_grey goes through everything below the buffered objects once, and
\* takes every reference it follows out of the counter.
gc_mark_roots ==
  /\ Phase("mark")
  /\ refcount' = Count(Reach(Roots), -1)
  /\ color' = Paint(Reach(Roots), "grey")
  /\ gc' = [gc EXCEPT !.phase = "scan"]
  /\ UNCHANGED <<gcFrame, tag>>

gc_scan_roots ==
  /\ Phase("scan") /\ gc.work = {} /\ gc.black = {}
  /\ \E n \in Colored(Roots, "grey") :
       color' = Paint({n}, "white") /\ gc' = [gc EXCEPT !.work = {n}]
  /\ UNCHANGED <<gcFrame, refcount, tag>>

\* One object: it is black with all below it, or white and the grey ones
\* below it are looked at.
gc_scan ==
  /\ Phase("scan") /\ gc.black = {}
  /\ \E n \in gc.work :
       \/ /\ color[n] # "white"
          /\ gc' = [gc EXCEPT !.work = @ \ {n}] /\ UNCHANGED color
       \/ /\ color[n] = "white" /\ refcount[n] > 0
          /\ color' = Paint({n}, "black")
          /\ gc' = [gc EXCEPT !.work = @ \ {n}, !.black = {n}]
       \/ /\ color[n] = "white" /\ refcount[n] = 0
          /\ color' = Paint(Colored(Visited(n), "grey"), "white")
          /\ gc' = [gc EXCEPT !.work = (@ \ {n}) \cup Colored(Visited(n), "grey")]
  /\ UNCHANGED <<gcFrame, refcount, tag>>

\* Slip: what was found white before stays white.
gc_scan_black_GreyOnly ==
  /\ Phase("scan")
  /\ \E n \in gc.black :
       LET new == Colored(Visited(n), "grey") IN
       /\ refcount' = Count({n}, 1)
       /\ color' = Paint(new, "black")
       /\ gc' = [gc EXCEPT !.black = (@ \ {n}) \cup new]
  /\ UNCHANGED <<gcFrame, tag>>

gc_scan_black ==
  /\ Phase("scan")
  /\ \E n \in gc.black :
       LET new == Visited(n) \ Colored(Object, "black") IN
       /\ refcount' = Count({n}, 1)
       /\ color' = Paint(new, "black")
       /\ gc' = [gc EXCEPT !.black = (@ \ {n}) \cup new]
  /\ UNCHANGED <<gcFrame, tag>>

\* Slip: an object found on the way gets no slot.
gc_collect_roots_RootsOnly ==
  /\ Phase("scan") /\ gc.work = {} /\ gc.black = {} /\ Colored(Roots, "grey") = {}
  /\ LET kept    == Colored(Roots, "black")
         garbage == Closure(Roots \ kept, Colored(Object, "white"))
     IN /\ tag' = [n \in Object |-> IF n \in kept THEN "none"
                                    ELSE IF n \in Roots THEN "garbage" ELSE tag[n]]
        /\ color' = Paint(garbage, "black")
        /\ refcount' = Count(garbage, 1)
        /\ gc' = [gc EXCEPT !.phase = "collect",
                           !.dtors = garbage \cap (HasDtor \ dtor_called) # {}]
  /\ UNCHANGED gcFrame

\* What is black leaves the buffer; what is white gets a slot, and its
\* references count again (gc_collect_white, gc_add_garbage).
gc_collect_roots ==
  /\ Phase("scan") /\ gc.work = {} /\ gc.black = {} /\ Colored(Roots, "grey") = {}
  /\ LET kept    == Colored(Roots, "black")
         garbage == Closure(Roots \ kept, Colored(Object, "white"))
     IN /\ tag' = [n \in Object |-> IF n \in kept THEN "none"
                                    ELSE IF n \in garbage THEN "garbage" ELSE tag[n]]
        /\ color' = Paint(garbage, "black")
        /\ refcount' = Count(garbage, 1)
        /\ gc' = [gc EXCEPT !.phase = "collect",
                           !.dtors = garbage \cap (HasDtor \ dtor_called) # {}]
  /\ UNCHANGED gcFrame

Finish == calls' = Tail(calls) /\ gc' = Idle

NothingToFree ==
  /\ Phase("collect") /\ Tagged("garbage") = {}
  /\ Finish
  /\ UNCHANGED <<objectVars, refVars, refcount, color, tag>>

NoDestructors ==
  /\ Phase("collect") /\ Tagged("garbage") # {} /\ ~gc.dtors
  /\ gc' = [gc EXCEPT !.phase = "destroy"]
  /\ UNCHANGED <<gcFrame, refcount, color, tag>>

\* Slip: only what the object itself refers to.
gc_remove_nested_data_from_buffer_Shallow(D) ==
  Tagged("garbage") \cap UNION {Visited(n) : n \in D}

\* What the destructors of D can see.
gc_remove_nested_data_from_buffer(D) == Closure(D, Tagged("garbage")) \ D

\* Garbage with a destructor is a root of the next run, and what its
\* destructor can see is no garbage in this one.
MarkDtorGarbage ==
  /\ Phase("collect") /\ gc.dtors
  /\ LET D == Tagged("garbage") \cap (HasDtor \ dtor_called) IN
     /\ tag' = [n \in Object |-> IF n \in D THEN "dtor"
                    ELSE IF n \in gc_remove_nested_data_from_buffer(D) THEN "none" ELSE tag[n]]
     /\ color' = Paint(D, "purple")
     /\ dtor_called' = dtor_called \cup (Tagged("garbage") \ D)
     /\ gc' = [gc EXCEPT !.phase = "dtors", !.rerun = TRUE]
  /\ UNCHANGED <<used, free_called, nulled, refVars, refcount, calls>>

\* gc_call_destructors, one object; another destructor may have led to its
\* being called already.
gc_call_destructors ==
  /\ Phase("dtors")
  /\ \E n \in Tagged("dtor") :
       /\ tag' = [tag EXCEPT ![n] = "root"]
       /\ IF n \in dtor_called THEN UNCHANGED <<dtor_called, refcount, calls>>
          ELSE /\ dtor_called' = dtor_called \cup {n}
               /\ refcount' = [refcount EXCEPT ![n] = @ + 2]
               /\ calls' = <<Call("dtor", n), Call("gcdtor", n)>> \o calls
  /\ UNCHANGED <<used, free_called, nulled, refVars, color, gc>>

\* GC_DELREF; an object nobody refers to any more waits in the buffer.
DestructorCalled ==
  /\ Top("gcdtor")
  /\ Lower(calls[1].obj) /\ calls' = Tail(calls)
  /\ UNCHANGED <<objectVars, refVars, color, tag, gc>>

DestructorsCalled ==
  /\ Phase("dtors") /\ Tagged("dtor") = {}
  /\ gc' = [gc EXCEPT !.phase = "destroy"]
  /\ UNCHANGED <<gcFrame, refcount, color, tag>>

\* One garbage object is invalid from now on, and releases its properties.
DestroyGarbage ==
  /\ Phase("destroy")
  /\ \E n \in Tagged("garbage") \ nulled :
       /\ nulled' = nulled \cup {n} /\ free_called' = free_called \cup {n}
       /\ refcount' = [refcount EXCEPT ![n] = @ + 1]
       /\ calls' = <<Call("gcfree", n)>> \o calls
  /\ UNCHANGED <<used, dtor_called, refVars, color, tag, gc>>

GarbageDestroyed ==
  /\ Top("gcfree") /\ Succ(calls[1].obj) = {}
  /\ Lower(calls[1].obj) /\ calls' = Tail(calls)
  /\ UNCHANGED <<objectVars, refVars, color, tag, gc>>

\* The garbage is freed; if destructors were called, it all runs once more.
CollectEnds ==
  /\ Phase("destroy") /\ Tagged("garbage") \subseteq nulled
  /\ Efree(Tagged("garbage"))
  /\ IF gc.rerun /\ ~gc.did_rerun /\ Roots # {}
     THEN gc' = [Idle EXCEPT !.phase = "mark", !.did_rerun = TRUE] /\ UNCHANGED calls
     ELSE Finish
  /\ UNCHANGED refVars

-----------------------------------------------------------------------------
Program ==
  \/ \E n \in Object : New(n) \/ Copy(n) \/ Unset(n)
  \/ \E m, n \in Object : SetProperty(m, n) \/ UnsetProperty(m, n)
  \/ CollectCall \/ DtorReturns

Delete ==
  DelNulled \/ DelDestructor \/ DelFree \/ DelAfter \/ FreeProperty \/ FreeDone

Collect ==
  \/ gc_mark_roots \/ gc_scan_roots \/ gc_scan \/ gc_scan_black \/ gc_collect_roots
  \/ NothingToFree \/ NoDestructors \/ MarkDtorGarbage
  \/ gc_call_destructors \/ DestructorCalled \/ DestructorsCalled
  \/ DestroyGarbage \/ GarbageDestroyed \/ CollectEnds

GCNext == Program \/ Delete \/ Full \/ Collect

GCSpec == GCInit /\ [][GCNext]_gcVars

-----------------------------------------------------------------------------
(* Properties.                                                             *)

Holds(n) == Cardinality({i \in DOMAIN calls : calls[i].obj = n /\ calls[i].op # "del"})

\* Outside of the collector's passes, which take references out and put them
\* back, every counter is the number of references: variables, properties and
\* calls that hold the object.
RefcountsExact ==
  gc.phase \notin {"mark", "scan", "collect"} =>
    \A n \in used :
      refcount[n] = variables[n] + Cardinality({e \in prop : e[2] = n}) + Holds(n)

\* Nothing the program can reach, from a destructor too, is being destroyed,
\* or about to be: the collector's garbage stays out of reach although
\* destructors change the heap under it.
NothingLiveFreed ==
  /\ Reachable \subseteq used \ (free_called \cup nulled)
  /\ gc.phase \in {"dtors", "destroy"} => Reachable \cap Tagged("garbage") = {}

\* What is needed: reachable, in the hands of a call, or about to be released.
Needed ==
  Reach({n \in Object : variables[n] > 0} \cup {calls[i].obj : i \in DOMAIN calls}
          \cup UNION {Succ(n) : n \in free_called})

\* No garbage is ever out of the collector's sight: when no call is under way
\* every object the program has lost is below one in the buffer, after
\* collections, which empty the buffer, and resurrections as well.
GarbageRooted == calls = <<>> => used \subseteq Reachable \cup Reach(Roots)

\* A collection whose last pass called no destructor leaves no garbage.
CollectsAll ==
  [][Top("collect") /\ gc'.phase = "idle" /\ ~gc.dtors => used' \subseteq Needed']_gcVars

\* An object is not destroyed, by its counter or the collector, before its
\* destructor was called, and that is not called twice.
DestructorsOnce ==
  [][\A n \in HasDtor :
       /\ n \in free_called' \ free_called => n \in dtor_called
       /\ Call("dtor", n) = Head(calls' \o <<Call("none", n)>>) /\ Len(calls') > Len(calls)
            => n \notin dtor_called]_gcVars

\* Collections and deletions destroy everything that is garbage, and nothing
\* before its destructor was called, once.
DestroyedRight == CollectsAll /\ DestructorsOnce
=============================================================================
