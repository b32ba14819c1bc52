------------------------------ MODULE FpmStdio ------------------------------
(***************************************************************************)
(* What the master of FPM holds of the output of its workers, for pools    *)
(* with catch_workers_output: child records with two descriptors and two   *)
(* events each (src/sapi/cli/fpm/fpm_children.c, fpm_stdio.c), the queue   *)
(* of descriptor events (fpm_events.c), the epoll set (events/epoll.c) and *)
(* the kernel's pipes behind the descriptor numbers, which are handed out  *)
(* again as soon as they are closed.                                       *)
(*                                                                         *)
(* A record is malloc'ed memory: the same Child is used again after it was *)
(* freed.  A pipe is known by a number of its own, the least one not in    *)
(* use, which the program never sees.                                      *)
(***************************************************************************)
EXTENDS Integers, FiniteSets, FiniteSetsExt

CONSTANTS
  Child,           \* child records
  NFd,             \* descriptor numbers the pipes can get
  NPipes,          \* bound: pipes that exist at a time
  MaxDeaths,       \* bound: deaths of workers
  MaxDescendants   \* bound: workers that leave a descendant with their output

ASSUME StdioAssumption ==
  /\ IsFiniteSet(Child)
  /\ {NFd, NPipes, MaxDeaths, MaxDescendants} \subseteq Nat

Fd     == 1 .. NFd
Pipe   == 1 .. NPipes
Stream == {"stdout", "stderr"}
Ev     == Child \X Stream       \* ev_stdout or ev_stderr of a record
NoFd   == -1

VARIABLES
  io,        \* what the functions below change, a record:
             \*   table[n]   the pipe whose read end is number n, 0 = closed
             \*   epoll      the registrations in the epoll set
             \*   queue      the events in fpm_event_queue_fd
             \*   fd[x]      child->fd_stdout or child->fd_stderr
             \*   evfd[x]    ev->fd
             \*   index[x]   is ev->index set: registered as far as known
             \*   full[p]    bytes in pipe p that nobody has read
  rec,       \* rec[c]: "none", "listed", or "closed" and waiting for ev_free
  proc,      \* the worker of record c: "none", "run", "zombie"
  mine,      \* mine[x]: the pipe made for it, 0 = none
  writers,   \* who holds the write end of a pipe
  copies,    \* workers that still hold the read end they inherited
  phase,     \* of fpm_event_loop: "wait", "fire", "timers", "bury"
  bunch,     \* events that wait has returned and that are not fired yet
  sigready,  \* the same of the event of the self-pipe
  chld, bury_timer,
  leftopen,  \* history: a record was closed while somebody could still write
  ndeaths, ndescendants

loopVars   == <<phase, bunch, sigready, chld, bury_timer>>
kernelVars == <<proc, writers, copies>>
boundVars  == <<ndeaths, ndescendants>>
vars == <<io, rec, mine, loopVars, kernelVars, leftopen, boundVars>>

Reg == [fd : Fd, pipe : Pipe, ev : Ev]

TypeOK ==
  /\ io \in [table : [Fd -> Pipe \cup {0}], epoll : SUBSET Reg, queue : SUBSET Ev,
             fd : [Ev -> Fd \cup {NoFd}], evfd : [Ev -> Fd \cup {NoFd}],
             index : [Ev -> BOOLEAN], full : [Pipe -> BOOLEAN]]
  /\ rec \in [Child -> {"none", "listed", "closed"}]
  /\ proc \in [Child -> {"none", "run", "zombie"}]
  /\ mine \in [Ev -> Pipe \cup {0}]
  /\ writers \in [Pipe -> SUBSET {"worker", "descendant"}]
  /\ copies \in [Pipe -> SUBSET Child]
  /\ phase \in {"wait", "fire", "timers", "bury"}
  /\ bunch \subseteq Ev
  /\ {sigready, chld, bury_timer, leftopen} \subseteq BOOLEAN
  /\ ndeaths \in 0 .. MaxDeaths /\ ndescendants \in 0 .. MaxDescendants

Init ==
  /\ io = [table |-> [n \in Fd |-> 0], epoll |-> {}, queue |-> {},
           fd |-> [x \in Ev |-> NoFd], evfd |-> [x \in Ev |-> NoFd],
           index |-> [x \in Ev |-> FALSE], full |-> [p \in Pipe |-> FALSE]]
  /\ rec = [c \in Child |-> "none"]
  /\ proc = [c \in Child |-> "none"]
  /\ mine = [x \in Ev |-> 0]
  /\ writers = [p \in Pipe |-> {}]
  /\ copies = [p \in Pipe |-> {}]
  /\ phase = "timers" /\ bunch = {} /\ sigready = FALSE /\ chld = FALSE /\ bury_timer = FALSE
  /\ leftopen = FALSE
  /\ ndeaths = 0 /\ ndescendants = 0

Open(m, p) == \E n \in Fd : m.table[n] = p

-----------------------------------------------------------------------------
(* The functions, from one value m of io to the next.                      *)

\* close(n).  The registrations of a pipe go with the last copy of its read
\* end; a number that is closed already does nothing.
Close(m, n) ==
  IF n \notin Fd \/ m.table[n] = 0 THEN m
  ELSE [m EXCEPT !.table[n] = 0,
                 !.epoll = IF copies[m.table[n]] = {}
                           THEN {e \in @ : e.pipe # m.table[n]} ELSE @]

\* fpm_event_del.  EPOLL_CTL_DEL finds what is registered for the number and
\* the file behind it now; an event with no index is looked for among the
\* timers, in vain.
fpm_event_del(m, x) ==
  LET n   == m.evfd[x]
      hit == {e \in m.epoll : e.fd = n /\ e.pipe = m.table[n]}
  IN IF m.index[x] /\ x \in m.queue
     THEN [m EXCEPT !.queue = @ \ {x}, !.epoll = @ \ hit, !.index[x] = (hit = {})]
     ELSE m

\* Slip: the queue is searched for the record and not for the event.
fpm_event_add_ByRecord(m, x, n) ==
  LET k == [m EXCEPT !.fd[x] = n, !.evfd[x] = n]
  IN IF \E y \in m.queue : y[1] = x[1] THEN k
     ELSE [k EXCEPT !.queue = @ \cup {x}, !.index[x] = TRUE,
                    !.epoll = @ \cup {[fd |-> n, pipe |-> m.table[n], ev |-> x]}]

\* fpm_event_add of a fresh event for number n: nothing if the queue holds
\* an event at this address already.
fpm_event_add(m, x, n) ==
  LET k == [m EXCEPT !.fd[x] = n, !.evfd[x] = n, !.index[x] = x \notin m.queue]
  IN IF x \in m.queue THEN k
     ELSE [k EXCEPT !.queue = @ \cup {x},
                    !.epoll = @ \cup {[fd |-> n, pipe |-> m.table[n], ev |-> x]}]

\* Slip: the event stays in the queue.
Ended_NoDel(m, x) == [Close(m, m.fd[x]) EXCEPT !.fd[x] = NoFd]

\* Slip: the descriptor is forgotten and not closed.
Ended_NoClose(m, x) == [fpm_event_del(m, x) EXCEPT !.fd[x] = NoFd]

\* Slip: 0 for "no descriptor".
Ended_ZeroFd(m, x) == [Close(fpm_event_del(m, x), m.fd[x]) EXCEPT !.fd[x] = 0]

\* The pipe of x is closed or broken: event and descriptor go.
Ended(m, x) == [Close(fpm_event_del(m, x), m.fd[x]) EXCEPT !.fd[x] = NoFd]

\* The stream that fpm_stdio_child_said takes the event for: by its number.
SaidStream(m, x) ==
  IF m.evfd[x] = m.fd[x[1], "stdout"] THEN <<x[1], "stdout">> ELSE <<x[1], "stderr">>

\* fpm_stdio_child_said reads until nothing is left; it is over when no writer
\* is left either, or when read fails on a closed descriptor.
fpm_stdio_child_said(m, x) ==
  LET p == m.table[m.evfd[x]]
  IN IF p = 0 THEN Ended(m, SaidStream(m, x))
     ELSE IF writers[p] = {} THEN Ended([m EXCEPT !.full[p] = FALSE], SaidStream(m, x))
     ELSE [m EXCEPT !.full[p] = FALSE]

\* Slip: what is still in the pipe is not read.
fpm_child_close_NoLastRead(m, c) ==
  LET Part(k, x) == IF k.fd[x] = NoFd THEN k ELSE Close(fpm_event_del(k, x), k.fd[x])
  IN Part(Part(m, <<c, "stdout">>), <<c, "stderr">>)

\* fpm_child_close in the event loop: what is left is read; a pipe that is
\* still open then is closed, but its number and its event stay.
fpm_child_close(m, c) ==
  LET Part(k, x) ==
        IF k.fd[x] = NoFd THEN k
        ELSE LET r == fpm_stdio_child_said(k, x) IN Close(r, r.fd[x])
  IN Part(Part(m, <<c, "stdout">>), <<c, "stderr">>)

\* fpm_postponed_child_free: events and descriptors that are left, and free.
fpm_postponed_child_free(m, c) ==
  LET Part(k, x) ==
        IF k.fd[x] = NoFd THEN k ELSE Close(fpm_event_del(k, x), k.fd[x])
      k == Part(Part(m, <<c, "stdout">>), <<c, "stderr">>)
      Fresh(f, v) == [x \in Ev |-> IF x[1] = c THEN v ELSE f[x]]
  IN [k EXCEPT !.fd = Fresh(@, NoFd), !.evfd = Fresh(@, NoFd), !.index = Fresh(@, FALSE)]

-----------------------------------------------------------------------------
(* fpm_children_make: pipes, fork, and the parent's side.                  *)

FreeFds   == {n \in Fd : io.table[n] = 0}
FreePipes == {p \in Pipe : ~Open(io, p) /\ writers[p] = {} /\ copies[p] = {}
                           /\ \A e \in io.epoll : e.pipe # p}

\* pipe() takes the two lowest free numbers, twice; the parent keeps the
\* first and the third.  The child inherits every read end.  A failed pipe or
\* fork changes nothing.
fpm_children_make(c) ==
  /\ phase # "wait" /\ rec[c] = "none"
  /\ Cardinality(FreeFds) >= 4 /\ Cardinality(FreePipes) >= 2
  /\ LET out == Min(FreeFds)
         err == Min(FreeFds \ {out, Min(FreeFds \ {out})})
         p   == Min(FreePipes)
         q   == Min(FreePipes \ {p})
         m   == [io EXCEPT !.table[out] = p, !.table[err] = q,
                           !.full[p] = FALSE, !.full[q] = FALSE]
     IN /\ io' = fpm_event_add(fpm_event_add(m, <<c, "stdout">>, out), <<c, "stderr">>, err)
        /\ mine' = [mine EXCEPT ![<<c, "stdout">>] = p, ![<<c, "stderr">>] = q]
        /\ writers' = [writers EXCEPT ![p] = {"worker"}, ![q] = {"worker"}]
        /\ copies' = [k \in Pipe |-> IF Open(m, k) THEN copies[k] \cup {c} ELSE copies[k]]
  /\ rec' = [rec EXCEPT ![c] = "listed"]
  /\ proc' = [proc EXCEPT ![c] = "run"]
  /\ UNCHANGED <<loopVars, leftopen, boundVars>>

-----------------------------------------------------------------------------
(* One turn of fpm_event_loop.                                             *)

Ready == {e.ev : e \in {r \in io.epoll : io.full[r.pipe] \/ writers[r.pipe] = {}}}

\* epoll_wait returns what is ready, or nothing after its timeout.
Wait ==
  /\ phase = "wait"
  /\ bunch' = Ready /\ sigready' = chld
  /\ phase' = "fire"
  /\ UNCHANGED <<io, rec, mine, chld, bury_timer, kernelVars, leftopen, boundVars>>

\* fpm_got_signal, 'C': the burial is left to a timer.
GotChld ==
  /\ phase = "fire" /\ sigready
  /\ sigready' = FALSE
  /\ chld' = FALSE /\ bury_timer' = TRUE
  /\ UNCHANGED <<io, rec, mine, phase, bunch, kernelVars, leftopen, boundVars>>

\* The event of a worker's pipe is fired.
Said(x) ==
  /\ phase = "fire" /\ x \in bunch
  /\ bunch' = bunch \ {x}
  /\ io' = fpm_stdio_child_said(io, x)
  /\ UNCHANGED <<rec, mine, phase, sigready, chld, bury_timer, kernelVars, leftopen, boundVars>>

Fired ==
  /\ phase = "fire" /\ bunch = {} /\ ~sigready
  /\ phase' = "timers"
  /\ UNCHANGED <<io, rec, mine, bunch, sigready, chld, bury_timer, kernelVars, leftopen, boundVars>>

\* The burial timer: fpm_children_bury starts.
BuryTimer ==
  /\ phase = "timers" /\ bury_timer
  /\ phase' = "bury" /\ bury_timer' = FALSE
  /\ UNCHANGED <<io, rec, mine, bunch, sigready, chld, kernelVars, leftopen, boundVars>>

\* waitpid returns the worker of c.
Bury(c) ==
  /\ phase = "bury" /\ proc[c] = "zombie"
  /\ proc' = [proc EXCEPT ![c] = "none"]
  /\ rec' = [rec EXCEPT ![c] = "closed"]
  /\ io' = fpm_child_close(io, c)
  /\ leftopen' = (leftopen \/ \E s \in Stream : io.fd[c, s] # NoFd /\ writers[mine[c, s]] # {})
  /\ UNCHANGED <<mine, loopVars, writers, copies, boundVars>>

\* waitpid returns nothing any more.
BuryDone ==
  /\ phase = "bury" /\ \A c \in Child : proc[c] # "zombie"
  /\ phase' = "timers"
  /\ UNCHANGED <<io, rec, mine, bunch, sigready, chld, bury_timer, kernelVars, leftopen, boundVars>>

\* The timer ev_free of a closed record, a second after the burial: by then
\* no worker still holds the copies it inherited before.
FreeTimer(c) ==
  /\ phase = "timers" /\ rec[c] = "closed"
  /\ \A s \in Stream : copies[mine[c, s]] = {}
  /\ rec' = [rec EXCEPT ![c] = "none"]
  /\ io' = fpm_postponed_child_free(io, c)
  /\ mine' = [x \in Ev |-> IF x[1] = c THEN 0 ELSE mine[x]]
  /\ UNCHANGED <<loopVars, kernelVars, leftopen, boundVars>>

\* The next turn; timers that are not due yet stay.
TimersDone ==
  /\ phase = "timers"
  /\ phase' = "wait"
  /\ UNCHANGED <<io, rec, mine, bunch, sigready, chld, bury_timer, kernelVars, leftopen, boundVars>>

-----------------------------------------------------------------------------
(* Workers, their descendants and the kernel.                              *)

\* Worker c gives up its copies of read ends; a pipe closed by the master
\* meanwhile leaves the epoll set with its last copy.
DropCopies(c) ==
  /\ copies' = [p \in Pipe |-> copies[p] \ {c}]
  /\ io' = [io EXCEPT !.epoll = {e \in @ : Open(io, e.pipe) \/ copies'[e.pipe] # {}}]

\* fpm_stdio_child_use_pipes and fpm_cleanups_run(FPM_CLEANUP_CHILD).
Settle(c) ==
  /\ proc[c] = "run" /\ \E p \in Pipe : c \in copies[p]
  /\ DropCopies(c)
  /\ UNCHANGED <<rec, mine, loopVars, proc, writers, leftopen, boundVars>>

Held(c) == {mine[c, s] : s \in Stream} \ {0}

\* A worker dies, at any time.
Die(c) ==
  /\ proc[c] = "run" /\ ndeaths < MaxDeaths
  /\ ndeaths' = ndeaths + 1
  /\ proc' = [proc EXCEPT ![c] = "zombie"]
  /\ chld' = TRUE
  /\ writers' = [p \in Pipe |-> IF p \in Held(c) THEN writers[p] \ {"worker"} ELSE writers[p]]
  /\ DropCopies(c)
  /\ UNCHANGED <<rec, mine, phase, bunch, sigready, bury_timer, leftopen, ndescendants>>

\* A script starts a process that outlives it, with some of its output.
Descend(c) ==
  /\ proc[c] = "run" /\ \A p \in Pipe : c \notin copies[p]
  /\ ndescendants < MaxDescendants
  /\ ndescendants' = ndescendants + 1
  /\ \E S \in SUBSET Held(c) :
       /\ S # {}
       /\ writers' = [p \in Pipe |-> IF p \in S THEN writers[p] \cup {"descendant"}
                                               ELSE writers[p]]
  /\ UNCHANGED <<io, rec, mine, loopVars, proc, copies, leftopen, ndeaths>>

DescendantEnds(p) ==
  /\ "descendant" \in writers[p]
  /\ writers' = [writers EXCEPT ![p] = @ \ {"descendant"}]
  /\ UNCHANGED <<io, rec, mine, loopVars, proc, copies, leftopen, boundVars>>

\* Somebody writes; without a reader the write fails.
Write(p) ==
  /\ writers[p] # {} /\ (Open(io, p) \/ copies[p] # {})
  /\ ~io.full[p]
  /\ io' = [io EXCEPT !.full[p] = TRUE]
  /\ UNCHANGED <<rec, mine, loopVars, kernelVars, leftopen, boundVars>>

-----------------------------------------------------------------------------
LoopStep ==
  \/ Wait \/ GotChld \/ (\E x \in Ev : Said(x)) \/ Fired \/ BuryTimer
  \/ (\E c \in Child : Bury(c)) \/ BuryDone \/ TimersDone

Next ==
  \/ LoopStep
  \/ \E c \in Child : fpm_children_make(c) \/ FreeTimer(c) \/ Settle(c) \/ Die(c) \/ Descend(c)
  \/ \E p \in Pipe : DescendantEnds(p) \/ Write(p)

Spec == Init /\ [][Next]_vars

\* The loop turns, and its timers are due in the end.
FairSpec ==
  /\ Spec
  /\ WF_vars(LoopStep) /\ SF_vars(BuryTimer)
  /\ \A c \in Child : SF_vars(FreeTimer(c)) /\ WF_vars(Settle(c))

-----------------------------------------------------------------------------
(* Correctness.  A descendant of a dead worker that keeps its output open  *)
(* breaks most of it (fpm_child_close then keeps a number it has closed),  *)
(* so the properties say: in no other way.                                 *)

\* No event outlives its record: none in the bunch that wait has returned,
\* in the queue or in the epoll set (the comment in fpm_got_signal).
NoUseAfterFree ==
  \A x \in bunch \cup io.queue \cup {e.ev : e \in io.epoll} : rec[x[1]] # "none"

\* A number in a record is the read end of the record's own pipe, so that
\* nobody reads or closes the pipe of another worker.
DescriptorsOwned ==
  ~leftopen => \A x \in Ev : io.fd[x] # NoFd => io.table[io.fd[x]] = mine[x]

\* The pipes of a running worker are open and watched under its own events:
\* its writes do not fail, and they are heard.
WorkersHeard ==
  ~leftopen => \A x \in Ev : proc[x[1]] = "run" =>
    \E n \in Fd : io.table[n] = mine[x] /\ [fd |-> n, pipe |-> mine[x], ev |-> x] \in io.epoll

\* What a worker has written is in the log or in a pipe that is still open:
\* its last words are not thrown away when it is buried.
OutputKept ==
  ~leftopen => \A p \in Pipe : io.full[p] => Open(io, p)

\* Every open descriptor is named by a record, through all deaths.
NoLeak ==
  \A n \in Fd : io.table[n] # 0 =>
    \E x \in Ev : rec[x[1]] # "none" /\ io.fd[x] = n

\* A pipe with something in it is read, or its master has closed it.
OutputRead == \A p \in Pipe : io.full[p] /\ Open(io, p) ~> ~io.full[p] \/ ~Open(io, p)

\* Every record is freed in the end after its worker has died.
RecordsFreed == \A c \in Child : proc[c] = "zombie" ~> rec[c] = "none"

\* Records, descriptors and pipes belong together one to one: nothing of
\* another worker's is touched, running workers are heard, nothing leaks
\* (fpm_stdio_child_said and fpm_child_close give them up in either order).
StreamsOwned == DescriptorsOwned /\ WorkersHeard /\ NoLeak

\* A death is settled in the end: its last output is read and its record freed
\* (fpm_postponed_child_free).
StreamsSettle == OutputRead /\ RecordsFreed
=============================================================================
