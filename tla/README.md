# A TLA+ model of swoole-cli

swoole-cli is a static PHP binary: php-src with swoole, a CLI that is also a
FastCGI server (`swoole-cli -P`), and the scripts that build it.  Most of the
tree is php-src at a release.  This project models the parts whose correctness
rests on the order in which things happen: FPM, which manages the processes
(`src/sapi/cli/fpm/`); the opcode cache those processes share; in the engine
the deferred signals, the fibers and the cycle collector; the signals of pcntl;
and of the build scripts the choice of what is built.

## 1. Inventory

| Part | State | Operations | Hard behaviour |
|---|---|---|---|
| process control (`fpm_process_ctl.c`, `fpm.c`) | `fpm_state`, `fpm_signal_sent`, escalation timer, `idle_spawn_rate` | reload, finish, terminate, escalate, idle maintenance, on-demand spawn, request timeout, re-exec | requests that override each other, timers that race deaths, spawning while leaving |
| children (`fpm_children.c`, `fpm_worker_pool.c`) | child lists, two hand-kept counters, the ring of last faults | fork, link, bury, restart, emergency restart | fork that fails half way, merged SIGCHLD, postponed burial |
| signals (`fpm_signals.c`) | self-pipe, masks, `in_shutdown` of a worker | `sig_handler`, `sig_soft_quit` | a signal around fork, lost characters |
| event loop (`fpm_events.c`, `events/*.c`) | fd queue, timer queue | add, delete, fire | events collected before and fired after a change |
| scoreboard (`fpm_scoreboard.c`, `fpm_request.c`, `fpm_atomic.h`) | shared memory: slots, totals, three kinds of lock | allocate, free, stage changes, begin/commit, copy | unlocked reads, crashes inside a lock, bounded waits |
| worker loop (`fpm_main.c`, `main/fastcgi.c`) | connection, stage | accept, poll, read, finish, leave | stage that lags behind the connection |
| worker output (`fpm_stdio.c`, `zlog.c`) | pipes, log streams | read, flush, close | descriptors reused while a record still names them |
| configuration (`fpm_conf.c`) | pool records | load, check | start-up only |
| opcode cache (`ext/opcache/ZendAccelerator.c`) | shared memory, restart flags, three bytes locked with fcntl | read, store, invalidate, schedule, empty, kill lockers | a restart while others read, a crash in the middle of it |
| deferred signals (`Zend/zend_signal.c`) | section depth, queue, saved handlers | section, defer, handle, request start and end | a signal between a load and its store, a bailout in a section |
| pcntl (`ext/pcntl/pcntl.c`) | lists of signal records, the flag of the virtual machine | handler, register, dispatch, mask | a list changed from a signal handler, handlers that throw |
| fibers (`Zend/zend_fibers.c`) | contexts, callers, pending exception | start, resume, throw, suspend, destroy, bailout | destroying while an exception is pending, nesting through callbacks |
| cycle collector (`Zend/zend_gc.c`, `zend_objects_API.c`) | counters, colours, root buffer | release, mark, scan, collect, destruct | destructors that change the heap in the middle |
| generators (`Zend/zend_generators.c`) | tree of delegation, current leaf and root | yield, yield from, resume, throw, destroy | delegates aborted or destroyed under their delegator |
| output layers (`main/output.c`) | stack of handlers | start, write, flush, clean, end | a handler that changes the stack it is called from |
| development server (`php_cli_server.c`) | clients, poll set, worker processes | accept, parse, send | callbacks that close clients |
| build scripts (`sapi/src/Preprocessor.php`) | extension and library lists | options, builder files, loaders, sort | order of options, recursion over what files list |

The processes interact as follows.  The FPM master runs one thread in
`fpm_event_loop`; its handlers are called for the self-pipe, for a listening
socket of an ondemand pool, for worker pipes and for timers.  It acts on workers
only through `fork` and `kill`, and learns about them through `waitpid` and the
scoreboard, which workers write without telling it.  Clients only meet the
listen queue.  Workers meet each other in the scoreboard and in the opcode
cache, and nowhere else.  Inside a process there is one thread, interrupted by
signals and by program code that the engine calls in the middle of its own work:
destructors, signal handlers, callbacks.

What makes the parts correct:

- FPM: no limit is passed, no process is left behind, every death is noticed, a
  stop is neither lost nor weakened nor endless, and shared memory stays usable
  although anyone may die anywhere;
- opcode cache: nobody has the memory emptied under him, and the cache comes back;
- signals, of the engine (those of `zend_sigs`) and of pcntl: none runs where it may
  not, none is lost but in the named ways, no storage for them is lost;
- fibers: exactly one context runs, every other waits for a live one, exceptions
  are not lost on the way;
- collector: counters are exact, nothing reachable is freed, all garbage is found;
- build: what is built is what was asked for and what that needs, no more.

## 2. Modules

| Module | What it is |
|---|---|
| `FpmSupervisor` | what the process manager promises, without how |
| `FpmMaster` | the master, its workers and the kernel between them |
| `FpmMaster_refines` | the mapping under which `FpmMaster` implements `FpmSupervisor` |
| `MCFpmMaster` | pool configurations and symmetry for TLC |
| `FpmMaster_proofs` | theorems about `FpmMaster` and the refinement |
| `FpmScoreboardLock` | the locks of one pool's scoreboard at the grain of memory accesses |
| `FpmStdio`, `MCFpmStdio` | what the master holds of its workers' output: records, events, descriptors, epoll, pipes |
| `OpcacheRestart` | how the processes of a pool share the opcode cache and empty it |
| `ZendSignal` | deferred signals of the engine |
| `Pcntl` | signal handlers written in PHP |
| `ZendFiber` | fibers, exceptions across them, blocked switching |
| `ZendGC`, `MCZendGC` | reference counters and the cycle collector |
| `Preprocessor` | extensions and libraries of a build |
| `MCParts` | `ZendSignal`, `Pcntl`, `ZendFiber` and `Preprocessor` side by side for TLC |
| `FpmScoreboardLock_proofs`, `FpmStdio_proofs`, `OpcacheRestart_proofs`, `ZendFiber_proofs`, `ZendGC_proofs`, `Preprocessor_proofs` | theorems about the modules of these names |
| `Signals_proofs` | theorems about `ZendSignal` and `Pcntl` |

The three FPM models are of one program at three grains and share no variable:
`FpmMaster` leaves out locks and pipes, `FpmScoreboardLock` leaves out
who is forked when, `FpmStdio` leaves out states, limits and signals.  The other
parts run inside a worker or beside it and touch none of that state.  In all
modules a variable or field has the name it has in the code where there is one,
and a variable marked as history is read by properties only.

### FpmSupervisor and FpmMaster_refines

`FpmSupervisor` has four variables: what is asked of the master (`state`),
whether it is up, about to re-execute itself or gone (`phase`), and for each
worker its pool and whether it lives, is dead or does not exist.  Workers are
forked in normal operation only and within the limits, die by themselves, are
reaped once; requests only grow stronger; the master leaves when no worker is
left, and re-executes itself only for a reload.

Under the mapping the state and the lists of children are the master's own, a
worker's status is what the kernel knows of its process, and everything else is
hidden: the program counter of a handler, timers, counters, slots, pending
signals, stages, the listen queue.  So the limits follow although the master
decides by its hand-kept counters, and a slot, a counter or a list that went
wrong would show as a step that the supervisor does not have.

### FpmMaster

Variables carry the names of the code: `fpm_state`, `fpm_signal_sent`,
`pctl_event` (is the timer armed), `running` and `running_all`
(`wp->running_children`, `fpm_globals.running_children`), `idle_spawn_rate`,
`free_proc`, `procs[p][i]` (a slot's stage, or "free"), and per process
`child_wp`, `idle_kill`, `scoreboard_i` (the fields of `fpm_child_s`), `proc`
(what the process is doing), `sigs` (pending signals), `in_shutdown`.

A handler of the master is one step unless something else can happen in the
middle of it.  `fpm_children_make` forks several children, and each runs at
once; `fpm_children_bury` reaps one child after the other while more die;
maintenance goes through the pools.  So `mpc`, `wp`, `max` and `ret` say which
handler the master is in, the pool it is at, and the bound and the caller of
`fpm_children_make`; each fork, each reaped child and each pool is a step.
Everything a handler does besides is in the step: `BuryChild`, for example,
unlinks, frees the slot and the record, counts the fault and calls
`fpm_children_make`.

Workers go through `born` (signals blocked), `up`, `idle` (in `accept()`, stage
"accepting"), `conn` (connection accepted, still stage "accepting", polling),
`busy`, and die as `exited`, `killed` or `fault`; a dead one is a zombie until
`waitpid` returns it.

Abstractions:
- time: an armed timer may fire at any moment, a timeout comparison has either
  outcome, faults of the emergency restart may or may not have become too old;
- stages: "reading" to "finished" are one value "active", for the process
  manager only asks whether a worker is accepting;
- the characters of one read loop of `fpm_got_signal` are separate steps;
- several SIGCHLDs count as one (`chld`), as `fpm_got_signal` treats them;
- SIGINT is SIGTERM (the code treats them alike); SIGUSR1 only reopens logs and
  is left out, as are slow-log traces; the pipes of workers are in `FpmStdio`.

### FpmScoreboardLock

Every process has a program counter, an operation, the slot it works at, the
value of `reader_count` it has loaded and the turns it has waited.  One step is
one access that others can see.  `scoreboard->lock` is not a variable: it is
only taken with `fpm_spinlock(lock, 1)`, one compare-and-swap whose result
nobody uses, and given back unconditionally; it excludes nobody.
`reader_count += 1` and `-= 1` are a load and a store.  In
`fpm_scoreboard_readers_decrement` the test and the decrement use one load, as
compiled with optimisation; a build without optimisation loads twice, and then
`reader_count` may wrap around.

Four history variables record the events that the code tolerates: a writer let
in by its timeout or overrun by a foreign commit (`overrun`), a writer that died
(`lost_writer`), a reader that died inside a slot (`lost_slot`), a slot freed
with somebody inside (`freed_under`).  The properties say that exclusion fails in
no other way.

### FpmStdio

For pools with `catch_workers_output`.  `io` is one record that the functions of
`fpm_events.c`, `fpm_stdio.c` and `fpm_children.c` take from one value to the
next, so that `fpm_child_close` can be written as the code is: for each stream,
`fpm_stdio_child_said` and then `close`.  It holds the descriptor table, the
epoll set, `fpm_event_queue_fd`, the `fd_stdout`/`fd_stderr` of each record, the
`fd` and `index` of each event, and which pipes hold unread bytes.  A registration
in epoll belongs to a number *and* a pipe and carries the address of an event, as
in the kernel: it outlives `close` while a forked worker has a copy of the read
end.  Numbers are given out lowest first and again; a `Child` is the memory of a
record and used again after `free`.

One turn of the loop: `Wait` collects what is ready, the events are fired in any
order (`GotChld`, `Said`), then timers run in any order (`BuryTimer` with one
`Bury` per `waitpid`, `FreeTimer`), and the turn ends.  `fpm_children_make` may come
in any callback.

- A failed `pipe`, `fork` or `epoll_ctl` of `fpm_children_make` gives everything
  back and is no step.
- Time: timers may wait for a later turn, but `FreeTimer`, a second after the
  burial, is taken to come after the workers forked before the burial have closed
  the read ends they inherited (`fpm_cleanups_run` in the child).  Nothing in the
  code waits for them; without the assumption a worker that is stopped for a
  second right after its fork would leave a registration of freed memory behind.
- A script may start a process that outlives its worker and keeps its output
  open.  `fpm_child_close` then closes a descriptor whose number and event it
  keeps, and `fpm_postponed_child_free` closes the number again a second later,
  when it may be a new worker's.  The history variable `leftopen` says that this
  has happened.  `NoUseAfterFree` and `NoLeak` hold all the same; the other
  safety properties say that ownership breaks in no other way.
- The bytes, the flush command in them and the log streams are left out: a pipe
  is empty or not.

### OpcacheRestart

`ZCSG` are the shared globals, `ZCG[p]` those of a process, `lock` who holds the
three bytes of the lock file, `pc[p]` where a process is.  One step is one access
to shared memory or to a lock.  `accel_activate` decides on a restart, puts it off
or kills those that hold byte 1 (one `kill` per step); `persistent_compile_file`,
`zend_accel_invalidate` and `opcache_reset` are the ways a request meets the
cache.  The cache holds one script, and what a process got from it is named by
the number of restarts before it, so that a script from an emptied cache is seen.
A process may crash anywhere (its fcntl locks go with it), hang in a request, or
escape a `kill` that fails.

The code itself lets two kinds of process through: one between its checks and the
lock of byte 1 at the moment a restart is decided on, and one that starts while the
restart runs.  The history variable `late` holds exactly these, and `past` what no
restart makes good (a death in the middle of one, a round of killing that is over).
`ScriptsStay`, `CacheComesBack` and `RestartHappens` hold for all others.

Left out: the file cache, preloading, the optimizer, the JIT, the layout of the
shared memory, threads that share the locks of a process.

### ZendSignal

`SIGG` is the record of signal globals.  A section begins with `depth++` and ends
with `depth-- == blocked`, a load, a store and a comparison, each a step with
signals in between; `zend_signal_handler_unblock` is a loop of several.
`zend_sigaction`, activation and deactivation of a request, a bailout out of a section
and a second request are actions too.  `SignalsDeferred` says that no handler runs
inside a section and that what waited is handled when the last section ends;
`SignalQueueOK` that no storage of the queue is lost over the requests and that a
signal that reached the process is accounted for.

The signals of the model are those of `zend_sigs` (`zend_signal.c:74`), the seven that
every request registers.  `global_sigmask` has all of them, so none comes while the
handler of another runs: `zend_signal_handler_defer` is one step, and `SIGG(running)`,
which it would always find clear, is left out.  That is a restriction of the model, and
all that is checked and proved about `ZendSignal` holds under it only.  The code takes
more: `zend_sigaction` installs the same handler for any signal, `pcntl_signal` calls it
with any, and SIGCONT, SIGTSTP, SIGTTIN, SIGTTOU and the signals of faults are not in the
mask (`zend_signal.c:423-440`).  One of these that comes while a handler runs is silently
dropped (line 105), and one that comes while another signal is being queued can take the
same spare entry (lines 125 to 137), so that `SignalsKept` and `StorageConserved` are not
true of a program with such a handler.  The hazard is listed without a property.  A
signal that is in the mask but not in `zend_sigs`, SIGCHLD for one, would use the queue
in the same way; it is left out because no request registers it again, and because its
default action need not end the process.

Left out besides: `SA_RESETHAND` (each signal of the model is sent once), `SIGG(check)`,
`SIGG(reset) = 0`, threads, handlers with sections of their own.

### Pcntl

The C handler takes a record off the spare list and appends it to the queue; the
program walks the same lists.  Where it does so with signals masked it is one step,
where it does not (`pcntl_signal` builds the spare list while an earlier handler may
already be installed) every store is one.  Handlers are program code: they may
throw, end the script, change the mask, and signals come while they run.
`AsyncCalled` says that with asynchronous signals a queued one is handed over in the
end; `PcntlQueueOK` that each record is in one place and that signals are lost in
the named ways only.  Those are kept in the history variable `marred`: a signal
that came between the two stores by which a record is put into a list, a handler
that unblocked signals, a dispatcher left by a bailout.

Left out: several signal numbers, the functions that wait, `fork`, functions that
wrap one system call.  When a raced list has lost a record the model stops, for the
C code then reads an unlinked record.

### ZendFiber

Contexts are main and the fibers; `frame[c]` is the C function a context is
suspended in, `transfer` what a switch carries, `mode` what the running context
does: run, unwind an exception, unwind a bailout, or look at the transfer it has
just been given (`Land`).  An exception is the set of throwables in its chain of
`previous`, so that losing one is visible.  `Destroy` may come from any context that
drops its last reference, with an exception pending or not; `BlockSwitching` stands
for the callbacks that run with switching blocked: functions registered for ticks and
signal handlers.  The destructors that a collection calls are not among them; they run
in a fiber of their own, which is left out.
`FibersOK` says that the contexts that have neither ended nor been suspended form
one chain from the running one to main, that stacks are freed when and only when no
context can run on them, that a fiber whose destructor was called is not left
suspended, and that switching is blocked exactly while callbacks run;
`NoExceptionLost` that a throwable is pending, carried, caught or given up as the
language defines; `SwitchesRight` that each switch goes to a live context, and that
a fatal error reaches main.

Left out: values that are transferred, observers, the stacks of the virtual machine,
the fiber in which the collector calls destructors.

### ZendGC

Objects have a counter, a colour and the tag of their slot in the root buffer;
`prop` are references between them and `variables` those of the program, which is
any that uses only what it can reach.  `calls` is the stack of C calls under way:
deletion by the counter, a collection, a destructor inside either, in which the
program goes on.  The passes of the collector run no program code and are one step
each, except `gc_scan`, which takes the roots in any order: what it finds must not
depend on it.  Garbage with a destructor becomes a root of the next run, and what its
destructor can see leaves the garbage of this one; the destructors then run, one after
the other, and the collector once more.

`RefcountsExact`: outside the passes each counter is the number of references.
`NothingLiveFreed`: what the program can reach, from a running destructor too, is not being destroyed,
nor is it among the garbage once destructors run.  `GarbageRooted`: between calls all garbage hangs on
a buffered object, so a collection can find it.  `DestroyedRight`: a collection
without destructors ends with all garbage freed, and no destructor is called twice.

Left out: arrays and references as kinds of their own, weak maps, roots in temporary
variables, destructors in a fiber, growth and compression of the buffer,
`gc_protected`.

### Preprocessor

`parseArguments` and `execute` as stages; the options `+` and `-` change a list with
duplicates as `array_push` and `array_search` do; a builder file is read at most
once and lists what TLC chooses then; `calls` is the stack of the recursive loaders.
A cycle among files makes them recurse to the memory limit, which is a stage of its
own. `BuildRight`: a build has exactly what was asked for and what that needs; a
cycle is never built; an option `+` that comes last leaves the extension on, and one
switched off and never on again is off.

Left out: downloads and hashes (one failure stands for all), other options,
package names, generated files.

### MCParts

These four components share no state, so a state of all together would say nothing
that one of each does not.  `component` picks the one that runs in a behaviour.
Deadlock is not checked there because each may really stop: the process dies by a
signal, a raced list of pcntl ends in undefined behaviour, a build ends.

## 3. Runs

| Run | Configuration | Shows |
|---|---|---|
| `FpmDynamic` | dynamic, 2 processes, spawn rate 2, 1 signal, 1 fault, request timeout, emergency restart at 1 | `TypeOK`, `CountersExact`, `SlotsExact`, `ZombiesNoticed`, `EveryChildSignalled`, `KillOnlyAfterWarning`, `NeverWeakened` |
| `FpmPools` | static(1) and ondemand(2), `process_max` 2, 3 pids, 1 signal, 1 fault | `NoOrphans`, `EveryChildSignalled`, `ImplementsSupervisor` |
| `FpmLeave` | static(2), 1 signal, requests need not end | `MasterProgress`: a stop or reload completes (`LeaveCompletes`), the dead are reaped (`Reaped`) |
| `FpmServe` | dynamic(2), 2 faults, requests end | `ServeProgress`: waiting connections are taken (`QueueServed`), the pool returns to its minimum (`SpareRestored`) |
| `FpmLock` | 1 worker and the master, 2 retries, 3 status pages, 3 deaths | `TypeOK`, `NoStuckWriter`, `WritersExclusive`, `SlotLocksRight`, `WaitsEnd` |
| `FpmStdioSafe` | 2 records, 2 deaths, 1 descendant | `TypeOK`, `NoUseAfterFree`, `StreamsOwned`, `OutputKept` |
| `FpmStdioLive` | 2 records, 1 death | `StreamsSettle`: output is read, records are freed |
| `OpcacheRestart` | 2 processes, 2 restarts, 1 death, 1 hanging request, 1 refused kill | `TypeOK`, `ScriptsStay`, `CacheComesBack`, `RestartHappens` |
| `ZendGC` | 3 objects, 2 with destructors | `GCTypeOK`, `RefcountsExact`, `NothingLiveFreed`, `GarbageRooted`, `DestroyedRight` |
| `Parts` | 3 signals of `zend_sigs` and a queue of 2 over 2 requests; 4 records, 3 signals sent; 2 fibers, 2 throwables; 2 extensions, 2 libraries | `PartsTypeOK`, `SignalQueueOK`, `SignalsDeferred`, `PcntlQueueOK`, `AsyncCalled`, `FibersOK`, `NoExceptionLost`, `SwitchesRight`, `BuildRight` |
| `FpmOndemandLost` | ondemand, 2 processes, no fault, no signal | `QueueServed` **fails** |
| `FpmLockReader` | 2 workers, no death | `ReaderWaitsForWriter` **fails** |

Bounds of FPM.  Two processes make every interplay of a dying, a starting and a
running child; the third of `FpmPools` is needed for two pools.  The spawn rate
doubles beyond one when a fork fails or the new worker is busy at once.  One
operator signal starts a stop or a reload, and the emergency restart or the escalation
is the second request that meets it; any number of signals is covered by `StopIsFinal`.  `MaxFaults` counts crashes, failed child
inits and failed forks, not kills or normal exits, which are free; `FpmServe` needs
two, a crash and a failed fork of the replacement, for a dynamic pool to fall below
its minimum.  One waiting connection (`Backlog = 1`) is a full queue.  `MaxRetries`
stands for `FPM_SCOREBOARD_SPINLOCK_MAX_RETRIES` (50000): what matters is that a
wait may succeed late or end.  `FpmLock` has one worker, so a worker that copies the slot
of another one while the master frees it is not in that run (two workers with fairness
are too many states); `SlotLocksCorrect` proves `SlotLocksRight` for any number.  Eight descriptors and pipes are enough for two
records with two streams: the write ends take numbers only during
`fpm_children_make`. `MaxDeaths` bounds the state space, and in the liveness runs
also a storm of deaths that would keep `fpm_children_bury` in its loop for ever.
Process symmetry is used in runs without liveness only.

Bounds of the others.  `OpcacheRestart`: two processes are one that empties and one
that uses the cache, and the second restart meets what the first left.  The case in
which a killer's round is over before a third process locks byte 1 and hangs needs
three; with three processes, one restart and one hang TLC finds no error in 4.7
million states, too many for a regular run.  `ZendGC`: three objects make a cycle
with a tail, or a cycle with an object that refers into it; two destructors can
resurrect each other's objects.  `MaxNested` destructors one in the other run
program code; deeper ones only return.  `ZendSignal`: three signals overflow a queue
of two, and the second request meets the storage the first one left.  `Pcntl`: with
`num_signals = 2` four records are two spare, one with `pcntl_signal` and one more.
`ZendFiber`: two fibers nest, resume and destroy each other; a second throwable is
the one a destroyer has pending. `Preprocessor`: two of each are a cycle, a
shared dependency, and a chain from an extension over another one to a library; a chain
of three extensions needs a third, and there the theorem `BuildsRight` says it.

### The two disagreements

`FpmOndemandLost`: a comment in `fpm_pctl_on_socket_accept`
(`fpm_process_ctl.c:541`) says that an idle child "will handle the connection".
The worker that counts as idle may have been sent SIGQUIT by idle maintenance
just before; it leaves `accept()` without the connection, it is not replaced
because it was an idle kill, and as the socket is edge-triggered nothing wakes
the master until another connection comes.

`FpmLockReader`: a comment in `fpm_scoreboard_acquire` (`fpm_scoreboard.c:292`)
says "increment reader if no writer active".  The lock around the test and the
increment is tried once and the result ignored, so a writer may become active in
between.

Five more places where the code is less than one would expect are modelled as the
code is, and named in the properties and hazards that meet them: `pcntl.c:1419` says
that the queue is empty while signals are dispatched, and a handler that changes the
mask fills it; `zend_signal.c:162` takes the head of a queue that a signal may have
emptied since the test; the force timeout of opcache serves one round of killing; a
cycle among builder files exhausts the memory before `CircularDependencyException`
can be thrown; and `+x -x` leaves `x` on when it was on before.

## 4. Fairness

`FairSpec`: the master runs the handler it is in (WF).  One turn of
`fpm_event_loop` serves every ready descriptor and every due timer, so a
callback that is due again and again is called (SF on each callback).  Worker
processes are scheduled (WF on each worker's own steps and on taking a pending
signal), and if some worker of a pool can always accept, one of them does.
Nothing is assumed about crashes, operators and clients.  A request need not end;
`ServingSpec` adds that it does, for the properties about serving.
In `FpmScoreboardLock`, processes inside an operation run, a spin that finds its
lock free again and again takes it, and the master reaps dead workers.

In `FpmStdio` the loop turns, a forked worker comes to close what it inherited,
and timers fire in the end although many turns pass before they are due (SF).

In `OpcacheRestart` processes run what the code does by itself (WF of `Step`),
requests that do not hang end whatever they include before (SF of `EndRequest`), and
the timeout becomes due.  In `ZendSignal` the program goes on (WF) and a loop that
meets section after section comes to the end of one (SF).  In `Pcntl` the steps of
`pcntl_signal` and of the dispatcher are taken (WF), and a program that runs reaches
an interrupt check, or the end of the handler it is in (SF).  In `ZendFiber` a
switch lands and an unwinding bailout goes on (WF); nothing is assumed of programs.
`Preprocessor` and `ZendGC` state no liveness.

## 5. Proofs

Eight modules hold theorems, for every number of processes, pools, workers, fibers,
signals, builder files and so on, and every bound.  Each `_proofs` module has the
same order: the inductive invariant as named parts, lemmas about operators and data,
one lemma per action, the theorems.  The invariants were checked by TLC before they
were proved.

| Property | Theorem | Module |
|---|---|---|
| `TypeOK`, `CountersExact`, limits, `NoOrphans`, `NeverWeakened` | `TypeCorrect`, `CountersCorrect`, `LimitsRespected`, `NothingOrphaned`, `StopIsFinal` | `FpmMaster_proofs` |
| `SlotsExact`, `ZombiesNoticed`, `EveryChildSignalled`, `KillOnlyAfterWarning` | `SlotsCorrect`, `DeadAreNoticed`, `ChildrenSignalled`, `KilledAreWarned` | `FpmMaster_proofs` |
| `ImplementsSupervisor` | `Implementation` | `FpmMaster_proofs` |
| `TypeOK`, `NoStuckWriter`, `WritersExclusive`, `SlotLocksRight` | `ScoreboardTyped`, `FlagNeverStuck`, `WritersKeptApart`, `SlotLocksCorrect` | `FpmScoreboardLock_proofs` |
| `TypeOK`, `NoUseAfterFree`, `StreamsOwned`, `OutputKept` | `StdioTypeCorrect`, `NothingFreedFires`, `StreamsKeptApart`, `LastWordsKept` | `FpmStdio_proofs` |
| `TypeOK`, `ScriptsStay`, `CacheComesBack` | `OpcacheTypeCorrect`, `ScriptsProtected`, `CacheReenabled` | `OpcacheRestart_proofs` |
| `SignalTypeOK`, `SignalQueueOK`, `NoHandlerInSection` | `SignalTypeCorrect`, `QueueInOrder`, `HandlersWait` | `Signals_proofs` |
| `PcntlTypeOK`, `PcntlQueueOK` | `PcntlTypeCorrect`, `PcntlQueueCorrect` | `Signals_proofs` |
| `FiberTypeOK`, `FibersOK`, `NoExceptionLost`, `SwitchesToLive` | `FiberTypeCorrect`, `FibersCorrect`, `ExceptionsKept`, `SwitchesLive` | `ZendFiber_proofs` |
| `GCTypeOK`, `RefcountsExact`, `NothingLiveFreed`, `GarbageRooted`, `DestroyedRight` | `GCTypeCorrect`, `RefcountsStayExact`, `LiveIsNotFreed`, `GarbageStaysRooted`, `CollectsAndDestroysRight` | `ZendGC_proofs` |
| `PreprocessorTypeOK`, `BuildRight`, nothing is left for `sortLibrary` to refuse | `BuildTypeCorrect`, `BuildsRight`, `NothingIsRefused` | `Preprocessor_proofs` |

Process manager.  `IInv == TypeOK /\ FrameOK /\ Listed /\ CountersExact /\ LimitsOK`.
`TypeOK` is not inductive alone: a decrement keeps a counter natural only if the
counter is the size of a list that holds the child (`CountersExact`), and a slot
index is a slot only for a listed child (`Listed`: a process exists if and only
if it is listed, and then its slot index lies in its pool).  `FrameOK` ties
`mpc`, `wp` and `ret` together, `LimitsOK` bounds `max` and the counters by the
configuration.  The later theorems classify the steps by what they can disturb:
only four kinds show in the slots (`SlotStep`); every step either leaves no new
zombie and keeps going towards the burial, or is a death that raises `chld`
(`NoticeStep`); a step sends no new signal, sends one to all, or forks while the state
is normal (`QuietStep`).  `KillOnlyAfterWarning` needs two more parts: `Armed`, the
escalation timer runs only when the master leaves, and `Warned`, a child with
`idle_kill` has had SIGQUIT, for `fpm_pctl_perform_idle_server_maintenance` kills on
`idle_kill` alone.

Refinement.  `Spec` implies `ImplementsSupervisor`, from `IInv` and `Armed` before and
after a step, with a lemma per group of actions: those that fork, reap, decide,
restart, those of workers, and those that are hidden.  A fork keeps the limits
because the counters that the master tests are the sizes of the lists.

Scoreboard locks.  `IInv` gives the types and what the local variables of a process
may be at each program counter; `WInv` adds the writers, `SInv` the slots (a slot lock
is taken if somebody is inside, and a process alone inside unless the slot was freed
under it).

Worker output.  The parts of `IInv` are predicates of a value of `io`, so that they can
be stated between two calls of one step.  `Tidy` says that a number stands for one
open pipe and that a registration belongs to a record, under the record's number while
the pipe is open here and because a worker holds a copy afterwards; it holds although
descendants keep pipes open, and gives `NoUseAfterFree` and `NoLeak`.  `OneToOne`, that
numbers, pipes, records and registrations correspond, holds while `leftopen` is false.

Opcode cache.  `UsageOK` says for each program counter who has byte 1 locked; `LateOK`,
that while a restart is under way a process outside `late` neither has it nor is on
the way to it: `ScriptsStay` is not inductive without it.  `PendingOK` and `StatusKept`
say what a restart will put back, for `CacheComesBack`.

Deferred signals.  `DrainedOK` follows the flag from the moment the end of a section
reads it to the read of the queue, `KeptOK` and `OrderOK` say where each signal that has
arrived is, and `StorageOK` allows for the two steps of the deactivation between which
an entry is on both lists.  That a handler is one step is a premise of the model, true of
the signals of `zend_sigs` and not of those outside `global_sigmask` (section 2).

Signals of pcntl.  A list is known by what `List` finds when it follows the pointers, but
no step can be reasoned about so.  `QueueOK` says instead that there are three sequences
of records, chained by `next` from `head`, `spares` and `queue` (`ListsOK`), that have no
record in common and with the one in a local variable are all that were allocated; the
lemmas `ChainTail`, `ChainCons` and `ChainAppend` say what the stores of the program do to
a chain, and `ListOfChain` that `List` finds it.  `SignalsOK` says where each signal is and
that the dispatcher's queue is ordered after what was called, but for its first record
once the handler of that has begun.  `MaskOK`, that no signal comes while the dispatcher
has the queue, makes the queue empty where `PutBack` overwrites it.  After a bailout the
dispatcher believes for ever that it is running (`PlaceOK`), so handlers stay in order
although records are lost.

Fibers.  `FibersOK` says nothing while a switch is under way; `ContextsOK` does: for each
context what its frame may be (`FrameOK`), that `caller` and frames name each other
(`CallersOK`), and what may be in flight (`LandingOK`).  That all callers lead to main is
`Acyclic`, every set of contexts has one that does not wait for a member of the set,
which survives changes of a link without an induction along the chain.

Cycle collector.  `Exact` is stronger than `RefcountsExact`: while the collector scans, a
counter is the number of references without those that come from what the marking has
taken.  With it `Scanned` can say what the colours mean half-way: what is white and done
has counter zero and nothing grey below it, what is black and done has only black below.  So
at the end of the scan, in whatever order the roots were taken, the white objects are
those that neither a variable nor a call nor another object refers to, and that is
`Isolated`: garbage is referred to by garbage only, and stays so while destructors run,
because what a destructor can see has left the garbage.  `Waiting` and `Freed` say who
holds what is about to be destroyed, `Phased` what the phase says of tags and colours, and
`Stacked` which calls can lie on which.  `Rooted` is `GarbageRooted` with the calls under
way and the references of half-freed objects as further sources, for the invariant itself
is true only when no call is under way.  `Quiet`, that without destructors all that is not garbage
is reached from outside, gives that a collection finds all.  What a pass reaches is
computed in rounds; that these end in the least closed set, by the pigeonhole principle,
is proved first (`RoundsEnd`, `RoundsWithin`), and the rest uses only that.

Build.  The loaders are recursive and their stack is a variable, so the invariant says
what a partly run recursion has done: nothing is in the map that the seed does not lead
to (`Grown`); what a name in the map lists is in the map or will be visited (`Covered`);
no cycle is left behind (`CyclesAhead`); the names the stack is for lie on a path
(`Called`).  At the end of the loops `Grown` and `Covered` are the least closed set.  A
stack deeper than there are names has one of them twice, by the pigeonhole principle, and
the path between is a cycle: so memory is exhausted only by cyclic files.  For the libraries
`VisitedOK` says the same, and `NothingIsRefused` follows: the tests of `sortLibrary` for
cycles and missing libraries never find one, because the loaders do not come back from
a cycle.

Assumptions.  The theorems use the ASSUME of each module only: that sets of processes,
signals, fibers and names are finite, sizes natural, dummies not members, and for FPM
what `fpm_conf.c` accepts.

Only model-checked:

- everything temporal that says something happens, and ENABLED, both out of the
  prover's reach: `MasterProgress`, `ServeProgress`, `WaitsEnd`, `StreamsSettle`,
  `RestartHappens`, `AsyncCalled`, and the liveness halves of `SignalsDeferred` and
  `SwitchesRight`;
- that the four parts of `MCParts`, each proved by itself, are so side by side
  (`PartsTypeOK` is the conjunction of their type invariants).

Inductions over data and RECURSIVE operators are out of reach too; the modules avoid
them by saying "least closed set", "every set has a member that" and "the least number
for which it fails" instead.

Five places were found wrong in the models, or could not be proved, and are changed.
The test of `sortLibrary` had a quantifier that reached too far, so that libraries
missing from the map could escape it; `Return` and `MemoryExhausted` could still be taken after
the program had ended with an exception; and `SwitchingUnblocked` of `ZendFiber` counted
callbacks by a fold and now by the size of a set.  `List` of `Pcntl` took the end of a
list off again with a filter and now does not put it in; and `GCAssumption` did not say that
`"none"`, the object of a call that has none, is not an object.  None of them changed a
result.

## 6. Plan

1. `ZendGenerator`: the delegation tree of `yield from`.  `zend_generator_get_current`
   recomputes the leaf from cached pointers while delegates are finished, aborted or destroyed by
   destructors in any order; the property is that a generator is resumed with
   a finished delegate only, and that the cached pointers are mutual.
2. `FpmRequest`: request timeout as copy, decision and kill, with the slow-log
   trace that stops a worker.
3. `FpmEvents`: timer queue with saved successor and computed timeout.
4. Signals outside `global_sigmask` in `ZendSignal`: the deferring handler split into its
   stores, with `SIGG(running)`, and what is lost when one of them interrupts it.
5. Output layers; the flush command in a stream of reads; `ZendGC` composed with `ZendFiber`.

## 7. Not modelled

The compilers, library extensions and streams of php-src are unchanged library code
whose behaviour is a function of its input; vendored tables and generated parsers
(encodings, time zones, the virtual machine's handlers) make up most of the tree.
FPM's ini parser, status formatting, unix and systemd glue run at start-up or have
no state.  Generators, output layers and the development server are candidates (see
the plan).  `PROJECT.json` lists every part with its reason.
