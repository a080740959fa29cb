# TLA+ models of Accordin

Accordin is a mutex library loaded with `LD_PRELOAD` and a sched_ext scheduler that
co-operate. The library replaces `pthread_mutex_*` and `pthread_cond_*` by a backend of
its own and publishes, per thread, an *admission word* of three bits. The BPF scheduler
reads that word and decides which of the threads that wait for a lock may run. A
controller in the library measures critical and outside sections and from them sets the
number of CPUs on which contending threads may run.

This directory holds the models of that system, the TLC configurations that check them
and the proofs that TLAPS checks. `PROJECT.json` says which definition stands for which
lines, lists the runs, the mutant that breaks each property, the hazards of the code and
the findings.

Paths below are relative to the repository root; `shared/` abbreviates
`src/accordin_shared/src/`.

## 1. Inventory

| Component | State it keeps | Operations | Interacts with |
|---|---|---|---|
| MCS-TAS backend (`src/mcs_tas_accordin/src/mcs_tas.rs`), default | per lock `tail`, `locked`; per thread ONE node `next`, `waiting` | `try_lock_fast`, `lock_slow`, `unlock_fast` | called by the hooks through `LockBackendAdapter` |
| MCS backend (`shared/mcs.rs`) | per lock `tail`; per thread a fixed pool of nodes with `owner_lock` | `try_lock_fast`, `lock_queue`, `unlock_queue` | same |
| Reciprocating backend (`src/reciprocating_accordin/src/reciprocating.rs`) | per lock `arv`; per thread one gate, per held lock a context | `try_lock_fast`, `acquire_context`, `unlock_with_context` | same |
| TTAS backend (`src/ttas_accordin/src/ttas.rs`) | per lock a flag | the same three | same |
| Admission word (`shared/admission.rs`) | `IN_CRITICAL_SECTION`, `SLOW_PATH_PENDING`, `SLOW_PATH_SEEN` per thread | `mark_slow_path_pending`, `mark_critical_section_entered`, `mark_critical_section_exit` | written by the backends, read by the scheduler |
| Mutex hooks (`shared/mutex_hook.rs`) | backend state inside `pthread_mutex_t`, lazily created behind `SENTINEL`; registry of threads | `pthread_mutex_*`, `accordin_register_hooked_mutex` | applications, backends, statistics |
| Condition variables (`shared/mutex_hook.rs`) | `CondState`: `seq`, `waiters` | wait, timedwait, signal, broadcast, destroy | hooked mutexes, futex |
| BPF scheduler (`src/bpf/main.bpf.c`, `intf.h`) | `task_scx_ctx` per task; owner and dispatch sequence per CPU; active mask; dispatch queues | the sched_ext callbacks, `accordin_set_active_cpus`, `accordin_nudge_cpu` | kernel, admission words, loader |
| Scheduler loader (`shared/scheduler_loader.rs`) | previous mask | load, attach, `push`, `nudge_changed_cpus` | controller, BPF syscall programs |
| Lock statistics (`shared/lock_stats.rs`) | four counters of the window, time of the last tick | record acquire and release, elect the tick, take the averages | hooks, controller |
| Concurrency controller (`shared/lock_stats.rs`, `cpu_affinity.rs`) | EWMAs, floor, limit, last count, `frozen`; active count | `run_dynamic_cpu_control_tick`, `update_dynamic_cpu_count`, `dynamic_cpu_affinity_freeze` | loader's sink |
| Timeslice extension (`shared/timeslice_extension.rs`) | one bit of the rseq area | request, clear, yield | kernel |
| Direct API (`src/mcs_tas_accordin_direct`) | a handle around the MCS-TAS backend | create, lock, unlock, destroy | same adapter |
| Benchmark campaigns (`experiments/run_experiment_three_common.py`, `_four`, `_five`, `_six`, `experiment_failures.py`) | on disk: one log per command, `commands.json`, `raw.csv`, `failed_runs.csv`, temporary files; in memory: targets, records, rows, failures | a session: check the root, build helpers, run every target, report | benchmark programs, their own files of earlier sessions |
| Sweeps and merge (`experiments/run_experiment_one.py`, `_two`, `_three`, `merge_experiment_four_results.py`, tables in `experiment_defaults.py`, `machine_config.py`) | on disk: one `raw.csv` per lock or point, combined CSV, `settings.json`, logs, manifest; in memory: a list of commands | a session; supplements; merge of result roots | the sweep scripts of `bench/mutexbench` |
| Build files, patches | none at run time | – | – |

Who calls whom: a hook calls the backend and marks the word; the scheduler's callbacks
read the word of a task by a user-memory read, at a moment the thread does not choose;
the controller pushes a mask and then makes nudge calls, one after the other, while
callbacks run; nothing of this is under a common lock.

What is hard, and what makes each part correct:

* **Backends** – hand-off between a queue and a flag or gate, pointers read before they
  are linked, nodes shared between locks, release and trylock racing with hand-off.
  Correct when at most one thread holds a lock, no waiter is lost, the queue pointers
  never belong to an earlier use, and the promised order is kept.
* **Admission word** – correct when between two calls it says exactly whether its thread
  is in a critical section.
* **Scheduler** – state in three places (task storage, owner map, user word) that no lock
  joins, changed by callbacks of several CPUs and by mask changes. Correct when one task
  is admitted per CPU, the owner entry and the task agree, a preempted critical section
  is not queued behind waiters, tasks with slow-path history stay on active CPUs, and no
  parked waiter is left behind.
* **Condition variables** – count, sequence number and futex move in separate steps.
  Correct when no thread sleeps that no later notification can reach.
* **Controller** – torn windows, election of the thread that ticks, rollback of a failed
  push. Correct when count and pushed mask agree and the count stays within its bounds.
* **Hook life cycle** – lazy creation by two threads at once, destruction right after the
  last unlock, registration of a mutex in use. Correct when all threads use the same backend state and
  no freed state is used.
* **Campaigns and sweeps** – sequential programs, but each runs for days on one result
  root and is killed, interrupted, resumed, forced or given other targets; files are
  rewritten in place and results of several sessions meet in one table. Correct when
  each row is of a finished run whose log is there, the exit code says what is in the
  files, no completed result is run again or overwritten unasked, and failures keep the
  logs that their report names.

## 2. Modules

| Module | Models | Extends / instantiates |
|---|---|---|
| `AdmissionWord` | the three bits as a set, the three marking helpers, the `ACCORDIN_DISABLE_ADMISSION` branch | – |
| `AbstractMutex` | what a backend promises: requests, grants while free, releases | – |
| `McsTasLock` | the default backend under the adapter and the hook wrappers | `AdmissionWord` |
| `McsTasLockRefinement` | the mapping of `McsTasLock` to `AbstractMutex` | `McsTasLock` |
| `McsTasLockProofs` | theorems: types, exclusion, refinement, admission word, shape of the queue, order of the slow path | `McsTasLockRefinement`, `SequenceTheorems`, `FiniteSetTheorems`, `TLAPS` |
| `LockHooks` | the hook entry points that the three alternative backends share, the life of the state behind a mutex, and the mapping to `AbstractMutex` | `AdmissionWord` |
| `McsLockState`, `ReciprocatingLockState` | the variables of two of the alternative backends and the properties stated of them | `LockHooks` |
| `McsLock`, `ReciprocatingLock`, `TtasLock` | the alternative backends | their state, `LockHooks` |
| `LockBackends` | one process, which has preloaded one of the three (`backend`) | instances of the three |
| `McsLockProofs` | theorems: for MCS, node pool, order of grants, refinement; for TTAS, one state per mutex, exclusion, refinement | `McsLock`, an instance of `TtasLock`, `FiniteSetTheorems`, `NaturalsInduction`, `WellFoundedInduction`, `SequenceTheorems`, `TLAPS` |
| `ReciprocatingLockProofs` | theorems: segments, assertions, admission, overtaking, refinement | `ReciprocatingLock`, `FiniteSetTheorems`, `TLAPS` |
| `BpfAdmission` | the scheduler, the kernel that calls it, hooked threads and the pusher of masks | `AdmissionWord` |
| `BpfOwnership` | `BpfAdmission` with a history variable, and how task storage and owner map agree | `BpfAdmission` |
| `BpfAdmissionProofs` | theorems: preempted critical sections wait locally; types and the place of each task; owners and admissions; delivery to active CPUs | `BpfOwnership`, `NaturalsInduction`, `WellFoundedInduction`, `SequenceTheorems`, `FiniteSetTheorems`, `TLAPS` |
| `CondVar` | condition variables over a futex and a hooked mutex | – |
| `CondVarProofs` | theorems: types, no lost notification | `CondVar`, `TLAPS` |
| `CpuBudget` | what the controller promises of the number of active CPUs | – |
| `CpuController` | samples, election of the tick, the tick, count, push, rollback, freeze; its refinement of `CpuBudget` | – |
| `CpuControllerProofs` | theorems | `CpuController`, `TLAPS` |
| `HarnessLocks` | lock tables and thread limits of the experiments | – |
| `ResultRoot` | the files, the process and the command logger that the campaigns share | `HarnessLocks` |
| `ParsecCampaign`, `LevelDbCampaign`, `CacheCampaign`, `HookCampaign` | experiments three (PARSEC), four, five, six | `ResultRoot` |
| `Campaigns` | one of the four programs on one root, with kills and interruptions | instances of the four |
| `CampaignsProofs` | theorems: rows and their runs, exit code, temporary files, completed runs | `Campaigns`, `SequenceTheorems`, `FiniteSetTheorems`, `NaturalsInduction`, `WellFoundedInduction`, `TLAPS` |
| `SweepRoot` | the files, the process and the external sweep script that the sweep programs share | `HarnessLocks` |
| `SweepOne`, `SweepTwo`, `SweepThree`, `MergeResults` | experiments one, two and three (sweeps), the merge tool | `SweepRoot` |
| `Sweeps` | one of the four programs on one root, with kills | the four |
| `SweepsProofs` | theorems: exit code, settled files, collected rows, failures, CPU lists, merged rows | `Sweeps`, `SequenceTheorems`, `FiniteSetTheorems`, `NaturalsInduction`, `WellFoundedInduction`, `TLAPS` |
| `MC*` | instances: sets, affinities, masks, command lines, symmetry | the module named |

### How state and actions correspond to the code

**Backends.** One action is one atomic access to shared memory, with the thread-local
work that follows it. `pc[t]` is the place in the call, `target`, `pred`, `succ`
(`node`, `waiter`, `context`) its locals. Names follow the source: `tail`, `next`,
`waiting`, `locked`; `arv` and `gate` of the reciprocating lock. A node of MCS-TAS is
named by its thread, because there is one `THREAD_NODE` per thread for all locks; a node
of MCS is a thread and an index into its pool. A release store and the load that
acquires it are one step, and relaxed stores to a node nobody can reach yet belong to
the step that publishes it. `queue` and `bypass` are history variables. Calls take any
lock the pthread contract allows; blocking calls nest in increasing order, so that a
deadlock would be the backend's. `record_lock_acquired` contributes its marking of the
word; its statistics do not appear.

**Hook life cycle.** `cell[l]` is the first word of a `pthread_mutex_t`: `"zero"` as
`PTHREAD_MUTEX_INITIALIZER` leaves it, `"SENTINEL"`, or `"state"` for the pointer to the
`HookState`. A call looks at it once (`Enter`, the load of `ensure_state`); unless it is
the pointer, the call takes the slow path: `Claim` is the `compare_exchange` from 0 to
`SENTINEL`, after which this thread allocates and stores (`Publish`), and `Found` is the
end of the loop in which the others read again. `pthread_mutex_init` and
`pthread_mutex_destroy` happen to a mutex that no thread holds and no call is using,
which is what POSIX asks of callers, at any moment from then on, so also right after an
unlock. A new state begins with the backend's fresh lock (`create_state`). A mutex of
the default backend goes through the same code; `McsTasLock` begins with states that
exist.

**Scheduler.** A callback is one action on a CPU whose runqueue lock is free, since
sched_ext calls it under that lock. `accordin_enqueue` is split where it acts on what it
read earlier: `grant_admission` reads the owner and then writes it (state `granting`),
and the choice of an inactive queue is followed by the insertion (state `parking`);
callbacks of other CPUs and mask changes fall in between. `ctx[t]` is `task_scx_ctx`
(`NoCtx` when the storage does not exist), `owner` is `cpu_admission_owner_map`, `seq`
is `cpu_dispatch_seq_map` modulo `DrainInterval`, `mask` the active cpumask, `nudges`
the `accordin_nudge_cpu` calls the pusher still owes. The actions `K_*` are the kernel:
wakeups with their target CPU, preemption, blocking, exit, idle CPUs. A failing user
read or task storage is a choice of the action when `MayFail`. The threads
(`FastLock` … `MarkExit`) contend for one lock and drive their words as a backend does.
`BpfOwnership` adds `overlapped`, which the scheduler does not have and no action reads:
the tasks whose last admission was given while another enqueue, which had found the same
CPU free, had yet to write its grant.

**Condition variables.** One action per atomic access or futex call of
`pthread_cond_wait` / `_timedwait` / `_signal` / `_broadcast`; a `compare_exchange` loop
is its successful exchange. `futex_wait` compares and sleeps in one step, which is what
the kernel guarantees; a sleeper may be interrupted, and a timed one may expire; either
leaves the queue from its place in it (`Dequeue`).
Who takes part is one of `Crews`: how many wait, how many of them with a timeout, how
many notify and how many calls they make.

**Controller.** `record_post_unlock` and `maybe_run_dynamic_cpu_control` are one action
per atomic access: a sampled call adds to the two sums and then to the two counts
(`process`, the four `PROCESS_*` counters; each is modelled as the set of the samples
that were added to it), loads `last_tick`, and exchanges it or looks again. The tick
swaps the two counts and then the two sums out (`TakeCritical` … `TakeOutsideTime`),
gives up when a count is zero (`NoAverages`), and only then takes the mutex of the
control state; from `LockControl` on, `mutex` is held, and one action is one
decision, the swap of the count, the push and, when it fails, the rollback. `active` is
what the controller believes, `mask` the number of CPUs of the mask that the scheduler
has. The moving averages and NUMA penalties, which are floating point, are abstracted
to the rounded target they yield, any of `Targets` or none; floor, limit, dead zone and
low-load bypass are modelled with the constants of the code. A local is set to 0 after
its last use. `past`, `dropped` and `torn` are history for `SamplesAccounted`: the parts
that ticks are done with, the samples of which a tick threw a part away for want of a
count, and the samples that were being added while a tick was between its swaps, or were
in the counters while two ticks were.

**Campaigns.** A session is a command line (`args`), accepted or refused by what it
finds on disk. `pc` is the place in the loop of `run_benchmarks`, `targets` the list of
`target_keys`, `pos` the place in it. A file is truncated by one action and written by a
later one, so that a kill (`Stop`) in between leaves it torn, with a prefix of its rows
or, for `commands.json`, unreadable. A log records which run of its name it is of,
whether results have been printed into it, and the return code; a row records the run it
was taken from, so that properties can tell whether the two still agree. Tools (helpers,
binaries, inputs) are a set, and a build may succeed, succeed without making its tool,
or fail.

**Sweeps.** `work` is the list of commands of a session, in `stage` `builds` and then
`sweeps`. A sweep writes its points in order into the `raw.csv` of one lock after the
other and then its summary; `raw[f]` says of which session a file is (`by`), which
points it was to have (`of`) and how many it has (`n`). The sweep scripts are external:
they end well with everything written, or fail or are killed with a prefix. The merge
tool reads roots that are given as values: their records, rows and settings.

## 3. Runs

| Run | Instance | Question |
|---|---|---|
| `mcs_tas_nested` | 3 threads, 2 locks, nesting 2; 105,000 states | Does the default backend exclude, keep its queue consistent although each thread has one node for all its locks, serve the slow path first come first served, and implement the abstract mutex? |
| `mcs_tas_flat` | 3 threads, 1 lock, fair; 21,000 states | Is a free lock that is wanted eventually taken, and does the word say exactly what its thread does between calls? |
| `lock_backends` | 3 threads, 2 locks, nesting 2, pool of 2, each backend, mutexes created by their first callers, initialised, destroyed and created again; 598,000 states | Do the alternative backends implement the abstract mutex, also when several first callers race to create its state; is every MCS node accounted for; does the reciprocating lock open one gate, keep its debug assertions, bound overtaking? |
| `bpf_protect` | 3 tasks, 2 of them hooked, which may exit or sleep while they spin, 2 CPUs, full mask; 316,000 states | Do preempted critical sections wait in local queues only, is each recorded owner an admitted task, and is a task that believes it is admitted the recorded owner, but for grants that overlap? |
| `bpf_mask` | 2 tasks, one bound to a CPU and free to exit, 2 CPUs, two pushes, failing reads and storage, both modes; 1,267,000 states | Do threads with slow-path history, and in statistics-only mode all threads, join local queues of active CPUs only? |
| `bpf_drain` | 3 tasks, 1 CPU, fair dispatch; 87,000 states | Does the drain let every parked waiter out although the CPU has an owner and the controlled queue is busy? |
| `cond` | 3 waiters and 1 notifier with 2 calls, 2 and 2 with 3 calls, and 2 of whom one is timed and 2 with 3 calls; fair | Can a notification be lost, and does everyone who had released the mutex when a broadcast takes the count return? |
| `controller` | 2 threads, window 1, clock 3, 2 samples, 2 machines; fair; 380,000 states | Does no sample count twice, and is none split between windows or dropped unless it overlaps the swaps of a tick, is at most one tick elected per window, does the count keep its bounds and agree with the pushed mask after failures, does the scheduler see only what `CpuBudget` allows, and does what follows an unlock end? |
| `campaigns` | experiments three to six, 2 sessions on one root, 1 kill or interruption, 3 states of the toolchain; 1,034,000 states | Is each row of a finished run whose log is there, does the exit code say what the files hold, are completed runs kept by a resume, are temporary files removed? |
| `sweeps` | experiments one to three and the merge tool, 2 sessions on one root, 1 kill, 2 repeats, nodes of 3 and 2 CPUs; 1,265,000 states | The same of the sweep programs; are failures reported with their own logs, are sweeps pinned node by node, does the merge keep the last row of a key? |
| `bpf_two_admitted`, `cond_timed` | see section 6 | Two statements of the documentation that the code does not keep. |

**Why the bounds suffice.** Three threads give the hand-offs of the queues all their
participants: the thread that leaves, the one that links, and one that barges or swaps
behind. Two locks with nesting 2 make a node serve a second lock while the first is
held, and let releases come in either order. A pool of two nodes is full at that depth.
`BoundedBypass` says 2 because one overtaking from each of two segments is
reached; the bound was also confirmed with four threads at one lock, outside the listed
runs.
On the scheduler, one CPU with `DrainInterval` 2 makes both outcomes of
`should_drain_inactive` occur, two CPUs make owner, target and previous CPU differ,
two pushes take a CPU away and give it back, and three tasks fill the place of an owner,
a waiter it excludes and a third that is queued elsewhere. `DrainInterval` and
`StealScan` are 64 and 8 in the code; what matters is that the sequence number wraps and
that the scan may stop short of a CPU, which small values reach with few CPUs. For the
condition variables three calls let a signal, a broadcast and one more notification
overlap.
For the admissions, two hooked tasks on two CPUs let two enqueues overlap, one of them
with a CPU that it chose before it slept while spinning (without such sleep no grants
overlap in these bounds); the third task takes CPUs from them at any moment. The
properties of `bpf_protect` were also confirmed with three hooked tasks that do not exit
(1,147,000 states), outside the listed runs.
For the controller, a clock that runs to three windows lets a second tick come while the
first is still between its swaps, two samples fall on both sides of a swap and can both
be in the counters while two ticks take them, and the two machines make the low-load
bypass apply and the floor raise a target (8 requested of 66), the limit and the
available CPUs cut one (2 of 12), and CPUs lie outside the mask (2 of the 12). Within these bounds a tick does throw counts away, and
without the exception for overlaps TLC finds samples split.
For campaigns and sweeps, two sessions are one that leaves something and one that finds
it: fresh, forced, resumed or supplementing, with the same, more, fewer or other
targets. One kill at any step of either is every crash a later session can meet once;
two locks, one of them of the set that is limited to a single oversubscribed thread
count, two thread counts around `Cores` = 1, and both kinds of database benchmarks reach
each branch of the target lists. For the CPU lists the nodes have interleaved
numbers, and of the two ratios of sections one (2 to 5) lies on a half and is rounded
up, the other (1 to 9) is clamped to the CPUs there are.

`MaxHeld`, `MaxNodes`, the `calls` of a crew, `MaxPushes`, `MaxTime`, `MaxSamples`,
`MaxSessions` and `MaxKills` are the counters that are bounds of the models and not of
the code (`MaxNodes` stands for the pool size, `MAX_THREAD_NODES`).

Deadlock is checked in the runs of the backends, where every state has a next call. It
is not checked in the others: threads may all have exited or may all wait for a
notification that the bound on calls does not allow, the clock and the samples of the
controller end, and so do sessions.

Symmetry is used only where a run checks no liveness property and the elements are
interchangeable. Locks are never symmetric, because callers order them.

## 4. Fairness

* `McsTasLock!FairSpec`: weak fairness of each thread's `Step`. A thread inside a hook
  call is runnable, spins and is scheduled by the kernel. Callers owe nothing: they need
  not call and need not release.
* `CondVar!FairSpec`: weak fairness of the steps of a call in progress, strong fairness
  of `Relock`. The mutex may be taken by others between two attempts, but the default
  backend's slow path is first come first served (`FifoSlowPath`), and the front
  competes with barging callers only. A caller that holds the mutex and waits has to
  reach the release, which is part of the call.
* `BpfAdmission!FairSpec`: strong fairness, per CPU, of a schedule that finds the local
  and global queues empty and so calls `dispatch`. Slices end (`SCX_SLICE_DFL`) and idle
  CPUs that are kicked schedule. `WaiterDrains` says on top of this that it concerns
  CPUs on which this happens again and again: a CPU whose local queue never empties
  never calls `dispatch`, and nothing in the code bounds that.
* `CpuController!FairSpec`: weak fairness of each thread's `Continue`, because what
  follows an unlock runs on a runnable thread; strong fairness of `LockControl`, because
  every holder of the control mutex lets it go (it makes no call that waits for another
  thread) and the lock it uses does not keep one thread out for ever.
* Campaigns and sweeps have safety properties only, and no fairness: the benchmarks they
  wait for may run for ever when no timeout is given.

## 5. Proofs

`McsTasLockProofs` holds six theorems about the default backend for any set of threads,
any set of locks numbered by naturals, any depth of nesting and either value of
`ACCORDIN_DISABLE_ADMISSION`; they rest on `ConstantsAssumption` of `McsTasLock`, which
TLC evaluates in its runs, and `WordIsTrue` on one more assumption.

* `TypeCorrect`: `Spec => []TypeOK`. `TypeOK` is inductive because it also says where
  locals are meaningful: `target` is a lock within a call, `pred` is a thread when
  linking, `succ` when waking. Without these the steps that follow a pointer could not
  be typed.
* `MutualExclusionHolds`: `Spec => []MutualExclusion`. The invariant has two parts, no
  two holders and *the flag is set exactly while there is a holder*; the second is what
  makes the first inductive. Only `try_lock_fast`, `FrontSpin` and `unlock_fast` touch
  either side. The argument does not use the queue: whatever the MCS part does, the flag
  excludes.
* `MutexRefinement`: `Spec => ImplementsMutex`. A blocking call requests from its entry
  to the step that takes the flag; that step, like a successful trylock, finds the
  abstract lock free by `MutualExclusion`. All other steps leave `want` and `held` alone.
* `WordIsTrue`: `MaxHeld = 1` implies `Spec => []WordTellsCriticalSection`. The
  assumption is needed: section 6 says what nesting does to the bit. The property speaks
  of threads between calls only, so `WordInv` follows the two marks and what the caller
  holds through every label of a call.

The other two are about the queue.

* `QueueKeepsShape`: `Spec => []QueueShape`. `QueueShape` is not inductive: `LinkPred`
  writes through `pred`, `WakeSuccessor` through `succ`, and if either named a thread of
  another queue the shape would be lost. `QInv` adds which threads these pointers name
  (`PredIsBefore`, `SuccIsNext`), that a thread is in the queue of its `target` exactly
  while its call is between the swap and the handoff (`MembersQueued`,
  `QueuedAreMembers`), and in one place of it (`QueuedOnce`), which is why one node per
  thread is enough for all its locks. There is a lemma for each step that moves the
  queue or a pointer, and two (`OutsideStep`, `FrontStep`) for all the others.
* `SlowPathIsFifo`: `Spec => FifoSlowPath`. By `QInv` the thread at `front` is the first
  of its queue (`FrontIsHead`), and `queue` grows by the swaps of the tail only.

`McsLockProofs` holds four theorems about the hooks over the MCS backend, for any threads
and locks and any pool that is as large as callers nest deep, from `HookAssumption` and
`NodesAssumption`. The second says `MaxHeld <= MaxNodes`: a thread that nests deeper
panics in the code, and the models end there. Theorems that name a property of one
backend say with it that this backend is the loaded one (`backend = "mcs"`).

* `Invariance`: `Spec => []IInv`. The code has no list of who waits, only nodes with
  `next`, `locked` and `lockOwner`, and `tail`; `queue` is the history of the swaps. The
  invariant says how the pointers picture it: a thread is in the queue of a lock exactly
  while it holds or waits for it (`Queued`), and has one node in use for each such lock
  and no other (`NodesUsed`), so that a node of one lock is never taken for one of
  another; `tail` is the node of the last, `next` and `pred` go from one member to the
  one behind it (`Tails`, `Nexts`, `Preds`, `Succs`), where `next` may lag behind the
  swap but only while the successor is at `link`; the first holds the lock or has been
  told, and all others are at `locked` nodes (`Granted`). The two steps that move the
  queue, the swap and the release, have a lemma for each part; `Before`, `First` and
  `Final` and the lemmas about them take the place of indices.
* `NodesAreAccounted`: `NodesAccounted`. What is to be shown beyond the invariant is that
  the number of used nodes is that of locks held or waited for, by a bijection between
  them, and that a free node is left when another request is allowed.
* `GrantsAreInOrder`: `GrantedInOrder`, from `Queued` and `Granted`.
* `McsRefinement`: `Spec => ImplementsMutex`. Exclusion is not assumed: a grant finds the
  abstract lock free since only the first of a queue may hold its lock.

`McsLockProofs` also holds, at its end, two theorems about the hooks over the TTAS
backend, for any threads and locks, from `HookAssumption`.

* `StateAndExclusion`: the inductive invariant `TtasIInv`. A state stored a second time would
  clear a flag that is set, so exclusion rests on the life cycle: `TtasOneState` says that
  from the claim to the store a mutex has one creator, and that whoever uses or holds it
  finds the state; `TtasExclusion`, that a held lock has its flag set and one holder.
* `TtasRefinement`: `Ttas!Spec => ImplementsMutex`, the statement that `lock_backends` checks of all
  three backends. Looking for the state and creating it belong to the request;
  `SENTINEL`, creation and destruction are invisible to the abstract mutex.

`ReciprocatingLockProofs` holds five theorems about the hooks over the reciprocating
backend, for any threads and locks, from `HookAssumption` and `TagAssumption` (the tagged
pointer `LOCKED_EMPTY` is no thread's element).

* `Invariance`: `Spec => []IInv`. A waiter knows the one below it in the stack, the owner
  the top of the detached segment and its end marker, `arv` the top of the arrivals.
  None of them tells the order of arrival, which everything depends on; the invariant
  therefore says that for each lock there *are* stamps, a set of waiters and a clock such
  that the set, the detached segment, is chained by falling stamps from the owner's
  handle to its end marker, and all other waiters from `arv` down to the base
  (`Arranged`, `Lined`, `Chained`). As these are quantified and not variables, the model
  needs no history for them. An arrival is a push with the next stamp (`ChainPush`), a
  grant takes the top off (`ChainPop`), a release without successors turns the arrivals
  into the segment. `Owned` says that a lock with an element in `arv` is owned by one
  thread, which holds it or finds its gate open, and that nobody waits for a lock whose
  `arv` is null.
* `Assertions` and `OneIsAdmitted` follow from `Owned` and `Lined`: the end marker is not
  in its segment, so that no thread meets itself as its successor.
* `BypassIsBounded`: `Overtaken` counts for a waiter and each other thread. While the
  waiter is an arrival, the other, now served from the segment, can have passed it once;
  then it arrives later, which places it above the waiter, and when the arrivals
  are detached it is served first once more. Its next arrival is served after this
  segment. That is two in all, and TLC reaches two.
* `ReciprocatingRefinement`: `Spec => ImplementsMutex`. A null `arv` or an open gate is
  the grant, and the abstract lock is free then by `Owned`.

TLC finds `IInv` of both modules true for three threads, two locks and nesting 2 (with
three stamps, which are enough for three waiters).

`CpuControllerProofs` holds five theorems about the controller for any finite set of
threads, any window, clock and number of samples, any machines and any targets. They
rest on `ConfigsAssumption` (at least one CPU is asked for, no more than there are, and
the first push could be made: what `load_cpu_affinity_state` and the start of the
scheduler enforce) and `BoundsAssumption`.

* `TypeCorrect`: `Spec => [](TypeOK /\ TimesPassed)`. That the mutex is held by exactly
  the thread in the guarded part is a conjunct of `TypeOK`; `TimesPassed`, no call works
  with a time still to come, is needed to type the stored time of the last tick.
* `CountStaysWithinBounds` and `CountAndMaskAgree` follow from one inductive invariant,
  `IInv`. `CountWithinBounds` alone is not inductive: the next count comes from
  `last_count`, `floor`, `limit` and the local target, and a rollback restores
  `previous`, so `MemoryWithinBounds` and `UpdateWithinBounds` bound each of them where
  it is used. `PushUnderWay` says what the scheduler has at each place of an update
  (`active = mask` before the swap and after the push, `previous = mask` in between);
  `NoUpdateWhenFrozen`, that a freeze never falls into an update.
* `OnlyTornSamplesLost`: `Spec => []SamplesAccounted`. `PlacesInv` says where the four
  parts of each sample are: still to be added by the one thread that has it, in their
  counter, with one tick, or past. `WholeInv` follows a sample that is not in `torn`
  through them: while it is being added no tick is between its swaps
  (`WholeInAdditions`), in the counters it is in all four or in those that the one tick
  in progress has yet to take (`WholeInCounters`), and a tick has exactly those parts of
  it that it has swapped (`WholeInTicks`); so at the averages it has all or none, and a
  tick without a count of one kind has none of it to throw away.
* `BudgetRefinement`: `Spec => ImplementsBudget`. The credit of `CpuBudget` is the number
  of threads in a tick that may still push. An election earns one, with the guard of
  `compare_exchange` giving the distance in time; a push spends one and stays within the
  bounds by `IInv`; every way out of a tick lets one lapse.

`CondVarProofs` holds three theorems about condition variables for finitely many waiters
and notifiers, any crews and any number of calls, from `ThreadsAssumption`.

* `TypeCorrect`: `Spec => []TypeOK`. Its bound on `seq` is not inductive; `CallsInv` adds
  that `seq` and the notifiers about to increment it together never exceed the calls.
* `SleepersAreCounted` and `ReleasedNoticed`: `Spec => []UntimedSleepersCounted` and
  `Spec => []ReleasedIsNoticed`. Neither is inductive, because a wake takes whom the
  kernel finds first, not whom the call took from the count. `CountInv` bounds two sets
  instead: the waiters that have the present number (`Fresh`) by the count and the
  signals that have not incremented `seq`, and these with all sleepers (`Concerned`) by
  the count and the signals that have not woken anybody, each as long as no broadcast is
  at that stage. The step that needs both is the wake of one: either its sleeper has a
  past number and `Concerned` loses it, or, since the futex is in the order of the
  numbers (`FutexInv`), no sleeper has, and the bound on `Fresh` is enough. A timed wait
  breaks it, which is the second finding of section 6, hence the condition on `timed`.

`BpfAdmissionProofs` holds seven theorems about the scheduler, for any tasks, CPUs,
affinities, drain interval, steal scan and set of exiting tasks, from
`ConstantsAssumption`. Only three of them restrict what happens around the scheduler.

* `CriticalIsLocal`: `Spec => []CriticalStaysLocal`, under `Undisturbed`: reads do not
  fail, the mask stays as it is, the mode is the admission mode, and no thread sleeps
  between its two marks. `bpf_protect` checks the same property under constants of this
  kind. The property speaks of one moment,
  after the enqueue; the invariant follows a thread around the loop of `running`,
  `stopping`, `enqueue` and the choice of the next task. `ThreadInv` says that a thread
  with the bit set is registered, has a context, and runs or waits locally: registration
  makes `stopping` see the word, so it sets `must_return_to_cpu` with a CPU (`Stops`),
  which no later check of the same enqueue may drop (`EnqueueCritical`). A second enqueue
  cannot come in between, since a thread in `granting` or `parking` does not have the bit.
  Looking for work takes tasks from shared queues only (`SourcesAreShared`, `Balances`),
  so only the CPU that runs the thread takes it out of a local queue. `Base` adds the types that these
  steps need, and that a CPU which is picking has a task to pick.
  The assumption is used: a failed read of the word in `stopping` skips the protection,
  as does sleeping, and a CPU outside the mask loses the admission.
* `TypeCorrect` and `TasksHaveOnePlace`: `Spec => []TypeOK` and `Spec => []Places`, with
  masks pushed at any time, failing reads and both modes. The two are inductive together
  only: a target read from a context is a CPU because the task was given it within its
  affinity, and a queue moved by the drain has tasks that no CPU runs. `Placed` says that
  no two positions of all queues have the same task, that queued tasks have that state,
  and that a local queue has tasks of its CPU; `Places` adds the running tasks and what an
  enqueue under way (`granting`, `parking`) has decided. One lemma per way in which tasks
  move (to the end of a queue, out of it, rearranged by a dispatch or a drain, taken to
  run) keeps `Placed`; that each callback writes a context within the affinity
  (`LawfulOutcomes`) is shown along the operators it is made of. For the nudges, `Ranks`
  and `NudgesExist` show that the comparison of masks names existing CPUs only.
* `OwnersAreAdmitted`: `Spec => []OwnerBacked` if no mask is pushed (`MaxPushes = 0`);
  reads may fail, tasks exit and threads sleep as they like, in both modes. `Backed`
  adds that an enqueue under way holds nothing, as two grants for one CPU may be decided
  before either is written; what a callback does to the map is `Faithful`: it makes and
  clears entries of its own task only. The condition is used: with a changed mask a
  critical section gives up its CPU and leaves the entry (section 6).
* `HoldersAreOwners`: `OwnershipSpec => []HolderIsOwner` under the same condition, for
  any affinities and numbers of CPUs and runqueues. A task that holds an admission is the
  recorded owner, unless another enqueue was between its look at that CPU and its grant
  when the task was admitted. `HolderIsOwner` is not inductive: such an enqueue could
  still take the entry. `Settled` adds that nobody is about to grant the CPU of a task
  that is not in `overlapped`; it is kept because an enqueue comes to grant a CPU only
  after it has found it free or its own (`SoundSettles`, from what each callback does to
  the map, `Sound`). The exception is needed: without it the property is false, which is
  the first finding of section 6.
* `SeenTasksStayOnActive` and `StatsTasksGoToActive`: `Spec => SeenStaysOnActive` and
  `Spec => StatsDeliverToActive`, action properties, with masks pushed at any time,
  failing reads and both modes. The callbacks check the mask before they deliver
  (`Destined`); what remains is a dispatch, and an inactive CPU takes from the global queue
  alone. So the invariant is `Unseen`: a task in the global queue has no slow-path
  history, also when its context is written while it is queued, and in
  statistics-only mode no contexts are made. `StatsDeliverToActive` excepts what a CPU
  finds in the global queue, so there only the callbacks matter.

`CampaignsProofs` holds six theorems about the campaigns of all four programs, for any
command lines, number of cores, sessions, kills and interruptions, and any tools in
place. They rest on `RootAssumption` (the bounds are naturals), on `LinesAssumption`,
which says what the argument parsers enforce (lists that are not empty, positive counts,
each lock taken once, no `--resume` in experiment four), and on one thing that the
parsers do not look at: `NamedOnceAssumption`, that no benchmark and no thread count is
named twice. It is needed: a point that is listed twice may fail and then succeed, and
is then in `raw.csv` and in `failed_runs.csv`, and experiment four has a row of it twice.

* `CampaignInvariant`: `Spec => []Inv`. The programs differ in many details that no
  property is about, so every step is first brought into one of eighteen shapes (`Steps`:
  a session starts or ends, rows are loaded, a log is opened, a row or a failure is
  added, ...), by two lemmas for each program, one for its start and one for its steps;
  each of the parts of `Inv` is then shown to be kept by each shape. A
  shape may also allow what no program does, and the invariant holds nevertheless. `Inv` has ten parts:
  types and phases (`TypeInv`, `PhaseInv`), the run under way and its log (`RunInv`),
  temporary files (`TempsInv`), targets that are done with (`CoverInv`), rows of
  different points (`DistinctInv`), `commands.json` against the records in memory
  (`ManifestInv`), records against rows and logs (`RecordsInv`, `OwnRecords`), and rows
  against logs (`RowsInv`).
* `RowsAreBacked`: `Spec => []RowsAreOfFinishedRuns`. A row names a run, and the log of
  that point may be truncated for a new run: what prevents it is that a log is opened
  only for a point that has no row, and so that no row of `raw.csv` is left out when a
  session loads its rows. Experiments three and six load
  from records alone, so for them every row of `raw.csv` must have a record
  (`Recorded`), before the file is read as between the truncation of `commands.json` and
  its rewriting; experiment five merges both. In three and six a record that is used must
  in turn agree with its log (`OwnRecords`); experiment five compares the two.
* `ExitIsTruthful`: `Spec => []ExitTellsOutcome`. Behind the loop are rows or failures
  for all targets passed (`Covered`); a target has both only when its log says timeout,
  which stays true because that log is not opened again.
* `TempsAreRemoved`: `Spec => []TempsRemoved`. While a session lives, what there is of
  its temporary files is that of the run under way.
* `CompletedKept`: `Spec => CompletedRunsKept`, an action property. Where a log is
  written, the point has no row; a record of it that is in the manifest is in the
  memory of a resumed session too (`ManifestInv`), and would have given it a row
  (`RecordsInv`).
* `CampaignTypes`: `Spec => []TypeInv`.

The targets are concatenations of concatenations; that these hold no point twice is
shown by lemmas about `FlattenSeq`, of which the first says that the recursive function
in its definition exists. TLC finds `Inv` true, and every step of one of the shapes, on the
instance of `campaigns` for each of the programs.

`SweepsProofs` holds seven theorems about the sweep programs and the merge tool, for any
command lines, repeats, cores, nodes, ratios, sessions and kills. They rest on
`SweepRootAssumption` (at least one repeat; nodes have CPUs of their own, each once, and
one of them has some: what `lscpu` and sysfs report), on `OneLinesAssumption`,
`TwoLinesAssumption`, `ThreeLinesAssumption` and `MergeLinesAssumption` (what the
argument parsers and `main` let pass: known locks, thread counts that are naturals, in
experiment two each lock and count once and no more threads than CPUs; positive ratios,
each once; lists that are sequences) and on `ProgramsAssumption`, the names of the four.

* `SweepsInvariant`: `Spec => []SweepsInv`, which has an invariant for each program, as
  they share their files and little else. Exit code 0 is a statement about files written
  many steps, or sessions, before, so nothing here is inductive as it stands.
* `SweepsExitTruthfully`: `Spec => []ExitTellsOutcome`.
  *Experiment one*: the output of each lock asked for is that of some command of `work`
  (`OneControl`; for this the groups of equal thread counts are shown to hold each lock,
  `GroupFacts`), and without failures the files of the commands passed are whole and of
  this session (`OneFiles`).
  *Two*: a point asked for is complete in the rows in memory, or its sweep is still to
  come (`TwoLeft`). That a complete point has *each* repeat and not only as many rows
  holds as long as one session at most has been killed: before the first kill every point
  in `raw.csv` is whole and no row is twice (`FineRows`), so what one kill leaves is a
  prefix of such rows, and what is swept again adds a whole point to the part that is
  left (`RowsAdded`); a second kill may cut that. The property says this with `kills <= 1`,
  and section 6 shows the run with two.
  *Three*: the parts of a merge come before it (`PartsFirst`), a part of this session is
  complete when it is passed (`ThreeParts`), and the merge of complete parts has the
  points of the whole matrix in their order (`MergeOfParts`), unless a part, or the file
  itself, is an older one.
* `SettledFilesStay`: `Spec => CompletedSweepsKept`, an action property. A file settled
  for this session is in the output of none of its commands that are still to come: a
  supplement takes no lock with results, a resume no point complete in the rows in
  memory, of which `raw.csv` is a prefix (`Prefix`), and experiment three no lock that is
  complete; it removes only parts that are not.
* `RowsAreOfFinishedSweeps`: `Spec => []RowsOfFinishedSweeps`, from `TwoRows`: rows are
  collected after an exit code of 0 only, and those read back are those once written.
* `FailuresAreListed`: `Spec => []FailuresKeepTheirLogs`, from `OneDone` and `TwoSwept`
  (each command passed has finished or is listed) and `OneLogs` and `TwoLogs`; in
  experiment one a log takes a name that no file has (`FreshLog`), in two the names of
  the points of a session differ.
* `SweepsArePinned`: `Spec => []PinnedNumaFirst`. `ordered_cpus` concatenates the nodes,
  so a prefix of it that meets a node has all of those before (`FlattenOrder`);
  that `taskset_target_cpu_count`, which rounds a quotient to the nearest half up and
  clamps it, gives the number of CPUs nearest to the ratio is `CpusOfRatio`, in integers,
  from `Rounding` and `Squares`.
* `MergedFromLast`: `Spec => []MergeTakesLast`. `LastSeen` is what the rows are after any
  number of roots: each key once, from the last of these roots that has it.

TLC finds `OneInv`, `TwoInv` and `ThreeInv` true on the instance of `sweeps`;
`MergeInv` quantifies over all keys there may be, which TLC cannot enumerate.

Every safety invariant and action property that a passing run checks is stated by a
theorem, under the conditions named above. Nothing is claimed for `OwnerBacked` with
pushed masks, for `HolderIsOwner` with pushed masks or for tasks admitted by grants that
overlap, where they do not hold. `DeadlockFree`,
`WaiterDrains`, `BroadcastFreesAll` and `CallsEnd` are liveness properties under
fairness, which the prover does not cover, and stay with TLC.

## 6. Findings

* **Two tasks admitted to one CPU** (`bpf_two_admitted`). `grant_admission` reads the
  owner of a CPU and writes it later (`src/bpf/main.bpf.c:250`); enqueues under the
  locks of two runqueues may both find it free. `README.md:66` promises one owner per
  CPU.
* **A timed wait cancels another waiter's count** (`cond_timed`). Between its look at
  `seq` and `cancel_one_waiter` (`shared/mutex_hook.rs:1057`) a signal takes its count;
  the cancel then takes the count of a later waiter, which sleeps while `waiters` is 0.

Observations, not stated as runs.

Locks and scheduler:

* An owner entry may stay that nobody clears. When the admission CPU has left the mask,
  `protect_critical_section` (`main.bpf.c:368`) moves the task to another CPU and leaves
  the entry of the old one; `release_admission` later clears the new one's
  (`README.md:69` says that a leaving owner clears its entry). `OwnerBacked` is therefore
  checked with an unchanged mask, and so is `HolderIsOwner`.
* A task may be parked after the drain. An enqueue chooses an inactive queue, the CPU is
  taken out of the mask and drained, and the task is inserted (`main.bpf.c:529`), out of
  the reach of `INACTIVE_STEAL_SCAN`; the design document
  (`docs/plans/2026-05-06-bpf-active-cpumask-design.md:46-49`) says the drain covers that
  case.
* The critical-section bit is not a count: with nested locks the release of the inner
  one clears it (`shared/admission.rs:61`) while the outer is held, against
  `README.md:57`. `WordTellsCriticalSection` is therefore checked for one lock at a time.
* `pick_allowed_cpu` returns none when the idle or any CPU picked is inactive, although
  another CPU of the task is active (`main.bpf.c:262-282`); a critical section preempted
  then is not protected (`main.bpf.c:358-373`).
* Ordinary tasks are delivered to the local queue of inactive CPUs when idle there or
  bound there (`main.bpf.c:468-470`, `548-555`), which the design document, read to the
  letter (line 89), excludes; `README.md:71` excludes it for tasks with history only.
* The scheduler is attached before the first push (`scheduler_loader.rs:206-207`); the
  design document asks for the reverse order (lines 307-309) and calls the window
  harmless.
* `libmcs_tse.so` clears the timeslice request at the release of an inner lock too.

Controller:

* `update_dynamic_cpu_count` returns early when the bitmap cannot be built
  (`cpu_affinity.rs:131`) and leaves the new count without a push. The design document
  says a failed push rolls back (lines 291 and 347). It takes CPUs outside `MAX_CPUS`;
  `CountIsPushed` is stated for machines whose CPUs all fit.
* A sample is four additions, and a tick takes it by four swaps (`lock_stats.rs:559-563`,
  `671-674`). One that overlaps the swaps may have its time in one window and its count
  in another, which biases both averages; and when the critical count falls in one window
  and the other count in the next, and neither window has others, both are thrown away
  (`lock_stats.rs:685-687`) and the sample is lost. Two ticks that swap at once may do
  the same to every sample in the counters. `SamplesAccounted` says that it happens to no
  other sample.

Campaigns (experiments three to six):

* A torn `commands.json` makes every later `--resume` fail at its parse
  (`run_experiment_three_common.py:194-202`), and a run that ends with 0 and prints no
  cycle count makes every resume fail as well: its record is there and its log cannot be
  parsed.
* A forced session that is interrupted and then resumed takes rows of the `raw.csv` that
  it has not yet rewritten as its own, and in experiments three and six the records of
  `commands.json` as well. If it was killed within its first run, that record is of the
  older session and its log is the truncated one of the run that was killed: experiment six then
  reports a row from an unfinished run with exit code 0, experiment three fails at the log. A
  report of a resumed session keeps such rows (`mixed` in `ResultRoot` stays set until a
  session without `--resume` reports); `RowsAreOfFinishedRuns` excludes that case.
* Experiment five: a `raw.csv` torn in its header (`run_experiment_five.py:1790-1793`), or
  in a row before its repeat number (`int(None)` in `result_key`, lines 1224-1225, which
  catches `KeyError` and `ValueError` only), makes every later resume fail until the file is
  removed.
* Experiment four: `--rerun-failures` overwrites `failed_runs.csv` at the first new
  failure and `raw.csv` with the rows of the rerun only. Experiment five: a resume with
  fewer targets drops the rows of the others. Experiment six: a resume with another
  `--input-size` takes the rows of the old one. Values given twice on a command line
  yield rows twice.

Sweeps and merge:

* Experiment three takes a lock as complete when its `raw.csv` has the expected number of
  rows (`run_experiment_three.py:390`). The first rows of a larger matrix, left by a
  killed sweep, can be as many; the summary is not looked at. A `raw.csv` that a killed
  merge of parts has truncated needs `--force`, which also removes completed parts. The
  check of a part (`run_experiment_three.py:642-658`) counts rows too, so a merge may take
  in a part that an older session swept for other thread counts.
* Experiment one: the combined CSV of a supplement has only the locks that
  `settings.json` lists, and with the minimal profile these are the Accordin variants, so
  that a supplemented base lock never appears, although the help text
  (`run_experiment_one.py:349-356`) says the combined files are regenerated. A forced
  session whose sweeps fail combines the rows an older session left (and exits with 1).
  Any session on a root with a torn `commands.json` fails, after it has rewritten
  `settings.json`.
* Experiment two rewrites `raw.csv` in place: a kill during the write loses rows of
  earlier sessions, and a point that is lost in part is then there twice.
  `completed_points` (`run_experiment_two.py:868-878`) counts rows and does not look at
  their repeats: a session killed while it writes the first of two rows of a point leaves
  repeat 1; the resume sweeps the point again, for rows 1, 1, 2; if that one is killed in
  the rewrite after two rows, the next `--resume` takes 1, 1 for a complete point and exits
  with 0 without repeat 2. The help text (line 331) speaks of points "already present"
  only. `ExitTellsOutcome` promises every repeat after one kill at most.
* The merge tool with `--force` removes the old output before it has read its inputs.

## 7. What is not modelled

* **Memory order weaker than sequential consistency.** The code uses acquire and release
  on every access a hand-off relies on; the models interleave.
* **Scheduler details**: `sched_setaffinity` by the application while it runs, the
  runqueue lock dropped by the kernel between two queues of one dispatch, map lookups
  failing for a valid index, creation of the queues at start. The model begins after the
  first push, which made all CPUs active. Of the writes of one callback to task storage
  and owner map, only the grant of an enqueue is apart from what it rests on; a release,
  and the grant in `protect_critical_section`, are one step each with the rest of their
  callback, so that a race between the two writes of a release on one CPU and a callback
  of another is not in the model.
* **Arithmetic of the controller**: the nanoseconds in the sums (which samples they are
  of is modelled), moving averages, NUMA penalties, per-thread totals of the statistics
  output.
* **Hook life cycle**: mutexes outside the registered scope, which go to glibc, and the
  conversion of one by `accordin_register_hooked_mutex`; failing allocations; the lazy
  creation and the destruction of a `CondState`; the registry of threads.
* **Direct API**: creation and destruction of the handle; the lock itself is `McsTasLock`.
* **`seq` as a `u32`**: a wrap needs 2^32 notifications within one wait.
* **Timeslice extension, time stamp counter, environment parsing, sysfs**: input and
  system calls with no state that a property is about.
* **Experiments**: argument parsing and its errors, invalid thread counts, lock aliases
  and the inference of missing locks from a baseline root, dry runs of experiments one
  and three, plots, summaries and statistics, settings that are only written; a CSV row
  torn in its middle (files are torn between rows). A row of experiment five that is cut
  counts as there or not there, or makes a resume fail at the load, which the model allows
  for every torn `raw.csv`; that the summary may fail at a cell that is missing is left
  out.
* **Build files, patches**.

## 8. Plan

The order is by importance of the behaviour; the first seven items exist.

1. `AdmissionWord`, `AbstractMutex`, `McsTasLock` with its refinement and proofs.
2. `BpfAdmission`: admission, mask changes, drain.
3. `CondVar`.
4. `LockHooks`, `McsLock`, `ReciprocatingLock`, `TtasLock`, `LockBackends`.
5. `CpuController`, `CpuBudget` and their proofs.
6. `ResultRoot` and the four campaigns.
7. `SweepRoot`, the three sweep programs and the merge tool, with their proofs.
8. Of the hook life cycle, after creation and destruction in `LockHooks`, which exist:
   the registered scope, whose conversion of a mutex destroys a glibc mutex that others
   may be about to use, and `pthread_cond_destroy` against a waiter on its way out.
9. `BpfAdmission` further: `sched_setaffinity` while tasks run, and a dispatch that
   drops its runqueue lock between two queues.
10. Starvation freedom of the MCS and the reciprocating backend under fairness.

Proofs that exist: all four backends (exclusion or the order and accounting of their
queues, and the refinement of the abstract mutex), the admission word, the controller,
condition variables without timeouts, the safety properties of the scheduler as far as
they hold, and those of the campaigns and the sweeps. Next: condition variables with
timeouts, as far as the second finding leaves something to state.
