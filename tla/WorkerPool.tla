----------------------------- MODULE WorkerPool -----------------------------
(***************************************************************************)
(* The worker pool (workerpool.nim) and its life inside a server           *)
(* (server.nim, startServer and waitFor).                                  *)
(*                                                                         *)
(* Loop threads hand blocking work to the pool: tryEnqueue for HTTP tasks, *)
(* which is refused at the backlog cap or once the pool is stopping, and   *)
(* enqueue for WebSocket tasks, which is not.  Workers sleep on the        *)
(* condition variable while the queue is empty, and exit once it is empty  *)
(* and the pool is stopping.  The owner thread starts workers and loops,   *)
(* waits for a stop request, and tears down once every thread is gone, or  *)
(* gives up at the hard timeout and leaks what live threads still use.     *)
(*                                                                         *)
(* The critical sections of the pool's lock never block, so each of them   *)
(* is one step; wait() releases the lock and sleeps in one step.           *)
(***************************************************************************)
EXTENDS Integers, Sequences, FiniteSets

CONSTANTS
    Workers,         \* worker threads
    Loops,           \* event-loop threads
    HttpTasks,       \* blocking: / awaitable / file tasks: pin a connection
    WsTasks,         \* ws.blocking on HTTP/1: pin a connection
    WsStreamTasks,   \* ws.blocking on HTTP/2 or 3: pin only their stream
    MaxQueue,        \* WorkerPool.maxQueue, 0 = unbounded
    HardTimeout      \* may waitFor's hard shutdown timeout expire

Task == HttpTasks \union WsTasks \union WsStreamTasks

ASSUME PoolAssumption ==
    /\ IsFiniteSet(Workers)
    /\ IsFiniteSet(Loops)
    /\ MaxQueue \in Nat
    /\ HardTimeout \in BOOLEAN
    /\ HttpTasks \intersect (WsTasks \union WsStreamTasks) = {}

None == "none"

VARIABLES
    tasks,      \* WorkerPool.tasks, guarded by WorkerPool.lock
    stopping,   \* WorkerPool.stopping, guarded by WorkerPool.lock
    worker,     \* per worker: where its thread is
    job,        \* per worker: the task it runs, or None
    loop,       \* per loop: where its thread is
    dispatched, \* per task: the loop that dispatched it, or None
    alive,      \* the shared live-thread counter
    stopFlag,   \* a stop was requested
    owner,      \* where startServer / waitFor is
    accepted,   \* history: every accepted task, in acceptance order
    started,    \* history: every task a worker took, in order
    finished    \* history: tasks whose body has returned

poolVars == <<tasks, stopping, accepted>>
vars == <<tasks, stopping, worker, job, loop, dispatched, alive, stopFlag,
          owner, accepted, started, finished>>

WorkerState == {"absent", "idle", "waiting", "running", "leaving", "exited"}

Idle    == {w \in Workers : worker[w] = "idle"}
Waiting == {w \in Workers : worker[w] = "waiting"}
Gone(thread, S) == \A x \in S : thread[x] \in {"absent", "exited"}

\* startServer, before any thread exists: the live-thread counter already
\* counts every thread to be created.
Init ==
    /\ tasks = <<>>
    /\ stopping = FALSE
    /\ worker = [w \in Workers |-> "absent"]
    /\ job = [w \in Workers |-> None]
    /\ loop = [l \in Loops |-> "absent"]
    /\ dispatched = [t \in Task |-> None]
    /\ alive = Cardinality(Loops) + Cardinality(Workers)
    /\ stopFlag = FALSE
    /\ owner = "starting"
    /\ accepted = <<>>
    /\ started = <<>>
    /\ finished = {}

-----------------------------------------------------------------------------
(* The owner starts the threads: the pool's workers, then the loops.       *)

StartWorker(w) ==
    /\ owner = "starting"
    /\ worker[w] = "absent"
    /\ worker' = [worker EXCEPT ![w] = "idle"]
    /\ UNCHANGED <<poolVars, job, loop, dispatched, alive, stopFlag, owner,
                   started, finished>>

StartLoop(l) ==
    /\ owner = "starting"
    /\ \A w \in Workers : worker[w] /= "absent"
    /\ loop[l] = "absent"
    /\ loop' = [loop EXCEPT ![l] = "running"]
    /\ UNCHANGED <<poolVars, worker, job, dispatched, alive, stopFlag, owner,
                   started, finished>>

\* startServer returns and the owner blocks in waitFor.
StartDone ==
    /\ owner = "starting"
    /\ \A w \in Workers : worker[w] /= "absent"
    /\ \A l \in Loops : loop[l] /= "absent"
    /\ owner' = "serving"
    /\ UNCHANGED <<poolVars, worker, job, loop, dispatched, alive, stopFlag,
                   started, finished>>

\* A createThread, a socket or the TLS config fails: the unwind fires the stop
\* flag at the loops that exist.
StartFails ==
    /\ owner = "starting"
    /\ owner' = "unwinding"
    /\ stopFlag' = TRUE
    /\ UNCHANGED <<poolVars, worker, job, loop, dispatched, alive, started,
                   finished>>

-----------------------------------------------------------------------------
(* Loop threads submit tasks.                                              *)

\* Mutant: the task is queued without signalling the condition variable.
EnqueueNoSignal(l, t) ==
    /\ tasks' = Append(tasks, t)
    /\ accepted' = Append(accepted, t)
    /\ dispatched' = [dispatched EXCEPT ![t] = l]
    /\ UNCHANGED worker

\* Under the lock: append the task and signal one sleeping worker, if any.
AddAndSignal(l, t) ==
    /\ tasks' = Append(tasks, t)
    /\ accepted' = Append(accepted, t)
    /\ dispatched' = [dispatched EXCEPT ![t] = l]
    /\ \/ Waiting = {} /\ UNCHANGED worker
       \/ \E w \in Waiting : worker' = [worker EXCEPT ![w] = "idle"]

\* tryEnqueue's refusal: the pool is closing or its backlog is at the cap.
Refuses == stopping \/ (MaxQueue > 0 /\ Len(tasks) >= MaxQueue)

TryEnqueue(l, t) ==
    /\ loop[l] = "running"
    /\ t \in HttpTasks
    /\ dispatched[t] = None
    /\ ~Refuses
    /\ AddAndSignal(l, t)
    /\ UNCHANGED <<stopping, job, loop, alive, stopFlag, owner, started,
                   finished>>

\* enqueue, the ws.blocking path: no cap and no check of the stopping flag.
Enqueue(l, t) ==
    /\ loop[l] = "running"
    /\ t \in WsTasks \union WsStreamTasks
    /\ dispatched[t] = None
    /\ AddAndSignal(l, t)
    /\ UNCHANGED <<stopping, job, loop, alive, stopFlag, owner, started,
                   finished>>

\* The loop thread leaves run(): a stop was requested and no connection is
\* pinned by a task it dispatched (drainComplete).
LoopLeave(l) ==
    /\ loop[l] = "running"
    /\ stopFlag
    /\ \A t \in HttpTasks \union WsTasks : dispatched[t] = l => t \in finished
    /\ loop' = [loop EXCEPT ![l] = "leaving"]
    /\ UNCHANGED <<poolVars, worker, job, dispatched, alive, stopFlag, owner,
                   started, finished>>

\* runLoopThread's last act is to decrement the live-thread counter.
LoopExit(l) ==
    /\ loop[l] = "leaving"
    /\ loop' = [loop EXCEPT ![l] = "exited"]
    /\ alive' = alive - 1
    /\ UNCHANGED <<poolVars, worker, job, dispatched, stopFlag, owner, started,
                   finished>>

-----------------------------------------------------------------------------
(* Workers.  A worker that is "idle" is about to take the lock and look at  *)
(* the queue, at the top of its loop or after a wakeup: the code is the    *)
(* same.                                                                   *)

WorkerWait(w) ==
    /\ worker[w] = "idle"
    /\ tasks = <<>>
    /\ ~stopping
    /\ worker' = [worker EXCEPT ![w] = "waiting"]
    /\ UNCHANGED <<poolVars, job, loop, dispatched, alive, stopFlag, owner,
                   started, finished>>

\* wait() may return without a signal.
SpuriousWakeup(w) ==
    /\ worker[w] = "waiting"
    /\ worker' = [worker EXCEPT ![w] = "idle"]
    /\ UNCHANGED <<poolVars, job, loop, dispatched, alive, stopFlag, owner,
                   started, finished>>

WorkerTake(w) ==
    /\ worker[w] = "idle"
    /\ tasks /= <<>>
    /\ job' = [job EXCEPT ![w] = Head(tasks)]
    /\ started' = Append(started, Head(tasks))
    /\ tasks' = Tail(tasks)
    /\ worker' = [worker EXCEPT ![w] = "running"]
    /\ UNCHANGED <<stopping, accepted, loop, dispatched, alive, stopFlag,
                   owner, finished>>

\* The task's trampoline returns, or raises: either way the worker goes on.
WorkerFinish(w) ==
    /\ worker[w] = "running"
    /\ finished' = finished \union {job[w]}
    /\ job' = [job EXCEPT ![w] = None]
    /\ worker' = [worker EXCEPT ![w] = "idle"]
    /\ UNCHANGED <<poolVars, loop, dispatched, alive, stopFlag, owner, started>>

\* Stopping and drained: the worker breaks out of its loop.
WorkerLeave(w) ==
    /\ worker[w] = "idle"
    /\ tasks = <<>>
    /\ stopping
    /\ worker' = [worker EXCEPT ![w] = "leaving"]
    /\ UNCHANGED <<poolVars, job, loop, dispatched, alive, stopFlag, owner,
                   started, finished>>

\* The worker's last act is to decrement the live-thread counter.
WorkerExit(w) ==
    /\ worker[w] = "leaving"
    /\ worker' = [worker EXCEPT ![w] = "exited"]
    /\ alive' = alive - 1
    /\ UNCHANGED <<poolVars, job, loop, dispatched, stopFlag, owner, started,
                   finished>>

-----------------------------------------------------------------------------
(* Stopping.                                                               *)

\* Some thread or signal asks the server to stop.
RequestStop ==
    /\ owner = "serving"
    /\ ~stopFlag
    /\ stopFlag' = TRUE
    /\ UNCHANGED <<poolVars, worker, job, loop, dispatched, alive, owner,
                   started, finished>>

\* Mutant: the stop wakes one sleeping worker instead of all.
WakeOneSleeper ==
    \/ Waiting = {} /\ UNCHANGED worker
    \/ \E w \in Waiting : worker' = [worker EXCEPT ![w] = "idle"]

\* broadcast: every sleeping worker wakes.
WakeAllSleepers ==
    worker' = [w \in Workers |-> IF worker[w] = "waiting" THEN "idle"
                                                          ELSE worker[w]]

\* signalStop, from from to to in the owner's program.
SignalStopAt(from, to) ==
    /\ owner = from
    /\ owner' = to
    /\ stopping' = TRUE
    /\ WakeAllSleepers
    /\ UNCHANGED <<tasks, accepted, job, loop, dispatched, alive, stopFlag,
                   started, finished>>

\* waitFor sees the stop flag and asks the workers to finish and exit.
SignalStop == stopFlag /\ SignalStopAt("serving", "waiting")

\* Mutant: waitFor tears down without waiting for the live threads.
AllExitedUnchecked ==
    /\ owner = "waiting"
    /\ owner' = "teardown"
    /\ UNCHANGED <<poolVars, worker, job, loop, dispatched, alive, stopFlag,
                   started, finished>>

\* waitFor reads the counter at 0, joins the loops and tears down.
AllExited ==
    /\ owner = "waiting"
    /\ alive = 0
    /\ Gone(loop, Loops)
    /\ owner' = "teardown"
    /\ UNCHANGED <<poolVars, worker, job, loop, dispatched, alive, stopFlag,
                   started, finished>>

\* The hard timeout expires with threads still live: detach and leak.
Detach ==
    /\ HardTimeout
    /\ owner = "waiting"
    /\ alive > 0
    /\ owner' = "detached"
    /\ UNCHANGED <<poolVars, worker, job, loop, dispatched, alive, stopFlag,
                   started, finished>>

\* The unwind of a failed start joins the loops that were created.
UnwindJoined ==
    /\ owner = "unwinding"
    /\ Gone(loop, Loops)
    /\ owner' = "teardown"
    /\ UNCHANGED <<poolVars, worker, job, loop, dispatched, alive, stopFlag,
                   started, finished>>

\* teardownResources -> shutdown: signalStop ...
ShutdownSignal == SignalStopAt("teardown", "joining")

\* ... join every worker that was created, then free the pool, the counter
\* and the outboxes.
ShutdownJoined ==
    /\ owner = "joining"
    /\ Gone(worker, Workers)
    /\ owner' = "freed"
    /\ UNCHANGED <<poolVars, worker, job, loop, dispatched, alive, stopFlag,
                   started, finished>>

\* waitFor has returned: the owner does nothing more.
Returned ==
    /\ owner \in {"freed", "detached"}
    /\ UNCHANGED vars

-----------------------------------------------------------------------------
Next ==
    \/ \E w \in Workers :
          \/ StartWorker(w)
          \/ WorkerWait(w)
          \/ SpuriousWakeup(w)
          \/ WorkerTake(w)
          \/ WorkerFinish(w)
          \/ WorkerLeave(w)
          \/ WorkerExit(w)
    \/ \E l \in Loops :
          \/ StartLoop(l)
          \/ LoopLeave(l)
          \/ LoopExit(l)
          \/ \E t \in Task : TryEnqueue(l, t) \/ Enqueue(l, t)
    \/ StartDone
    \/ StartFails
    \/ RequestStop
    \/ SignalStop
    \/ AllExited
    \/ Detach
    \/ UnwindJoined
    \/ ShutdownSignal
    \/ ShutdownJoined
    \/ Returned

SafetySpec == Init /\ [][Next]_vars

\* Threads keep running and task bodies return.  Nothing is assumed of the
\* callers (RequestStop, TryEnqueue, Enqueue), of failures (StartFails), of
\* spurious wakeups or of the hard timeout (Detach).
Fairness ==
    /\ \A w \in Workers :
          /\ WF_vars(StartWorker(w))
          /\ WF_vars(WorkerWait(w))
          /\ WF_vars(WorkerTake(w))
          /\ WF_vars(WorkerFinish(w))
          /\ WF_vars(WorkerLeave(w))
          /\ WF_vars(WorkerExit(w))
    /\ \A l \in Loops :
          /\ WF_vars(StartLoop(l))
          /\ WF_vars(LoopLeave(l))
          /\ WF_vars(LoopExit(l))
    /\ WF_vars(StartDone)
    /\ WF_vars(SignalStop)
    /\ WF_vars(AllExited)
    /\ WF_vars(UnwindJoined)
    /\ WF_vars(ShutdownSignal)
    /\ WF_vars(ShutdownJoined)

Spec == SafetySpec /\ Fairness

-----------------------------------------------------------------------------
(* Properties                                                              *)

\* Every variable of the pool and of the owner's program has its type.
TypeOK ==
    /\ tasks \in Seq(Task)
    /\ stopping \in BOOLEAN
    /\ worker \in [Workers -> WorkerState]
    /\ job \in [Workers -> Task \union {None}]
    /\ loop \in [Loops -> {"absent", "running", "leaving", "exited"}]
    /\ dispatched \in [Task -> Loops \union {None}]
    /\ alive \in Int
    /\ stopFlag \in BOOLEAN
    /\ owner \in {"starting", "serving", "waiting", "unwinding", "teardown",
                  "joining", "freed", "detached"}
    /\ accepted \in Seq(Task)
    /\ started \in Seq(Task)
    /\ finished \subseteq Task
    /\ \A w \in Workers : worker[w] = "running" => job[w] \in Task

\* The pool is work-conserving: while some worker sleeps on the condition
\* variable there is, for every queued task, a worker that is awake and about
\* to look at the queue.  signal() wakes one sleeper per task, and a worker
\* that finishes a task re-checks the queue before it sleeps (workerLoop).
NoIdleSleep == Waiting /= {} => Cardinality(Idle) >= Len(tasks)

\* No worker sleeps once the pool is stopping: the flag is set and broadcast
\* under the lock that a worker holds from its test of the flag to its wait.
NoSleepPastStop == stopping => Waiting = {}

\* Workers take the accepted tasks in the order they were accepted, each of
\* them once: what was taken, followed by what is queued, is what was accepted.
TasksStartInOrder == started \o tasks = accepted

\* After a completed start, the live-thread counter reaching 0 means that every
\* worker and every loop has left: the joins that follow in waitFor and in
\* shutdown cannot block.
JoinNeverBlocks ==
    owner = "waiting" /\ alive = 0 =>
        /\ \A w \in Workers : worker[w] = "exited"
        /\ \A l \in Loops : loop[l] = "exited"

\* The pool, the outboxes and the counter are freed only when no thread that
\* could still touch them is left, after a clean stop and after the unwind of a
\* start that failed at any point.
FreedAfterThreads ==
    owner = "freed" => Gone(worker, Workers) /\ Gone(loop, Loops)

\* No task is left behind once every worker has left.  It does not hold always:
\* enqueue adds a task to a pool that has stopped.
NoTaskStranded ==
    (Workers /= {} /\ \A w \in Workers : worker[w] = "exited") => tasks = <<>>

\* Every accepted HTTP task is run to its end, whether or not the server is
\* stopped meanwhile, and whether or not the start fails.
AcceptedTasksFinish ==
    \A t \in HttpTasks : (dispatched[t] /= None) ~> (t \in finished)

\* A requested stop comes to an end by itself: with handlers that return, the
\* server tears itself down without the help of the hard timeout, unless a
\* WebSocket task was queued behind the last worker's exit.
StopsCleanly ==
    stopFlag ~> (owner \in {"freed", "detached"} \/ ~NoTaskStranded)
=============================================================================
