------------------------------ MODULE ThreadPool ------------------------------
(***************************************************************************)
(* nix::ThreadPool (src/lix/libutil/thread-pool.cc).  The main thread      *)
(* enqueues root work items, then calls process(), which runs doWork(true) *)
(* on the main thread beside the worker threads that enqueue() started.   *)
(* A work item may enqueue further items (its Children) before it returns *)
(* or throws.  The shared state (pending queue, active count, worker list, *)
(* first exception) is guarded by one mutex; a locked block is one step.  *)
(* The condition variable `work` is a set of waiting threads: notify_one   *)
(* wakes one of them, notify_all all of them, and a waiter may also wake   *)
(* spuriously.  Worker threads see `quit` as an interrupt request while    *)
(* they run an item (interruptCheck), so such an item may throw            *)
(* Interrupted; enqueue() throws ThreadPoolShutDown once quit is set.      *)
(***************************************************************************)
EXTENDS Integers, Sequences, FiniteSets

CONSTANTS Main,       \* the thread that calls enqueue() for the roots and process()
          NWorkers,   \* maxThreads - 1: worker threads enqueue() may start
          Items,      \* work items
          RootSeq,    \* items the main thread enqueues before process(), in order
          Children    \* Children[i]: the items i enqueues, in order

Workers == 1..NWorkers
Threads == {Main} \cup Workers
MaxThreads == NWorkers + 1

ASSUME Main \notin Workers /\ NWorkers \in Nat

None == [kind |-> "none"]
Ok == [kind |-> "ok"]
Exc(k, i) == [kind |-> k, item |-> i]
ExcKinds == {"failed", "shutdown", "interrupted"}

VARIABLES pending,    \* state->pending: queue of enqueued items
          active,     \* state->active: items being run
          draining,   \* state->draining
          quit,       \* quit (an atomic flag read outside the lock)
          exception,  \* state->exception: the exception process() rethrows
          workers,    \* state->workers: threads started and not yet reaped
          started,    \* every worker thread ever started
          pc,         \* position of each thread in doWork
          cur,        \* the item a thread runs
          todo,       \* children the running item has still to enqueue
          exc,        \* doWork's local `exc` of each thread
          didWork,    \* doWork's local `didWork` of each thread
          mpc,        \* main thread outside doWork: "enqueue", "process",
                      \* "shutdown", "join", "end"
          reap,       \* shutdown()'s local list of threads to join
          result,     \* how process() ended: None, Ok or the exception it threw
          fails,      \* the items whose body throws (fixed in Init)
          enq,        \* items enqueued so far
          ran,        \* items whose body returned or threw
          runs,       \* number of times each item was taken from the queue
          nroots      \* roots the main thread has enqueued

vars == <<pending, active, draining, quit, exception, workers, started, pc,
          cur, todo, exc, didWork, mpc, reap, result, fails, enq, ran, runs, nroots>>


-----------------------------------------------------------------------------
Init ==
  /\ pending = <<>>
  /\ active = 0
  /\ draining = FALSE
  /\ quit = FALSE
  /\ exception = None
  /\ workers = {}
  /\ started = {}
  /\ pc = [t \in Threads |-> IF t = Main THEN "outside" ELSE "unstarted"]
  /\ cur = [t \in Threads |-> RootSeq[1]]
  /\ todo = [t \in Threads |-> <<>>]
  /\ exc = [t \in Threads |-> None]
  /\ didWork = [t \in Threads |-> FALSE]
  /\ mpc = "enqueue"
  /\ reap = {}
  /\ result = None
  /\ fails \in SUBSET Items
  /\ enq = {}
  /\ ran = {}
  /\ runs = [i \in Items |-> 0]
  /\ nroots = 0

\* Condition variable wake-ups, applied to a thread-position function.
\* A woken thread re-enters the inner wait loop of doWork ("woken").
NotifyOne(p) ==
  IF \E t \in Threads : p[t] = "wait"
  THEN {[p EXCEPT ![t] = "woken"] : t \in {u \in Threads : p[u] = "wait"}}
  ELSE {p}
NotifyAll(p) == [t \in Threads |-> IF p[t] = "wait" THEN "woken" ELSE p[t]]

\* Whether enqueue() starts a worker: more items pending (counting the one
\* being pushed) than threads to run them, and fewer than maxThreads
\* threads; process() counts as one.
\* Seeded fault: the bound on the number of threads is missing.
SpawnsAlways == Len(pending) + 1 > Cardinality(workers) + 1
Spawns == Len(pending) + 1 > Cardinality(workers) + 1
            /\ Cardinality(workers) + 1 < MaxThreads

\* ThreadPool::enqueue(i), called by thread t and not throwing: push the
\* item, start a worker when more items are pending than threads can run,
\* and notify one waiter.
Enqueue(t, i) ==
  LET w == Cardinality(started) + 1
      p1 == IF Spawns THEN [pc EXCEPT ![w] = "top"] ELSE pc
  IN /\ pending' = Append(pending, i)
     /\ enq' = enq \cup {i}
     /\ workers' = IF Spawns THEN workers \cup {w} ELSE workers
     /\ started' = IF Spawns THEN started \cup {w} ELSE started
     /\ pc' \in NotifyOne(p1)

-----------------------------------------------------------------------------
(* The main thread.                                                        *)

\* enqueue() of the next root, before process().  Workers started by
\* earlier calls already run items meanwhile, and one whose item threw has
\* set quit: enqueue() then throws ThreadPoolShutDown out of the caller,
\* before process() is reached, and ~ThreadPool runs shutdown().
MainEnqueue ==
  LET k == nroots + 1 IN
  /\ mpc = "enqueue"
  /\ \/ /\ ~quit
        /\ Enqueue(Main, RootSeq[k])
        /\ nroots' = k
        /\ mpc' = IF k = Len(RootSeq) THEN "process" ELSE "enqueue"
        /\ UNCHANGED result
     \/ /\ quit
        /\ result' = Exc("shutdown", RootSeq[k])
        /\ mpc' = "shutdown"
        /\ UNCHANGED <<pending, enq, workers, started, pc, nroots>>
  /\ UNCHANGED <<active, draining, quit, exception, cur, todo, exc, didWork,
                 reap, fails, ran, runs>>

\* process(): set draining, then run doWork(true) on the main thread.
ProcessStart ==
  /\ mpc = "process"
  /\ pc[Main] = "outside"
  /\ draining' = TRUE
  /\ pc' = [pc EXCEPT ![Main] = "top"]
  /\ UNCHANGED <<pending, active, quit, exception, workers, started, cur, todo,
                 exc, didWork, mpc, reap, result, fails, enq, ran, runs, nroots>>

\* doWork(true) returned: rethrow state->exception if there is one.  Either
\* way shutdown() follows, from the catch block or from ~ThreadPool.
ProcessReturn ==
  /\ mpc = "process"
  /\ pc[Main] = "exited"
  /\ result' = IF exception # None THEN exception ELSE Ok
  /\ mpc' = "shutdown"
  /\ UNCHANGED <<pending, active, draining, quit, exception, workers, started,
                 pc, cur, todo, exc, didWork, reap, fails, enq, ran, runs, nroots>>

\* shutdown(): set quit and take the worker list under the lock, then
\* notify_all and join every worker; return at once if there are none.
Shutdown ==
  /\ mpc = "shutdown"
  /\ quit' = TRUE
  /\ reap' = workers
  /\ workers' = {}
  /\ pc' = IF workers = {} THEN pc ELSE NotifyAll(pc)
  /\ mpc' = IF workers = {} THEN "end" ELSE "join"
  /\ UNCHANGED <<pending, active, draining, exception, started, cur, todo, exc,
                 didWork, result, fails, enq, ran, runs, nroots>>

\* Seeded fault: the workers are detached instead of joined.
JoinDetached ==
  /\ mpc = "join"
  /\ reap' = {}
  /\ mpc' = "end"
  /\ UNCHANGED <<pending, active, draining, quit, exception, workers, started,
                 pc, cur, todo, exc, didWork, result, fails, enq, ran, runs, nroots>>

\* thr.join() on the workers in the order they were started.
Join ==
  LET w == CHOOSE u \in reap : \A v \in reap : u <= v IN
  /\ mpc = "join"
  /\ pc[w] = "exited"
  /\ reap' = reap \ {w}
  /\ mpc' = IF reap = {w} THEN "end" ELSE "join"
  /\ UNCHANGED <<pending, active, draining, quit, exception, workers, started,
                 pc, cur, todo, exc, didWork, result, fails, enq, ran, runs, nroots>>

-----------------------------------------------------------------------------
(* doWork, on the main thread (mainThread = true) and on the workers.       *)

\* The locked block at the top of the loop of doWork.  A thread that has
\* run an item ("top" with didWork) first accounts for it: it decrements
\* active and, if the item threw, records the exception as
\* state->exception when none is recorded yet (setting quit and notifying
\* all), and otherwise drops it.  Then the inner wait loop, which a thread
\* woken from the condition variable ("woken") re-enters without
\* accounting: return on quit, take the head of pending, return after
\* setting quit when nothing is active or pending while draining, or wait.
\* Each outcome of the block is one action; these operators give the
\* state after the accounting part.
Accounts(t) == pc[t] = "top" /\ didWork[t]
\* Seeded fault: the decrement of state->active is missing.
ActiveKept(t) == active
ActiveAfter(t) == IF Accounts(t) THEN active - 1 ELSE active
\* Seeded fault: the exception is recorded even when one already is.
RecordsAny(t) == Accounts(t) /\ exc[t] # None
Records(t) == Accounts(t) /\ exc[t] # None /\ exception = None
QuitAfter(t) == quit \/ Records(t)
PcAfter(t) == IF Records(t) THEN NotifyAll(pc) ELSE pc

\* What every outcome of the block does with the accounting.
Account(t) ==
  /\ pc[t] \in {"top", "woken"}
  /\ exception' = IF Records(t) THEN exc[t] ELSE exception
  /\ UNCHANGED <<draining, workers, started, exc, didWork, mpc, reap, result,
                 fails, enq, ran, nroots>>

LoopQuit(t) ==
  /\ Account(t)
  /\ QuitAfter(t)
  /\ pc' = [PcAfter(t) EXCEPT ![t] = "exited"]
  /\ active' = ActiveAfter(t)
  /\ quit' = TRUE
  /\ UNCHANGED <<pending, cur, todo, runs>>

LoopTake(t) ==
  LET item == Head(pending) IN
  /\ Account(t)
  /\ ~QuitAfter(t)
  /\ pending # <<>>
  /\ pending' = Tail(pending)
  /\ active' = ActiveAfter(t) + 1
  /\ cur' = [cur EXCEPT ![t] = item]
  /\ todo' = [todo EXCEPT ![t] = Children[item]]
  /\ runs' = [runs EXCEPT ![item] = @ + 1]
  /\ pc' = [PcAfter(t) EXCEPT ![t] = "run"]
  /\ UNCHANGED quit

\* Seeded faults: the draining exit that ignores items still active, and
\* the one that does not wake the other threads.
DrainIdleAny(t) == draining
DrainIdle(t) == ActiveAfter(t) = 0 /\ draining
LoopDrainSilent(t) ==
  /\ Account(t)
  /\ ~QuitAfter(t) /\ pending = <<>> /\ DrainIdle(t)
  /\ quit' = TRUE
  /\ pc' = [PcAfter(t) EXCEPT ![t] = "exited"]
  /\ active' = ActiveAfter(t)
  /\ UNCHANGED <<pending, cur, todo, runs>>

LoopDrain(t) ==
  /\ Account(t)
  /\ ~QuitAfter(t) /\ pending = <<>> /\ DrainIdle(t)
  /\ quit' = TRUE
  /\ pc' = [NotifyAll(PcAfter(t)) EXCEPT ![t] = "exited"]
  /\ active' = ActiveAfter(t)
  /\ UNCHANGED <<pending, cur, todo, runs>>

LoopWait(t) ==
  /\ Account(t)
  /\ ~QuitAfter(t) /\ pending = <<>> /\ ~DrainIdle(t)
  /\ pc' = [PcAfter(t) EXCEPT ![t] = "wait"]
  /\ active' = ActiveAfter(t)
  /\ UNCHANGED <<pending, cur, todo, runs, quit>>

Loop(t) == LoopQuit(t) \/ LoopTake(t) \/ LoopDrain(t) \/ LoopWait(t)

\* std::condition_variable::wait may return without a notification.
SpuriousWake(t) ==
  /\ pc[t] = "wait"
  /\ pc' = [pc EXCEPT ![t] = "woken"]
  /\ UNCHANGED <<pending, active, draining, quit, exception, workers, started,
                 cur, todo, exc, didWork, mpc, reap, result, fails, enq, ran, runs, nroots>>

\* The item's body ends: w() returns, or throws and doWork catches it into
\* exc.  Either way didWork is set and the loop goes round.
EndItem(t, e) ==
  /\ pc' = [pc EXCEPT ![t] = "top"]
  /\ didWork' = [didWork EXCEPT ![t] = TRUE]
  /\ exc' = IF e = None THEN exc ELSE [exc EXCEPT ![t] = e]

\* The running item enqueues its next child; enqueue() throws
\* ThreadPoolShutDown, which ends the item, once quit is set.
RunEnqueue(t) ==
  /\ pc[t] = "run"
  /\ todo[t] # <<>>
  /\ \/ /\ ~quit
        /\ Enqueue(t, Head(todo[t]))
        /\ todo' = [todo EXCEPT ![t] = Tail(@)]
        /\ UNCHANGED <<exc, didWork>>
     \/ /\ quit
        /\ EndItem(t, Exc("shutdown", cur[t]))
        /\ UNCHANGED <<pending, enq, workers, started, todo>>
  /\ UNCHANGED <<active, draining, quit, exception, cur, mpc, reap, result,
                 fails, ran, runs, nroots>>

\* A worker's item polls checkInterrupt(), which throws Interrupted once
\* quit is set (interruptCheck of doWork(false)).
RunInterrupted(t) ==
  /\ pc[t] = "run"
  /\ t \in Workers
  /\ quit
  /\ EndItem(t, Exc("interrupted", cur[t]))
  /\ UNCHANGED <<pending, active, draining, quit, exception, workers, started,
                 cur, todo, mpc, reap, result, fails, enq, ran, runs, nroots>>

\* A failing item throws, before or after enqueueing some of its children.
RunThrow(t) ==
  /\ pc[t] = "run"
  /\ cur[t] \in fails
  /\ EndItem(t, Exc("failed", cur[t]))
  /\ UNCHANGED <<pending, active, draining, quit, exception, workers, started,
                 cur, todo, mpc, reap, result, fails, enq, ran, runs, nroots>>

\* The item returns after enqueueing all its children.
RunReturn(t) ==
  /\ pc[t] = "run"
  /\ todo[t] = <<>>
  /\ cur[t] \notin fails
  /\ EndItem(t, None)
  /\ ran' = ran \cup {cur[t]}
  /\ UNCHANGED <<pending, active, draining, quit, exception, workers, started,
                 cur, todo, mpc, reap, result, fails, enq, runs, nroots>>

Step(t) == Loop(t) \/ RunEnqueue(t) \/ RunInterrupted(t) \/ RunThrow(t) \/ RunReturn(t)

MainStep == MainEnqueue \/ ProcessStart \/ ProcessReturn \/ Shutdown \/ Join

\* The program goes on after the pool is destroyed.
Finished == mpc = "end" /\ UNCHANGED vars

Next ==
  \/ MainStep
  \/ \E t \in Threads : Step(t) \/ SpuriousWake(t)
  \/ Finished

\* Every thread the OS runs makes progress; spurious wake-ups are not
\* relied on.
Spec == Init /\ [][Next]_vars /\ WF_vars(MainStep) /\ \A t \in Threads : WF_vars(Step(t))

-----------------------------------------------------------------------------
TypeOK ==
  /\ pending \in Seq(Items)
  /\ active \in 0..Cardinality(Threads)
  /\ {draining, quit} \subseteq BOOLEAN
  /\ exception \in {None} \cup [kind : ExcKinds, item : Items]
  /\ workers \subseteq started /\ started \subseteq Workers
  /\ pc \in [Threads -> {"outside", "unstarted", "top", "woken", "wait", "run", "exited"}]
  /\ cur \in [Threads -> Items]
  /\ exc \in [Threads -> {None} \cup [kind : ExcKinds, item : Items]]
  /\ mpc \in {"enqueue", "process", "shutdown", "join", "end"}
  /\ reap \subseteq Workers
  /\ enq \subseteq Items /\ ran \subseteq enq
  /\ runs \in [Items -> Nat]

\* assert(state->active) in doWork: state->active counts exactly the threads
\* that run an item or have finished one and not yet re-taken the lock, so
\* it never goes below zero and the decrement is never missing.
ActiveAccounted ==
  active = Cardinality({t \in Threads : pc[t] = "run" \/ (pc[t] = "top" /\ didWork[t])})

\* process() returns normally only when no work is pending or active: every
\* item ever enqueued (by the main thread or by another item) has been taken
\* exactly once and its body has returned without throwing.
ProcessComplete ==
  result = Ok => \A i \in enq : i \in ran /\ runs[i] = 1

\* The exception doWork records for process() to rethrow is the first
\* failure of an item's own body: the Interrupted and ThreadPoolShutDown
\* exceptions that the other items throw once that failure has set quit,
\* and that are accounted under the lock after it, never replace it.
RecordedIsItemFailure ==
  exception # None => exception.kind = "failed"

\* When the pool's user sees an exception, it is the exception of a failing
\* item's own body (the one doWork records as state->exception and that
\* process() is written to rethrow), never the ThreadPoolShutDown or
\* Interrupted that the other items get once quit is set.
RethrowsItemFailure ==
  result \notin {None, Ok} => result.kind = "failed"

\* When the pool is gone (shutdown() returned, from process()'s catch block
\* or from ~ThreadPool), no worker thread is still running: none of them
\* can touch the caller's stack frame any more.
WorkersJoined ==
  mpc = "end" => \A w \in started : pc[w] = "exited"

\* process() returns (or throws) and the pool shuts down, without relying
\* on spurious wake-ups.
ProcessTerminates == <>(mpc = "end")
=============================================================================
