------------------------------- MODULE EvalJobs -------------------------------
(***************************************************************************)
(* The collector threads of nix-eval-jobs (src/src/nix-eval-jobs.cc).      *)
(* main() starts one collector per worker process and joins them.  Each   *)
(* collector owns a worker process (Proc) and talks to it over pipes:     *)
(* it reads a status line ("next", "restart", an error, or end of file    *)
(* when the worker died), picks an attribute path from the shared `todo`  *)
(* set, sends "do <path>", reads the response, and either prints it (a    *)
(* job) or adds the attribute set's children to `todo`.  All collectors   *)
(* share todo, active and exc under one mutex and the condition variable  *)
(* `wakeup`.  Any error becomes state->exc, which stops every collector.  *)
(*                                                                         *)
(* The worker process (worker.cc) is the environment: it answers every    *)
(* request correctly, but it may ask to be restarted, fail to start or    *)
(* die at any time (a bounded number of times).  Attribute paths are      *)
(* sequences of attribute names; Tree[p] is the set of names below p.      *)
(***************************************************************************)
EXTENDS Integers, Sequences, FiniteSets

CONSTANTS Collectors,   \* myArgs.nrWorkers collector threads
          Tree,         \* attribute path -> names of its attributes ({} for a job)
          MaxRestarts,  \* "restart" replies the workers send in total
          MaxFaults     \* worker deaths and start-up errors in total

Paths == DOMAIN Tree
Jobs == {p \in Paths : Tree[p] = {}}

None == [kind |-> "none"]
Ok == [kind |-> "ok"]

\* std::set<json> orders arrays lexicographically; begin() is the least.
RECURSIVE LexLess(_, _)
LexLess(s, t) ==
  IF s = <<>> THEN t # <<>>
  ELSE IF t = <<>> THEN FALSE
  ELSE IF Head(s) # Head(t) THEN Head(s) < Head(t)
  ELSE LexLess(Tail(s), Tail(t))
Least(S) == CHOOSE p \in S : \A q \in S \ {p} : LexLess(p, q)

VARIABLES todo,      \* state->todo: paths not yet handed to a worker
          active,    \* state->active: paths handed to a worker
          exc,       \* state->exc: the error main rethrows
          cpc,       \* position of each collector
          job,       \* attrPath: the path a collector is handling
          newAttrs,  \* children read from the worker's response
          hasProc,   \* proc_ holds a worker process
          alive,     \* that worker process is still running
          printed,   \* number of times each path was printed as a job
          restarts,  \* "restart" replies so far
          faults,    \* worker failures so far
          result     \* what main does after joining: None, Ok or the error

vars == <<todo, active, exc, cpc, job, newAttrs, hasProc, alive, printed,
          restarts, faults, result>>

Init ==
  /\ todo = {<<>>}
  /\ active = {}
  /\ exc = None
  /\ cpc = [c \in Collectors |-> "check"]
  /\ job = [c \in Collectors |-> <<>>]
  /\ newAttrs = [c \in Collectors |-> {}]
  /\ hasProc = [c \in Collectors |-> FALSE]
  /\ alive = [c \in Collectors |-> FALSE]
  /\ printed = [p \in Paths |-> 0]
  /\ restarts = 0
  /\ faults = 0
  /\ result = None

\* wakeup.notify_all(): every waiting collector re-checks.
WakeAll(p) == [c \in Collectors |-> IF p[c] = "wait" THEN "pick" ELSE p[c]]

\* The catch block of collector: record the error (replacing any earlier
\* one), wake everybody, and return.  handleBrokenWorkerPipe always throws.
Fail(c) ==
  /\ exc' = [kind |-> "error", by |-> c]
  /\ cpc' = [WakeAll(cpc) EXCEPT ![c] = "done"]

\* Top of the collector loop: start a worker if there is none, then read
\* its status line: "next" (go on), "restart" (drop the process and loop),
\* an error the worker caught (it fails to open the store or to evaluate
\* the release expression), or end of file from a dead worker.
CheckWorker(c) ==
  /\ cpc[c] = "check"
  /\ LET fresh == ~hasProc[c] IN
     \/ /\ fresh \/ alive[c]
        /\ cpc' = [cpc EXCEPT ![c] = "pick"]
        /\ hasProc' = [hasProc EXCEPT ![c] = TRUE]
        /\ alive' = [alive EXCEPT ![c] = TRUE]
        /\ UNCHANGED <<exc, restarts, faults>>
     \/ /\ fresh \/ alive[c]
        /\ restarts < MaxRestarts
        /\ restarts' = restarts + 1
        /\ hasProc' = [hasProc EXCEPT ![c] = FALSE]
        /\ alive' = [alive EXCEPT ![c] = FALSE]
        /\ UNCHANGED <<cpc, exc, faults>>
     \/ /\ fresh \/ alive[c]
        /\ faults < MaxFaults
        /\ faults' = faults + 1
        /\ hasProc' = [hasProc EXCEPT ![c] = TRUE]
        /\ Fail(c)
        /\ UNCHANGED <<alive, restarts>>
     \/ /\ ~fresh /\ ~alive[c]
        /\ Fail(c)
        /\ UNCHANGED <<hasProc, alive, restarts, faults>>
  /\ UNCHANGED <<todo, active, job, newAttrs, printed, result>>

\* The locked wait loop: return (after writing "exit" to the worker) when
\* nothing is left to do or another collector failed, take the least path
\* of todo, or wait.
NothingLeft == (todo = {} /\ active = {}) \/ exc # None

Pick(c) ==
  /\ cpc[c] = "pick"
  /\ \/ /\ NothingLeft
        /\ IF alive[c]
           THEN cpc' = [cpc EXCEPT ![c] = "done"] /\ UNCHANGED exc
           ELSE Fail(c)
        /\ UNCHANGED <<todo, active, job>>
     \/ /\ ~NothingLeft
        /\ todo # {}
        /\ job' = [job EXCEPT ![c] = Least(todo)]
        /\ todo' = todo \ {Least(todo)}
        /\ active' = active \cup {Least(todo)}
        /\ cpc' = [cpc EXCEPT ![c] = "send"]
        /\ UNCHANGED exc
     \/ /\ ~NothingLeft
        /\ todo = {}
        /\ cpc' = [cpc EXCEPT ![c] = "wait"]
        /\ UNCHANGED <<todo, active, job, exc>>
  /\ UNCHANGED <<newAttrs, hasProc, alive, printed, restarts, faults, result>>

\* std::condition_variable::wait may return without a notification.
SpuriousWake(c) ==
  /\ cpc[c] = "wait"
  /\ cpc' = [cpc EXCEPT ![c] = "pick"]
  /\ UNCHANGED <<todo, active, exc, job, newAttrs, hasProc, alive, printed,
                 restarts, faults, result>>

\* Write "do <path>"; a broken pipe is an error.
Send(c) ==
  /\ cpc[c] = "send"
  /\ IF alive[c] THEN cpc' = [cpc EXCEPT ![c] = "recv"] /\ UNCHANGED exc
                 ELSE Fail(c)
  /\ UNCHANGED <<todo, active, job, newAttrs, hasProc, alive, printed,
                 restarts, faults, result>>

\* The children of path p as the response names them: newAttr is a copy of
\* response["attrPath"] with the attribute name appended.
\* Seeded fault: the name is put in front of the path.
ChildPathsPrepend(p) == {<<n>> \o p : n \in Tree[p]}
ChildPaths(p) == {Append(p, n) : n \in Tree[p]}

\* Whether the response for p is printed: it is when it has no "attrs".
\* Seeded fault: every response is printed.
PrintsAll(p) == TRUE
Prints(p) == Tree[p] = {}

\* Read the response.  An attribute set answers with its attribute names,
\* each appended to the path; a job's response is printed under the lock.
Recv(c) ==
  LET p == job[c] IN
  /\ cpc[c] = "recv"
  /\ \/ /\ alive[c]
        /\ newAttrs' = [newAttrs EXCEPT ![c] = ChildPaths(p)]
        /\ printed' = IF Prints(p) THEN [printed EXCEPT ![p] = @ + 1] ELSE printed
        /\ cpc' = [cpc EXCEPT ![c] = "publish"]
        /\ UNCHANGED exc
     \/ /\ ~alive[c]
        /\ Fail(c)
        /\ UNCHANGED <<newAttrs, printed>>
  /\ UNCHANGED <<todo, active, job, hasProc, alive, restarts, faults, result>>

\* Seeded faults: the path is never retired from active; nobody is woken.
PublishKeep(c) ==
  /\ cpc[c] = "publish"
  /\ todo' = todo \cup newAttrs[c]
  /\ cpc' = [WakeAll(cpc) EXCEPT ![c] = "check"]
  /\ UNCHANGED <<active, exc, job, newAttrs, hasProc, alive, printed, restarts,
                 faults, result>>
PublishSilent(c) ==
  /\ cpc[c] = "publish"
  /\ active' = active \ {job[c]}
  /\ todo' = todo \cup newAttrs[c]
  /\ cpc' = [cpc EXCEPT ![c] = "check"]
  /\ UNCHANGED <<exc, job, newAttrs, hasProc, alive, printed, restarts,
                 faults, result>>

\* Under the lock: the path is no longer active, its children join todo,
\* and every waiting collector is woken.
Publish(c) ==
  /\ cpc[c] = "publish"
  /\ active' = active \ {job[c]}
  /\ todo' = todo \cup newAttrs[c]
  /\ cpc' = [WakeAll(cpc) EXCEPT ![c] = "check"]
  /\ UNCHANGED <<exc, job, newAttrs, hasProc, alive, printed, restarts,
                 faults, result>>

\* A worker process dies (out of memory, a crash in the evaluator).
WorkerDies(c) ==
  /\ hasProc[c] /\ alive[c]
  /\ cpc[c] # "done"
  /\ faults < MaxFaults
  /\ faults' = faults + 1
  /\ alive' = [alive EXCEPT ![c] = FALSE]
  /\ UNCHANGED <<todo, active, exc, cpc, job, newAttrs, hasProc, printed,
                 restarts, result>>

\* main(): after joining every collector, rethrow state->exc if set.
MainJoin ==
  /\ result = None
  /\ \A c \in Collectors : cpc[c] = "done"
  /\ result' = IF exc # None THEN exc ELSE Ok
  /\ UNCHANGED <<todo, active, exc, cpc, job, newAttrs, hasProc, alive,
                 printed, restarts, faults>>

Collector(c) == CheckWorker(c) \/ Pick(c) \/ Send(c) \/ Recv(c) \/ Publish(c)

\* The process has exited.
Finished == result # None /\ UNCHANGED vars

Next ==
  \/ \E c \in Collectors : Collector(c) \/ SpuriousWake(c) \/ WorkerDies(c)
  \/ MainJoin
  \/ Finished

\* Every collector thread that can run eventually does; workers are not
\* required to die and waiters are not required to wake spuriously.
Spec == Init /\ [][Next]_vars
        /\ \A c \in Collectors : WF_vars(Collector(c))
        /\ WF_vars(MainJoin)

-----------------------------------------------------------------------------
TypeOK ==
  /\ todo \subseteq Paths /\ active \subseteq Paths
  /\ exc \in {None} \cup [kind : {"error"}, by : Collectors]
  /\ cpc \in [Collectors -> {"check", "pick", "wait", "send", "recv", "publish", "done"}]
  /\ job \in [Collectors -> Paths]
  /\ newAttrs \in [Collectors -> SUBSET Paths]
  /\ hasProc \in [Collectors -> BOOLEAN] /\ alive \in [Collectors -> BOOLEAN]
  /\ printed \in [Paths -> Nat]
  /\ restarts \in 0..MaxRestarts /\ faults \in 0..MaxFaults
  /\ result \in {None, Ok} \cup [kind : {"error"}, by : Collectors]

\* While no collector has failed, state->active is exactly the set of paths
\* that collectors hold between taking them from todo and publishing the
\* result, and no two collectors hold the same path: a path is never lost
\* between the lock that takes it and the lock that retires it.
ActiveOwned ==
  exc = None =>
    /\ active = {job[c] : c \in {d \in Collectors : cpc[d] \in {"send", "recv", "publish"}}}
    /\ \A c, d \in Collectors :
         c # d /\ cpc[c] \in {"send", "recv", "publish"}
               /\ cpc[d] \in {"send", "recv", "publish"} => job[c] # job[d]

\* No job is printed twice, and when main() returns without an error every
\* job of the tree has been printed exactly once and no attribute set was:
\* the collectors do not exit while another collector may still add work.
AllJobsOnce ==
  /\ \A p \in Paths : printed[p] <= 1
  /\ result = Ok => \A p \in Paths : printed[p] = IF p \in Jobs THEN 1 ELSE 0

\* main() eventually joins every collector, whatever the workers do.
CollectorsExit == <>(result # None)
=============================================================================
