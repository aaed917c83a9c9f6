-------------------------- MODULE DrvOutputSubstitution --------------------------
(***************************************************************************)
(* DrvOutputSubstitutionGoal (src/src/libstore/build/                     *)
(* drv-output-substitution-goal.cc): substitute the realisation of one     *)
(* derivation output `Id`.  The goal is a state machine whose `state`      *)
(* member names the method the build worker calls next (init,             *)
(* realisationFetched, outPathValid); each call returns what the goal      *)
(* waits for: a build slot, the asynchronous query of a substituter        *)
(* ("world"), or the dependency goals it created.                         *)
(*                                                                         *)
(* The environment: the build worker resumes the goal when what it waits   *)
(* for is there; each query of a substituter misses, throws, or returns a  *)
(* realisation whose dependency `Dep` has some output path; a dependency   *)
(* goal ends with one of the goal exit codes and, on success, leaves a     *)
(* local realisation of its output; other goals may register the           *)
(* dependency's realisation locally at any time.                           *)
(***************************************************************************)
EXTENDS Integers, Sequences, FiniteSets

CONSTANTS Subs,       \* getDefaultSubstituters(), in order
          Id,         \* the derivation output the goal substitutes
          Dep,        \* another output a fetched realisation may depend on
          OutPaths,   \* output paths a realisation may give
          UseSubstitutes,
          None, Pending, Miss, Throw  \* model values: no value, and a query's
                                      \* state: running, no realisation, threw
SubSet == {Subs[i] : i \in 1..Len(Subs)}
\* A realisation of Id fetched from substituter s: its outPath and its
\* dependentRealisations (output -> output path), which may name Id itself.
Real(s, out, deps) == [from |-> s, out |-> out, deps |-> deps]
DepMaps == UNION {[D -> OutPaths] : D \in SUBSET {Id, Dep}}
Realisations == {Real(s, o, f) : s \in SubSet, o \in OutPaths, f \in DepMaps}
ExitCodes == {"success", "failed", "noSubstituters", "incompleteClosure"}
\* The goal may also end with an exception instead of an exit code.
Results == ExitCodes \cup {"error"}

VARIABLES gstate,      \* state: the method the worker calls next
          waitFor,     \* what the last call returned to wait for
          slot,        \* inBuildSlot of the next call
          subs,        \* remaining substituters
          sub,         \* the current substituter
          download,    \* downloadState->result: Pending, Miss, Throw or a realisation
          outputInfo,  \* the realisation being substituted, or None
          substituterFailed,
          waitees,     \* goals created by realisationFetched, not yet done
          nrFailed, nrNoSubstituters, nrIncompleteClosure,
          localDep,    \* the local store's realisation of Dep: None or a path
          localId,     \* the local store's realisation of Id: None or a realisation
          result,      \* the goal's exit code, or None
          answers      \* <<sub, answer>> pairs realisationFetched took from a query

vars == <<gstate, waitFor, slot, subs, sub, download, outputInfo,
          substituterFailed, waitees, nrFailed, nrNoSubstituters,
          nrIncompleteClosure, localDep, localId, result, answers>>

\* The goal was just created (constructor): the worker will call init.
\* The local store may already know Id or Dep.
Init ==
  /\ gstate = "init"
  /\ waitFor = "start"
  /\ slot \in BOOLEAN
  /\ subs = <<>>
  /\ sub = None
  /\ download = None
  /\ outputInfo = None
  /\ substituterFailed = FALSE
  /\ waitees = {}
  /\ nrFailed = 0 /\ nrNoSubstituters = 0 /\ nrIncompleteClosure = 0
  /\ localDep \in {None} \cup OutPaths
  /\ localId \in {None} \cup Realisations
  /\ result = None
  /\ answers = {}

-----------------------------------------------------------------------------
\* The inBuildSlot argument of the worker's next call to work(): what the
\* goal was created with, TRUE after a slot was granted, the flag given with
\* WaitForWorld (true) after a query, and no slot after its goals are done.
InBuildSlot == IF waitFor = "start" THEN slot ELSE waitFor \in {"slot", "world"}

\* The worker calls work() once what the goal waits for is there.
Ready ==
  \/ waitFor \in {"start", "slot"}
  \/ waitFor = "world" /\ download # Pending
  \/ waitFor = "goals" /\ waitees = {}

\* The goal returns Finished with exit code ec.
Finished(ec) ==
  /\ result' = ec
  /\ waitFor' = "done"
  /\ UNCHANGED <<gstate, subs, sub, download>>

\* Seeded faults of tryNext: the substituter is not popped from the list;
\* ecNoSubstituters is returned whether or not a substituter failed.
tryNextNoPop(inSlot, list, failed) ==
  \/ /\ ~inSlot
     /\ waitFor' = "slot"
     /\ subs' = list
     /\ UNCHANGED <<gstate, sub, download, result>>
  \/ /\ inSlot
     /\ list = <<>>
     /\ subs' = list
     /\ result' = IF failed THEN "failed" ELSE "noSubstituters"
     /\ waitFor' = "done"
     /\ UNCHANGED <<gstate, sub, download>>
  \/ /\ inSlot
     /\ list # <<>>
     /\ sub' = Head(list)
     /\ subs' = list
     /\ download' = Pending
     /\ gstate' = "realisationFetched"
     /\ waitFor' = "world"
     /\ UNCHANGED result

tryNextAlwaysNoSubstituters(inSlot, list, failed) ==
  \/ /\ inSlot
     /\ list = <<>>
     /\ subs' = list
     /\ result' = "noSubstituters"
     /\ waitFor' = "done"
     /\ UNCHANGED <<gstate, sub, download>>
  \/ /\ ~inSlot
     /\ waitFor' = "slot"
     /\ subs' = list
     /\ UNCHANGED <<gstate, sub, download, result>>
  \/ /\ inSlot
     /\ list # <<>>
     /\ sub' = Head(list)
     /\ subs' = Tail(list)
     /\ download' = Pending
     /\ gstate' = "realisationFetched"
     /\ waitFor' = "world"
     /\ UNCHANGED result

\* tryNext(inBuildSlot), over the substituter list `list` and the value
\* `failed` of substituterFailed it sees.
tryNext(inSlot, list, failed) ==
  \/ /\ ~inSlot
     /\ waitFor' = "slot"
     /\ subs' = list
     /\ UNCHANGED <<gstate, sub, download, result>>
  \/ /\ inSlot
     /\ list = <<>>
     /\ subs' = list
     /\ result' = IF failed THEN "failed" ELSE "noSubstituters"
     /\ waitFor' = "done"
     /\ UNCHANGED <<gstate, sub, download>>
  \/ /\ inSlot
     /\ list # <<>>
     /\ sub' = Head(list)
     /\ subs' = Tail(list)
     /\ download' = Pending
     /\ gstate' = "realisationFetched"
     /\ waitFor' = "world"
     /\ UNCHANGED result

\* init(): done if the local store knows Id, else load the substituters.
init ==
  /\ gstate = "init" /\ Ready
  /\ \/ /\ localId # None
        /\ Finished("success")
        /\ UNCHANGED subs
     \/ /\ localId = None
        /\ tryNext(InBuildSlot, IF UseSubstitutes THEN Subs ELSE <<>>, substituterFailed)
  /\ UNCHANGED <<slot, outputInfo, substituterFailed, waitees, nrFailed,
                 nrNoSubstituters, nrIncompleteClosure, localDep, localId, answers>>

\* A realisation whose dependency disagrees with the local store's.
\* Seeded fault: the loop does not skip Id.
DepGoalsWithSelf(r) == DOMAIN r.deps

\* The outputs realisationFetched's loop over dependentRealisations visits
\* and makes a DrvOutputSubstitutionGoal for: all but Id.
DepGoals(r) == DOMAIN r.deps \ {Id}

Incompatible(r) ==
  \E d \in DepGoals(r) : localDep # None /\ localDep # r.deps[d]

\* Seeded fault: the exception of the query is not caught apart.
FetchedUncaught == IF download = Miss THEN None ELSE download

\* The value of outputInfo after `outputInfo = downloadState->result.get()`:
\* an exception leaves it as it was.
Fetched == CASE download = Throw -> outputInfo
             [] download = Miss  -> None
             [] OTHER              -> download

\* realisationFetched(): take the query's answer; try the next substituter
\* on a miss or an incompatible dependency, else wait for the goals that
\* substitute the dependency and the output path.
realisationFetched ==
  /\ gstate = "realisationFetched" /\ Ready
  /\ LET info   == Fetched
         failed == substituterFailed \/ download = Throw
     IN /\ answers' = answers \cup {<<sub, download>>}
        /\ outputInfo' = info
        /\ substituterFailed' = failed
        /\ \/ /\ info = None
              /\ tryNext(InBuildSlot, subs, failed)
              /\ UNCHANGED waitees
           \/ /\ info # None
              /\ \/ /\ Incompatible(info)
                    /\ tryNext(InBuildSlot, subs, failed)
                    /\ UNCHANGED waitees
                 \/ /\ ~Incompatible(info)
                    /\ waitees' = DepGoals(info) \cup {"out"}
                    /\ gstate' = "outPathValid"
                    /\ waitFor' = "goals"
                    /\ UNCHANGED <<subs, sub, download, result>>
  /\ UNCHANGED <<slot, nrFailed, nrNoSubstituters, nrIncompleteClosure,
                 localDep, localId>>

\* LocalStore::registerDrvOutput (not part of this source tree) refuses a
\* realisation unless each of its dependentRealisations is the outPath of
\* the local realisation of that output; Id's own is the one being
\* registered.
StoreAccepts(r) ==
  \A d \in DOMAIN r.deps :
     r.deps[d] = IF d = Id THEN r.out ELSE localDep

\* outPathValid() and finished(): fail if a goal failed, else register the
\* realisation in the local store; an exception of registerDrvOutput is
\* caught and returned as the goal's result.  Whether the row of Id the
\* store may write before it refuses survives is left open.
outPathValid ==
  /\ gstate = "outPathValid" /\ Ready
  /\ \/ /\ nrFailed > 0
        /\ Finished(IF nrNoSubstituters > 0 \/ nrIncompleteClosure > 0
                    THEN "incompleteClosure" ELSE "failed")
        /\ UNCHANGED localId
     \/ /\ nrFailed = 0
        /\ StoreAccepts(outputInfo)
        /\ localId' = outputInfo
        /\ Finished("success")
     \/ /\ nrFailed = 0
        /\ ~StoreAccepts(outputInfo)
        /\ localId' \in {localId, outputInfo}
        /\ Finished("error")
  /\ UNCHANGED <<slot, outputInfo, substituterFailed, waitees, nrFailed,
                 nrNoSubstituters, nrIncompleteClosure, localDep, answers>>

-----------------------------------------------------------------------------
\* Environment.

\* The asynchronous sub->queryRealisation(id) ends.
QueryEnds ==
  /\ download = Pending
  /\ download' \in {Miss, Throw} \cup {Real(sub, o, f) : o \in OutPaths, f \in DepMaps}
  /\ UNCHANGED <<gstate, waitFor, slot, subs, sub, outputInfo, substituterFailed,
                 waitees, nrFailed, nrNoSubstituters, nrIncompleteClosure,
                 localDep, localId, result, answers>>

\* A goal the goal waits for ends with exit code ec; the worker counts it
\* (Goal::waiteeDone).  A dependency goal that succeeds leaves a local
\* realisation of Dep, the one it found if there was none.
WaiteeDone ==
  \E w \in waitees, ec \in ExitCodes :
    /\ waitees' = waitees \ {w}
    /\ nrFailed' = nrFailed + (IF ec = "success" THEN 0 ELSE 1)
    /\ nrNoSubstituters' = nrNoSubstituters + (IF ec = "noSubstituters" THEN 1 ELSE 0)
    /\ nrIncompleteClosure' = nrIncompleteClosure + (IF ec = "incompleteClosure" THEN 1 ELSE 0)
    /\ IF w = Dep /\ ec = "success" /\ localDep = None
         THEN localDep' \in OutPaths
         ELSE UNCHANGED localDep
    /\ UNCHANGED <<gstate, waitFor, slot, subs, sub, download, outputInfo,
                   substituterFailed, localId, result, answers>>

\* Another goal registers a realisation of Dep.
OtherRegisters ==
  /\ localDep = None
  /\ localDep' \in OutPaths
  /\ UNCHANGED <<gstate, waitFor, slot, subs, sub, download, outputInfo,
                 substituterFailed, waitees, nrFailed, nrNoSubstituters,
                 nrIncompleteClosure, localId, result, answers>>

Done == waitFor = "done" /\ UNCHANGED vars

Goal == init \/ realisationFetched \/ outPathValid

Next == Goal \/ QueryEnds \/ WaiteeDone \/ OtherRegisters \/ Done

\* The worker runs a ready goal, queries end and waited-for goals end.
Spec == Init /\ [][Next]_vars /\ WF_vars(Goal) /\ WF_vars(QueryEnds) /\ WF_vars(WaiteeDone)

-----------------------------------------------------------------------------
\* Properties.

TypeOK ==
  /\ gstate \in {"init", "realisationFetched", "outPathValid"}
  /\ waitFor \in {"start", "slot", "world", "goals", "done"}
  /\ slot \in BOOLEAN
  /\ subs \in Seq(SubSet)
  /\ download \in {None, Pending, Miss, Throw} \cup Realisations
  /\ outputInfo \in {None} \cup Realisations
  /\ substituterFailed \in BOOLEAN
  /\ waitees \subseteq {Dep, "out"}
  /\ {nrFailed, nrNoSubstituters, nrIncompleteClosure} \subseteq 0..2
  /\ localDep \in {None} \cup OutPaths
  /\ localId \in {None} \cup Realisations
  /\ result \in {None} \cup Results

\* tryNext's "hack": ecNoSubstituters, which lets the caller just build, is
\* reported only if no substituter's query threw; a failing substituter
\* gives ecFailed.
NoSubstitutersHonest ==
  result = "noSubstituters" => \A a \in answers : a[2] # Throw

\* Every substitution attempt ends: the substituter list is consumed one
\* by one, the worker resumes the goal, and queries and goals end.
Terminates == <>(result # None)

\* The check of realisationFetched that warns "substituter has an
\* incompatible realisation ... ignoring" and tries the next substituter is
\* what keeps an inconsistent realisation from being registered: the goal
\* never ends with registerDrvOutput refusing the realisation it fetched.
NoRefusedRegistration == result # "error"

====
