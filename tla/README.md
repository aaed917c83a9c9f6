# TLA+ models of the Lix evaluator and its concurrent helpers

This directory holds TLA+ specifications of parts of the code under `src/`,
together with the TLC configurations that check them. Each module is
written from the C++ source. `PROJECT.json` maps every definition to the
lines it models, lists the runs and seeded faults, and records the hazards
each property guards against.

## The system

The repository is a slice of Lix, a Nix implementation. The spec
(`spec.md`) describes its core, the lazy evaluator.

| Part | Source | State | Operations | Interacts with |
|---|---|---|---|---|
| Evaluator forcing core | `lix/libexpr/eval.cc` | value cells (thunk, black hole, value), environments, the C++ call stack of nested forces | `ExprLet::eval`, `maybeThunk`, `ExprVar::eval`, `ExprIf::eval`, `ExprConcatStrings::eval` (`+`), `ExprBlackHole::eval`, `!`, `&&`, `\|\|`, `->`, `assert`, forceValue, throw/tryEval | the host (REPL, eval worker) that forces top-level values |
| Evaluator attrsets, calls, equality | `eval.cc` | Bindings, function frames | `ExprAttrs::eval` (`rec`, `__overrides`, dynamic names), `ExprOpUpdate`, `ExprSelect`, `callFunction` argument matching, `eqValues` (`==`, `!=`), `forceValueDeep` | forcing core |
| Search path and file cache | `eval.cc` | `fileEvalCache`, `fileParseCache`, `searchPathResolved` | `findFile`, `resolveSearchPathPath`, `resolveExprPath`, `evalFile`, `resetFileCache` | sandbox (every import is checked), store |
| Path sandbox | `eval.cc`, `libutil/file-system.cc` | allowed paths, resolved-path cache | `checkSourcePath`, `canonPath`, `isDirOrInDir` | file cache |
| ThreadPool | `lix/libutil/thread-pool.cc` | pending queue, active count, draining/quit flags, first exception, worker list | constructor, `enqueue`, `process`, `doWork`, `shutdown` | work items that enqueue more items |
| nix-eval-jobs collector | `src/nix-eval-jobs.cc` | shared `todo`/`active` sets and `exc`; one worker process per collector thread | `collector` (read line, pick job, send, receive, publish), `handleBrokenWorkerPipe`, `main` | worker processes over pipes |
| DrvOutputSubstitutionGoal | `src/libstore/build/drv-output-substitution-goal.cc` | remaining substituters, the outstanding query, output path | `init`, `tryNext`, `realisationFetched`, `outPathValid`, `finished` | the goal worker, substituters |
| Hash encodings | `src/libutil/hash.cc` | — | `printHash16`, `printHash32`, `Hash(string_view)` parsing | store paths, derivations |
| Derivations | `lix/libstore/derivations.cc` | — | ATerm printing/escaping and parsing, the worker-protocol and JSON forms, `tryResolve`, `hashDerivationModulo` | store |
| NAR accessor | `lix/libstore/nar-accessor.cc` | the member tree (`NarMember`), the visitor stack of `NarIndexer`, the source position | the `NarIndexer` callbacks, `find`, `stat`, `readDirectory`, `readFile`, `readLink`, `listNar`, the lazy constructor from a listing | the NAR parser `parseDump`, binary caches that serve listings |
| Others | daemon, run, doctor, config, compression, realisation, make-content-addressed, fetchurl, clang-tidy, headers | | | |

The parts interact in two places. The evaluator runs inside one thread at a
time (spec §5). In nix-eval-jobs, collector threads of one process each
drive a separate evaluator process. The ThreadPool runs store-side work,
such as path queries and copies, whose items enqueue further items.

## Modules

### `LazyEval` — the forcing engine (`eval.cc`)
A `let` block of bindings `1..N` over a small expression language: integer
literals, the constant `false`, variables, `+`, `if`, `throw`,
`(tryEval x).success`, `!`, `&&`, `||`, `->` and `assert c; y`.

- **State.** `prog` is the block. `heap` holds one value cell per binding.
  `stack` holds one frame per thunk being forced, with the operand values
  gathered so far. `ret` is the outcome handed back by the last force. The
  host side keeps `cur`, `outcomes`, `roots` and `nForces`.
- **Init** is `ExprLet::eval` with `maybeThunk`. A literal is stored as its
  value. A variable naming an *earlier* binding aliases that binding's cell
  (`Slot`). Everything else becomes a thunk.
- **Actions:**
  - `ForceThunk` stores the black hole and pushes a frame.
  - `ForceValue` hands over a forced value.
  - `ForceBlackhole` raises `InfiniteRecursion`.
  - There is one `Eval*` action per AST node kind.
  - `EvalNot`, `EvalLogic` and `EvalAssert` go through `evalBool`: a
    non-boolean operand is a type error (`NotBool`). `&&`, `||` and `->`
    force their right operand only when the left one does not decide
    (`Decides`, `Decided`). A false assertion raises `AssertionError`.
  - `ChildReturned` and `ChildFailed` resume the parent frame. tryEval
    catches `AssertionError` and its subclass `ThrownError`
    (`Catchable`), nothing else.
  - `HostForce` and `HostCatch` are the host forcing a binding and catching
    its error.
- **`Ref(a, V)`** is the reference: a recursive big-step evaluator with no
  memoisation. It gives the outcome of forcing cell `a` and the set of
  thunks that force enters.

`forceValue` and the primops are not in `src/`. Their definitions are
modelled from spec §4.4/§4.5 and marked `spec_modelled` in the map.

### `ThreadPool` — `thread-pool.cc`
- **Threads.** There is the main thread `Main` plus workers `1..NWorkers`
  (`maxThreads - 1`). Items form a tree given by `Children`. The main thread
  enqueues the roots, calls `process()`, and finally `shutdown()`.
  `MainEnqueue` is one root's `enqueue()`. Workers started by earlier
  calls already run items. Once one of them has set quit, `enqueue()`
  throws `ThreadPoolShutDown` out of the caller before `process()`, and
  `~ThreadPool` runs `shutdown()`.
- **Atomicity.** One mutex guards the shared state, and each locked block is
  one step.
- **doWork's block** is split by outcome into `LoopQuit`, `LoopTake`,
  `LoopDrain` and `LoopWait`. The shared accounting is expressed by
  `Accounts`, `ActiveAfter`, `Records`, `QuitAfter` and `PcAfter`.
- **Running an item** is several steps:
  - `RunEnqueue`: enqueue a child. It throws `ThreadPoolShutDown` once quit
    is set.
  - `RunInterrupted`: a worker's `interruptCheck` sees quit.
  - `RunThrow`: the item's own failure.
  - `RunReturn`: the item returns.
- **The condition variable** is modelled by thread positions. `wait` is a
  position. `notify_one` and `notify_all` move waiters to `woken`.
  `SpuriousWake` is allowed but not fair.
- **Failing items.** The set `fails` is chosen in `Init`, so every
  combination of failing items is explored.

### `EvalJobs` — the collector threads of `nix-eval-jobs.cc`
- **Threads.** `Collectors` collector threads share `State` (`todo`, `active`,
  `exc`) under one lock and one condition variable. Each drives its own
  worker process. `Tree` gives the attribute paths: an inner path answers
  with its children, a leaf is a job that is printed.
- **The worker process** is the environment. Its `next` line may say
  `next`, `restart`, report an error, or never come because it died.
  `WorkerDies` may kill it at any time, at most `MaxFaults` times, and
  it asks for a restart at most `MaxRestarts` times.
- **`collector`** is split into its locked blocks:
  - `CheckWorker`: read the worker's line, restart it, or fail.
  - `Pick`: exit when nothing is left, take the least path of `todo`
    (`std::set<json>` order, `LexLess`), or wait.
  - `Send`, `Recv`: pipe I/O outside the lock.
  - `Publish`: add the children to `todo`, drop the path from `active`,
    notify all.
  - Any failure is `Fail`. It overwrites `state->exc`, ends the
    collector and notifies all.
- **`main`** (`MainJoin`) joins the collectors and rethrows `exc`.

Leaving `active.empty()` out of the exit condition is not a correctness
slip. The collector still busy with the last path publishes its children
and carries on alone, so only parallelism is lost. No property is stated
about it.

### `DrvOutputSubstitution` — `drv-output-substitution-goal.cc`
- **The goal.** `gstate` is the goal's `state` member, the method the
  worker calls next. `waitFor` is what the last call returned:
  `WaitForSlot`, `WaitForWorld` (the asynchronous query) or
  `WaitForGoals`. `Ready` and `InBuildSlot` give when the worker calls
  `work()` again and with which `inBuildSlot`. The query's
  `WaitForWorld{..., true}` keeps the slot.
- **Actions.** `init`, `tryNext` (an operator that `init` and
  `realisationFetched` call, as in the code), `realisationFetched` and
  `outPathValid`/`finished` each model the whole method.
- **The local store.** `registerDrvOutput` is `LocalStore`'s, which is
  not in this source tree. `StoreAccepts` models the check it makes:
  every entry of `dependentRealisations` must be the `outPath` of that
  output's local realisation, and the output's own entry must be the
  `outPath` being registered. Otherwise it throws. The goal catches the
  exception and ends with it (`result = "error"`). A realisation is
  `[from, out, deps]`: the substituter it came from, its `outPath`, and
  its dependencies.
- **Environment.**
  - `QueryEnds`: `sub->queryRealisation` misses, throws, or returns a
    realisation whose `dependentRealisations` may name `Dep` and `Id`
    itself.
  - `WaiteeDone`: a dependency or path goal ends with any exit code.
    It counts into `nrFailed`, `nrNoSubstituters` and
    `nrIncompleteClosure`, as `Goal::waiteeDone` does.
  - `OtherRegisters`: another goal registers `Dep` locally.
- `Goal` and the worker are not under `src/`. Their part is kept to what
  the goal's code relies on.

### `HashEncoding` — `hash.cc`
- **Operators.** `printHash16`, `printHash32` (the bit-shifting loop of
  the code, with `<<` as a product and the byte truncation as `% 256`),
  `to_string`, and the parsers `Parse16`, `Parse32Loop` (with the
  check on bits beyond the last byte), `parseHashTypeOpt`,
  `getParsedTypeAndSRI` and `parseAny`.
- **Reference.** `Print32Ref` is the textbook definition: the hash as one
  little-endian number, written in base 32 from the most significant
  digit.
- **State.** A hash is chosen, printed in any base with or without its
  type prefix, optionally edited by one character, and parsed with or
  without a known type. The state keeps the hash, the text, and the
  parse result.

### `NarAccessor` — `nar-accessor.cc`
- **Operators.** The `NarIndexer` callbacks `createMember` (the first
  member fills the tMissing root, later ones are `emplace`d by base
  name), `createDirectory` (pushes a child visitor), `createRegularFile`
  (size, executable bit and `start = source.pos`) and `createSymlink`,
  folded over the visitor calls (`IndexStep`, `NarIndex`). Then `find`
  (`FindFrom`, with the `assert(*it == '/')` as an error outcome), `get`,
  `stat`, `readDirectory`, `readFile`, `readLink`, `listNar`, and the lazy
  constructor `LazyMembers` / `makeLazyNarAccessor`. In the lazy
  constructor, a missing `size` or `narOffset` is an error, because
  json's `operator[]` yields null. An unknown type leaves the member
  tMissing.
- **Abstraction.** A path is a sequence of `"/"` and name tokens. Members
  are keyed by the names leading to them. The NAR is a sequence of units:
  one per format token and one per content character. `NarSource::pos`
  counts units. JSON objects are functions of their present fields.
- **Modelled from the NAR format.** `parseDump` (`archive.cc`, not in
  this slice) appears as `Dump`/`NarDump`. It gives the NAR of a tree and
  the visitor calls with the position at each call. A file's call comes
  after its size is read and before its contents.
- **Reference.** The archived tree itself (`NodeAt`, `RefAnswers`).
- **State.** `narTree`, fixed by `NarInit`. The per-tree check
  `Faithful(t)` is tabulated once (`FaithfulFor`). `MCHashEncoding`
  composes it with the hash state machine, so the hash run also checks
  the NAR accessor.

### `PathSandbox` — `file-system.cc`, `eval.cc`
A module of operators only; `FileCache` instantiates it.
- **Operators.** `canonPath` is followed character by character. Its
  `while` loop is `CanonLoop`, and one component step with its symlink
  follow is `Component`. Around it are `dirOf`, `isInDir`,
  `isDirOrInDir`, and `checkSourcePath`, which takes the
  `resolvedPaths` cache and `allowedPaths` and returns the outcome and
  the updated cache. It is split into stages as the code is:
  `checkSourcePath` (cache lookup), `CheckLexical` (the path without
  symlinks must be allowed) and `CheckResolved` (the resolved path must
  be allowed; only then is it cached).
- **File system.** The constant `Links` maps link paths to link texts.
  The paths where something is (directories, regular files and the
  links) are an argument, `present`, because files appear while the
  evaluator runs. With symlinks resolved, `Component` models `isLink`:
  an `lstat` that throws `SysError` when nothing is at the path so far
  (`ENOENT`, or `ENOTDIR` below a regular file). So
  `canonPath(p, true)` of a missing path throws, and so does the
  `checkSourcePath` of a missing path that is allowed.
- **Reference.** `LexRef` and `ResolveRef` normalise and resolve paths as
  sequences of components. `AtOrBelow` is spec §4.10's "at or below an
  allowed path". The properties are stated as operators of a path
  (`CanonMatchesRefAt`, `SoundFor`, `CompleteFor`) and quantified in
  `FileCache`. `FileCache` tabulates once, for every set of files there
  can be, what depends only on the constants and the files (`CanonIn`,
  `RefLex`, `RefPhy`, `InputsCanonOK`).

### `FileCache` — `eval.cc` (search path, `evalFile`), with `PathSandbox`
- **State.** `restricted` and `allowedPaths` (set once, by the
  `EvalState` constructor), the sandbox's `resolvedPaths`,
  `searchPathResolved`, `fileEvalCache`, `fileParseCache`, the regular
  files on disk (`exists`), an operation counter, the last result, and
  the history `finds` of lookups (query, files on disk, answer).
- **File system.** Directories `Dirs`, files `exists`, and
  `PathSandbox`'s `Links`. `Lstat` walks a path without following its
  last component, as `maybeLstat` does: a dangling link exists,
  `ENOENT`/`ENOTDIR` (a missing or non-directory component on the way
  included) mean missing, and a loop is an error that `findFile`
  rethrows.
- **Init.** In restricted mode every search-path entry is resolved
  (`resolveSearchPathPath`) and the results are the allowed paths; a
  URL entry resolves only if its download succeeds (`FetchAtStart`).
- **Actions.**
  - `SandboxCheck`: `checkSourcePath` on one raw path, updating
    `resolvedPaths`.
  - `FindFile`: `findFile` on a `<...>` query. Entries are tried in
    order; each is resolved through `searchPathResolved` (a URL entry
    may be downloaded now or fail, and a failure is cached); the first
    entry whose prefix matches and whose file exists answers.
  - `EvalFile`: `evalFile` of a path, `mustBeTrivial` either way. It
    checks the path, looks in `fileEvalCache`, resolves it with
    `resolveExprPath` (symlinks followed, `default.nix` appended to a
    directory), checks and looks again, then parses through
    `fileParseCache` and evaluates. Both paths are cached on success;
    a throw caches nothing.
  - `Create`: a regular file appears on disk.
  - `ResetFileCache`: `resetFileCache` empties both file caches.
    `searchPathResolved` is kept.
- **Composition.** The sandbox's `checkSourcePath` is called by
  `SandboxCheck` and by `evalFile` (through `checkSource`, which skips
  the check outside restricted mode and for the corepkgs prefix), over
  one shared `resolvedPaths`.

### `DerivationATerm` — `derivations.cc`
- **Text.** The text of a `.drv` file is a TLA+ string, walked
  character by character, as the code walks its `string_view`.
- **Printer.** `unparse` is `Derivation::unparse`:
  - the version header;
  - the five output variants;
  - old-form and dynamic-derivation input nodes;
  - `printString` (escaping) for builder, arguments and environment;
  - `printUnquotedString` (no escaping) for everything else.
  Maps and sets are printed in byte order (`StrLess`).
- **Parser.**
  - `parseDerivation`, `parseString` (the scanning loop `Scan`, then
    `Unescape` through the `escapes` table), `endOfList`,
    `parseStrings`, `parseDerivedPathMapNode` and
    `parseDerivationOutput`.
  - `ParseList` is every `while (!endOfList(str))` loop, and `Elem` is
    its body.
  - A step returns the next position and a value, or the error the
    code throws.
- **Abstractions.**
  - A store path is valid iff it is in `StorePaths`.
  - A hash text is valid iff it is in `HashTexts`. The base-16 codec
    is checked in `HashEncoding`.
  - The path of a fixed output is the constant `FixedPath`.
  - `ContentAddressMethod::parsePrefix` is not under `src/` and is
    modelled from its uses.
- **Worker-protocol form.** `writeDerivationWire` is
  `writeDerivation(Sink &, ...)`. It sends a sequence of numbers and
  strings: the outputs (name and three strings each, `WireOutput`), the
  sources, platform, builder, arguments and environment. It sends no
  input derivations. `readDerivationWire` is `readDerivation(Source &,
  ...)`. `ReadN` covers its counted loops. Outputs are inserted with
  `emplace`, so the first of two equal names wins. Environment entries
  overwrite. Reading past the end is `EndOfFile`. The framing of a
  string on the connection is left out.
- **Resolution.**
  - `DerivationType` is `BasicDerivation::type()`, with its checks in
    the code's order.
  - `hashDerivationModulo` covers a derivation without `inputDrvs`: the
    fixed, impure and masked-`unparse` cases. That is the case
    `rewriteDerivation` and `checkInvariants` meet after resolution.
  - `accum`, `tryResolveInput`, `rewriteDerivation` (`RewriteEnv`, then
    `RewriteThen`) and `tryResolve` follow the code.
    - Rewrites are added with `emplace`.
    - The loop over child nodes stops at the first missing output.
    - Environment names that collide after rewriting keep the first.
  - `checkInvariants` is `OutputInvariant` over the outputs, without
    the name check.
  - The following are not under `src/` and are modelled from their
    uses:
    - `rewriteStrings`: each rewrite in key order, `ReplaceStr`;
    - `hashString`: injective, and its text holds no `/`, as a digest's
      does not;
    - `makeOutputPath`;
    - `DownstreamPlaceholder::render`: injective on the placeholder's
      sequence;
    - `queryPartialDerivationOutputMap`: the constant `OutputPaths`,
      filtered by what is built.
- **JSON form.** `DrvToJSON` is `Derivation::toJSON` (with
  `OutputToJSON` and `NodeToJSON`). A JSON object is a function from its
  keys, an array a sequence; nlohmann's text syntax is left out.
  `DrvFromJSON` is `Derivation::fromJSON`. It reads the members in the
  code's order, and `valueAt` fails on a missing key.
  - `OutputFromJSON` picks an output's variant from its key set alone.
    It checks a fixed output's path against `FixedPath`.
  - `NodeFromJSON` requires `dynamic-derivations` for every
    `dynamicOutputs` member.
  - Derivation::fromJSON does not pass its `xpSettings` on to
    `DerivationOutput::fromJSON`, which then uses the global settings.
    The model has one set of features, `Xp`, so this difference is not
    visible in it.
- **State.**
  - The derivation in memory.
  - The format: `aterm`, `wire` or `json`.
  - The file's text, the items sent, and the JSON document.
  - A phase: `new`, `written`, `truncated`, `read` or `resolved`.
  - The result of reading.
  - The built outputs and the result of `tryResolve`.
- **Actions.**
  - `writeDerivation` stores `unparse`. `SendDerivation` sends the
    wire form.
  - `WriteJSON` produces the document that `nix derivation show` prints.
  - `Truncate` leaves a proper prefix of the text or the wire items. This
    models a partial write, a text a client added under a `.drv` name,
    or a connection that drops.
  - For a JSON document, `Truncate` drops one key (`EditedDocs`), at the
    top, in an output or in an input node, or changes an output's path.
    This models a hand-edited document given to `nix derivation add`.
  - `readDerivation` parses the text. `ReceiveDerivation` reads the
    wire form. `ReadJSON` runs `fromJSON` on the document.
  - `Resolve` runs `tryResolve` on a derivation read from text. The set
    of built input outputs is chosen nondeterministically.

### `EvalValues`, `EvalAttrs` and `EvalCalls` — the operators of `eval.cc`
These modules model what the evaluator does to values once they
exist, on a fixed heap of cells. `LazyEval` models how values come to
exist.
- **Heap.** `Heap` maps cell names to values: numbers, strings with a
  context, paths, lists, attribute sets, lambdas, primops, primop
  applications and failing thunks. A cell stands for a `Value *`.
  - `C(c)` refers to a heap cell, and `Box(v)` is a value allocated
    during the operation (`allocValue`).
  - Pointer identity is `OnHeap(r) /\ r1 = r2`.
  - `Force` reads a cell; a failing thunk gives its error.
  - `Order` gives a set's names in `Bindings` order (sorted by symbol).
- **`EvalValues`.**
  - `eqCells`, `eqList` and `eqAttrs` are `eqValues`, including
    `isDerivation`'s shortcut on `outPath`.
  - `update` is `ExprOpUpdate::eval` with its merge loop (`Merge`,
    `MergeStep`).
  - `concatLists` reuses a lone non-empty list.
  - `SelectFrom` and `hasAttr` are the path loops of `ExprSelect` and
    `ExprOpHasAttr`, with the `or` default.
  - `forceValueDeep` is `DeepVisit` over `Kids`: a set's attributes in
    `Bindings` order, then a list's elements. The `seen` set skips a
    value already visited, so a set that contains itself terminates. The
    first error thrown ends the walk.
- **`EvalAttrs`.** Attribute-set literals (`ExprAttrs::eval`) and
  `let` (`ExprLet::eval`). An attribute is bound to a small expression:
  a constant cell (`K`), a variable of the same `rec`/`let` (`Var`), an
  `if` (`IfE`) or a set literal of constants (`SetE`). Thunks made while
  the literal is built live in a store `s` (id -> thunk, black hole or
  value), so what is forced during construction stays forced.
  - `maybeThunk` returns a constant's own cell, or the filled env2 slot
    of a variable (`lookupVar` with `noEval`), and otherwise a fresh
    thunk (`mkThunk`). `EvalE` and `ForceRef` are `ExprVar::eval`,
    `ExprIf::eval` and `forceValue` over the store.
  - `RecLoop` fills env2 in symbol order. With `__overrides` every
    attribute gets its own thunk, as the code does.
  - `ApplyOverrides` forces `__overrides` in env2 as built, then
    patches both the bindings and the env2 slots.
  - `DynStep` is one dynamic attribute: the name is evaluated after the
    overrides, `null` skips it, and the name must be a context-free string
    the set does not yet have.
  - The reference (`RefE`, `RefStatic`, `RefAttrs`) has no store. It
    evaluates bindings by substitution, with a set of names under
    evaluation for `InfiniteRecursion`. An attribute that evaluating
    `__overrides` needed keeps the value it had then.
- **`EvalCalls`.**
  - `callFunction`, `CallLoop`, `Plan`, `CallStep` and `CallNext` are
    `callFunction`'s `while (nrArgs > 0)` loop. `Plan` picks the
    branch: lambda, primop, primop application or functor.
  - `callLambda` binds one argument, using `matchupFormals`.
  - `Spine` collects a primop application's arguments oldest-first.
  - `Native` models the two primops whose behaviour matters here,
    `throw` and `toString`. Any other primop returns its arguments as a
    list, which makes the argument order observable.
  - `coerceToString` and `CoerceList` cover `tryAttrsToString`,
    `outPath`, and `copyPathToStore` with its `srcToStore` cache.
  - `autoCallFunction` passes the automatic arguments.
  - `concatStrings` is `ExprConcatStrings::eval`: the first operand's
    type decides the result, integer sums are checked at every step
    with `IntBits`-bit overflow, and a path result goes through
    `canonPath` (an instance of `PathSandbox`).
- **State.** `srcToStore`, and the last operation with its inputs and
  result. There is one action per operator, over small operand sets.
  `OpEq` covers both `==` and `!=` (`Negate`). `OpAttrs` evaluates a
  set or let literal of `AttrsLits`. `DeepSeq` applies
  `forceValueDeep` to a cell.
  `ConcatStrings` keeps the copies it made in `srcToStore`, including
  when a later operand fails.
- **References.** `RefEq`, `RefLambda`, `RefApply`, `RefCall` and
  `RefStr` state the language rules of spec §4.5–4.8 on their own:
  - curried application;
  - formals as sets;
  - a primop waits for its arity;
  - a functor is applied to itself.
  The properties compare the code's result with them.

## Runs

| Run | Config | Checks | Result |
|---|---|---|---|
| `lazy_core` | `MCLazyEval.cfg` | `TypeOK`, `ValueSound`, `OnlyDemandedForced`, `ForceTerminates` (liveness) | pass: 575,610 states |
| `threadpool` | `MCThreadPool.cfg` | `TypeOK`, `ActiveAccounted`, `ProcessComplete`, `RecordedIsItemFailure`, `WorkersJoined`, `ProcessTerminates` | pass: 278,020 states |
| `threadpool_masked` | `MCThreadPoolMasked.cfg` | `RethrowsItemFailure` | violation (finding) |
| `evaljobs` | `MCEvalJobs.cfg` | `TypeOK`, `ActiveOwned`, `AllJobsOnce`, `CollectorsExit` (liveness) | pass: 10,008 states |
| `drvsubst` | `MCDrvOutputSubstitution.cfg` | `TypeOK`, `NoSubstitutersHonest`, `Terminates` (liveness) | pass: 14,307 states |
| `drvsubst_refused` | `MCDrvOutputSubstitutionRefused.cfg` | `NoRefusedRegistration` | violation (finding) |
| `hash_codec` | `MCHashEncoding.cfg` | `TypeOK`, `Print32Correct`, `RoundTrip`, `Base32Canonical`, `NarAccessorsFaithful` | pass: 253,620 states |
| `filecache` | `MCFileCache.cfg` | `TypeOK`, `CanonMatchesRef`, `CheckSound`, `CheckComplete`, `ImportConfined`, `FindStable` | pass: 8,922 states |
| `filecache_import` | `MCFileCacheImport.cfg` | `ImportCorrect` | violation (finding) |
| `drv_aterm` | `MCDerivationATerm.cfg` | `TypeOK`, `RoundTrip`, `TruncationDetected`, `ResolveSound` | pass: 103,008 states |
| `eval_ops` | `MCEvalCalls.cfg` | `TypeOK`, `EqMatchesSpec`, `AttrsMatchesSpec`, `SelectAgreesWithHasAttr`, `CallMatchesSpec`, `DeepForceMatchesSpec`, `ConcatStringsMatchesSpec` | pass: 2,277 states |
| `drv_aterm_ub` | `MCDerivationATermUB.cfg` | `ParseDefined` | violation (finding) |

What each property says:
- **`ValueSound`.** Every value written to a cell or returned to the host
  equals the reference outcome. Sharing, aliasing and black-holing never
  change a result. Every error the host receives is also the reference
  error, with one exception. A force that threw leaves its cell a black
  hole, because `forceValue` restores nothing. A later force that reaches
  that cell (`Stale`) reports InfiniteRecursion at it. TLC reaches this
  case: with `c = throw`, a second `tryEval c` fails outright where the
  reference gives `false`.
- **`OnlyDemandedForced`.** A thunk is entered only if the reference
  evaluation of a forced binding enters it. This is laziness: an untaken
  `if` branch is never forced.
- **`ForceTerminates`.** Every top-level force ends, including on cycles.
- **An observation, not a run.** After `let a = throw ..`, the first force
  of `a` raises `ThrownError` and leaves `a` a black hole, so a second
  force raises `InfiniteRecursion`. Spec §8 invariant 5 and §4.4 step 3
  promise the same error again, but spec §4.13 calls the re-raise on a
  black hole the contract. The model follows the code (the black hole
  stays). Since the spec allows both, no run is spent on it.
- **`ActiveAccounted`.** `state->active` equals the number of threads
  running an item or about to account for one. This is the code's
  `assert(state->active)`.
- **`ProcessComplete`.** If `process()` returns normally, every enqueued
  item ran exactly once and returned.
- **`RecordedIsItemFailure`.** The exception `doWork` records for
  `process()` to rethrow is the first failure of an item's own body. The
  `Interrupted` and `ThreadPoolShutDown` exceptions that other items throw
  after quit is set, and that are accounted later, never replace it.
- **`RethrowsItemFailure`.** Violated. It says the pool's user sees an
  item's own failure, never `ThreadPoolShutDown`. Suppose root 1 fails on
  a worker while the main thread still enqueues roots. The failure sets
  quit, and the main thread's next `enqueue()` throws `ThreadPoolShutDown`
  (line 47). `process()` is never reached, and the failure recorded in
  `state->exception` is dropped with the pool.
- **`ActiveOwned`.** Every path in `active` is being handled by a
  collector still running on it. Not one left behind by a failed or
  exited collector.
- **`AllJobsOnce`.** If `main` returns normally, every leaf of the tree was
  printed exactly once, across worker restarts.
- **`CollectorsExit`.** Every collector thread ends, including after
  worker failures, so `main` joins them all.
- **`NoSubstitutersHonest`.** `ecNoSubstituters`, which makes the caller
  build, is never reported after a substituter's query threw.
- **`Terminates`.** The goal always finishes.
- **`NoRefusedRegistration`.** Violated. It says what the warning at
  line 110 is for: a realisation that disagrees with the local store is
  ignored and the next substituter tried, so `registerDrvOutput` never
  refuses the realisation the goal fetched. Two cases get past the check,
  and the store's exception then ends the goal:
  - the loop skips the output's own entry (`depId != id`), so a
    realisation that names another path for itself is never checked
    (TLC's shortest trace);
  - the check runs before the dependency goals. If the dependency had no
    local realisation, its goal, or another goal, may register a
    different path for it before `outPathValid`.
- **An observation, not a run.** When a substituter's query throws,
  `outputInfo` keeps the previous substituter's realisation, and
  `realisationFetched` checks it again. That realisation was rejected
  because its dependency disagrees with the local store. The local
  realisation only ever goes from none to a path, so it is rejected
  again. The only effect is a warning that names the wrong substituter.
- **`Print32Correct`.** `printHash32`'s shifting loop gives the base-32
  text of the hash read as a little-endian number.
- **`RoundTrip`.** Any printed form parses back to the same hash when the
  type is known and agrees with the prefix.
- **`Base32Canonical`.** No two base-32 texts parse to the same hash. An
  edited last digit that sets bits beyond the hash is rejected.
- **`NarAccessorsFaithful`.** Two accessors answer `stat`,
  `readDirectory`, `readFile` and `readLink` exactly as the archived tree
  says, at every path of up to three names, existing or not:
  - the one indexed while parsing the tree's NAR;
  - the lazy one built from its `listNar` listing, reading through
    `getNarBytes`.

  Reading contents at the wrong offset, a listing field dropped, or a
  member put under the wrong parent each breaks it.
- **`CanonMatchesRef`.** `canonPath` agrees with component-wise
  normalisation, and with component-wise resolution of symlinks. The
  symlink-follow bound, the cycle and missing paths are included. It is
  checked against the files on disk now, before and after one appears.
- **`CheckSound`.** A path the sandbox lets through is at or below an
  allowed path, both as written and after resolution. A cached answer
  from an earlier check never lets through what a fresh check would
  refuse.
- **`CheckComplete`.** A path at or below an allowed path, both before
  and after resolution, is let through. A missing path has no resolution,
  and `checkSourcePath` throws `SysError` for it. Allowed paths come from the
  search path, which in the instance has no `/` entry. With a `/` entry
  the check would refuse everything below the root
  (`isInDir("/a", "/")` requires a `/` after the prefix `/`); this is
  listed as a hazard.
- **`ImportConfined`.** In restricted mode, every file in the parse
  and eval caches is at or below an allowed path. This needs the second
  `checkSourcePath` on the path `resolveExprPath` returns: a path under
  an allowed directory may be a link to a file outside it.
- **`FindStable`.** While the files on disk are unchanged, a lookup
  `<q>` gives the same answer every time, whatever the downloads do
  (§4.9: "value resolution is cached"). This holds because
  `resolveSearchPathPath` caches a failure too. The flip side is the
  timeout hazard: a download that fails once is never retried in this
  evaluation. The seeded fault caches only successes, and TLC finds
  `<n>` failing on a first lookup and then found under the URL entry.
- **`ImportCorrect`** (violation). A successful import of a path
  returns the expression of the file that path denotes on disk
  (`RefImportFile`: the path resolved component by component, with
  `default.nix` for a directory). It is violated: `resolveExprPath`
  joins a relative link target to the link's parent *text*, and then
  normalises it lexically. With `/a/b -> /b` and `/b/b -> ../a`,
  importing `/a/b/b` reaches the link `/b/b`, whose target `../a` is
  `/a`, a directory whose `default.nix` (`/a/n`) links to `/b/x`. The
  code joins `../a` to `/a/b` instead and gets `/a/a`, a file created
  by an earlier step, and imports that. This is the code bug recorded in `PROJECT.json`.
- **`RoundTrip` (derivations).** A derivation written with `unparse`
  reads back as the same derivation. This covers every output
  variant, both input-node forms, and strings with every escaped
  character.
  - Platforms are restricted to texts without `\` or `"`.
  - The platform is printed unescaped but parsed with unescaping, so a
    platform `a\nb` reads back with a newline. Substituting
    `MCDrvsEscaped` for `Drvs` shows this. It is listed as a hazard.
  - Over the worker connection, the derivation reads back with its
    `inputDrvs` empty, since the wire form does not carry them.
  - `fromJSON` reads back what `toJSON` wrote, with every output variant
    and dynamic input nodes.
- **`TruncationDetected`.** No proper prefix of a printed derivation
  parses: the final `expect(")")` is what rejects the last one. No
  proper prefix of the wire form is read either: every item is read,
  and the last one hits `EndOfFile`. A JSON document with a key dropped
  or an output path changed is never read as the original derivation.
  `fromJSON` fills no missing key with a default. A dropped `"path"` or
  `"impure"` does give another valid variant (deferred or floating), but
  never the original one. The fixed-output path check refuses a changed
  path.
- **`ResolveSound`.** For every set of built outputs, `tryResolve` gives
  nothing exactly when an output it needs is missing. An output is
  needed when the derivation names it, directly or through a built
  dynamic-derivation output. Otherwise it gives a derivation with:
  - no `inputDrvs`;
  - the used outputs' paths added to `inputSrcs`;
  - with `ca-derivations` enabled, no placeholder text left in builder,
    arguments or environment;
  - every `Deferred` output whose name is an environment variable made
    input-addressed and passing `checkInvariants`' check for it.
  The seeded fault hashes the derivation before the strings are
  rewritten. TLC then finds a deferred `out` whose builder is the
  placeholder of `/i.drv`'s `out`: the path is made from the
  unresolved derivation, so `checkInvariants` refuses it.
- **`ParseDefined`.** Violated. A text that ends inside a string, such
  as `Derive([("`, makes `parseString` call `remove_prefix(contentLen + 1)`
  on a view of `contentLen` characters. That is undefined behaviour.
  Such a text reaches the parser when a client adds a `.drv` to the
  store as text and asks for it to be built.
- **`EqMatchesSpec`.** `==` agrees with structural equality (spec §4.7),
  and `!=` with its negation,
  whenever the operands force without error and neither is a function
  at the top. Nested, pointer-identical functions are equal. Two
  derivations are compared by `outPath` alone.
- **`AttrsMatchesSpec`.** A set literal has exactly the names of its
  static, override and dynamic attributes, or fails exactly when the
  rules of §4.6 say. Each attribute forces to its reference value. A
  `rec` attribute sees an override through every variable that names it,
  unless evaluating `__overrides` forced it first: then it keeps its
  pre-override value (the store memoised it). A `let` body gets its
  reference value. The seeded fault gives `rec` attributes `maybeThunk`
  aliases even under `__overrides`, and TLC finds `b = a` missing the
  override of `a`. `++` (`concatLists`) is still modelled and exercised
  by `OpConcatLists`, and `//` (`update`) by `OpUpdate`, but their own
  properties gave way to this one and to `FindStable`.
- **`SelectAgreesWithHasAttr`.** `e.p or d` falls back to `d` exactly
  when `e ? p` is false, and otherwise selects the value `?` found.
- **`CallMatchesSpec`.** A call with several arguments gives the same
  result as applying them one at a time (§4.5). This holds through
  partial primop applications, functors and formals.
- **`DeepForceMatchesSpec`.** `forceValueDeep` terminates on a set
  that contains itself, and on shared values. It succeeds with the value
  when nothing reachable through lists and sets fails. Otherwise it
  fails with the error of something reachable. Reachability is computed
  by a fixpoint (`ReachAll`), not by the code's walk.
- **`ConcatStringsMatchesSpec`.** A string built by `+` is the
  operands' texts in order. Its context is the union of theirs, plus the
  store path of every path copied (§8 invariant 3). Integer `+`
  overflows into an error, never a wrap.
- **Observations in `EvalCalls`, not runs.** The first two are listed
  as hazards; the last two are only recorded here.
  - `{type = throw ..;} == {}` throws, while `{} == {type = throw ..;}`
    is false. `eqValues` asks `isDerivation` of the left set first.
  - `f == f` is false for a function `f`, because `ExprOpEq` copies both
    operands. `[f] == [f]` is true.
  - `toString [ [] 1 ]` is `"1"`: no space follows an empty list, as the
    code's own comment admits.
  - A functor that returns itself makes `autoCallFunction` recurse
    without bound. The model reports `Unbounded` after `MaxAutoHops`
    rounds.
  - A dynamic attribute named like an attribute that `__overrides`
    added or replaced is an error ("dynamic attribute already defined").
    Open question (iii) of spec §9 says dynamic attributes applied after
    the overrides win. `AttrsMatchesSpec` follows the code and §4.6's
    DuplicateAttribute rule. The colliding literal is in `MCAttrsLits`.
- **`WorkersJoined`.** Once the pool is shut down, no worker is running.
- **`ProcessTerminates`.** The pool always reaches its end, without relying
  on spurious wake-ups.

Every property of a passing run has a seeded fault in `PROJECT.json`
(`mutants`). Each fault is a plausible slip in the code, such as a missing
overflow check, a strict `if`, re-entering a forced cell, waiting on a black
hole, a missing decrement, overwriting the first exception, a draining exit
that ignores active items, a missing `notify_all`, a missing maxThreads
bound or detached workers. TLC finds each of them.

## Bounds

- **`MCLazyEval`.** There are 3 bindings and every program over the
  expression forms, with `if` over three distinct bindings. With 3 bindings
  there are cycles of length 1 to 3, aliases, and chains of two additions.
  `MaxInt = 2`, so `1 + 1 + 1` overflows. The host makes 2 top-level
  forces, so the effect of an earlier force on a later one (memo, stale
  black hole) shows up.
  - Programs with one logical node are also enumerated
    (`MCLogicPrograms`). One binding is `!x`, `x && y`, `x || y`,
    `x -> y` or `assert c; y`, over two other bindings. The others are
    `false`, `throw`, a variable or a tryEval. This covers both
    short-circuit outcomes, a right operand that throws or is not a
    boolean, and a failing assertion under tryEval.
- **`MCThreadPool`.** There are two workers and four roots, so a third
  worker would be started if the maxThreads bound were missing. One root
  enqueues a child while other items run. Every subset of the 5 items may
  fail, so a root can fail on a worker before the main thread has
  enqueued the last root.

- **`MCEvalJobs`.** Two collectors over the paths `[]`, `[1]`, `[2]`,
  `[1,1]` and `[1,2]`. One collector can pick a leaf while the other
  expands an inner path. One restart and one worker death are allowed,
  which is enough for a failure while the other collector waits.
- **`MCDrvOutputSubstitution`.** Two substituters, so one can throw
  after the other answered. Two output paths, so a dependency can
  disagree. A realisation has either output path and depends on any
  subset of `{Id, Dep}`. The goal
  may start with or without a slot, and the local store may already
  know `Id` or `Dep`.
- **`MCHashEncoding`.** Hashes of 3 bytes, of two types, over bytes
  `{0, 1, 90, 128, 255}`. This covers carries across byte boundaries in
  the 5-bit groups, and a top digit that has bits beyond the hash.
  An edit is one of four characters at any position.
  Beside them are two archived trees. One is a lone executable file,
  which fills the root member. The other is a directory holding a file,
  a subdirectory (with a symlink and a file), an empty directory and an
  empty executable file. Files thus start at several offsets, members
  are emplaced at two depths, and an empty file and an empty directory
  are listed. Lookups use every sequence of up to three of the names
  `a`, `b`, `c` and `e`, so paths through files and through missing
  names are asked too.
- **`MCFileCache`.** Links `/a/b -> /b` (absolute), `/b/b -> ../a`
  (relative, leaving the allowed tree), `/b/a -> a` (a cycle that hits
  `MaxFollow = 4`) and `/a/n -> ../b/x`. Search path: `p=/a`, `p=/d`,
  and an unprefixed URL entry whose download may succeed or fail. Files
  of each kind (attribute set, integer, throws, unparsable), one
  created later. Queries hit the first entry, fall through to the
  second, and go through the URL entry (`<n>` finds `/s/n` exactly when
  the download succeeded). Imports cover a
  directory, a link out of the allowed tree, a file that throws, and a
  later-created file. `MaxOps = 3` operations, so a cache filled by one
  is read by another, also after a reset or a file creation.
- **`MCDerivationATerm`.** 288 derivations, built from:
  - six output maps: each variant as `out`, and two input-addressed
    outputs, which exercise the ordering;
  - no input derivation, an old-form one, or a dynamic one (which
    switches the header to `DrvWithVersion`);
  - no source or one;
  - builder, argument and environment strings that are plain or hold
    `" \ newline CR tab`.
  Every proper prefix of every text, and of every wire form, is read.
  So is every document with one key dropped or one output path changed.
  - The builder may be the placeholder of `/i.drv`'s `out`, and an
    argument the dynamic placeholder of `bin` of the derivation that
    `/i.drv`'s `lib` builds. The environment holds `out`.
  - `OutputPaths` gives `/i.drv` outputs `out`, `dev` and `lib`, and
    `lib` builds `/il.drv`, whose `bin` is `/ib`. `Resolve` tries all
    16 subsets of these as built. This covers a missing direct output,
    a missing output of a child node, and complete resolution.

- **`MCEvalCalls`.** A heap of 47 cells. It holds a functor whose
  `__functor` is itself (which reaches `MaxCallDepth = 3`), a
  three-argument primop and a chain holding two of its arguments, a
  lambda with a defaulted formal and one with an ellipsis, two
  derivations, a set whose `type` throws, `__toString` returning a
  string with a context, lists including the empty list, and `big = 7`.
  With `IntBits = 4`, `big + big` overflows. Each operator has its
  own operand set, and `+` has 16 operand sequences with `forceString`
  either way. `!=` has a smaller set: one operand of each kind, since it
  only negates. `forceValueDeep` is applied to sets that contain
  themselves:
  - `cyc` also holds a good list;
  - `cycl` also holds a list with a failing element.
  It is also applied to the nested set, the derivations and a function.
  `MCAttrsLits` holds 14 literals, one for each rule and clash of
  §4.6:
  - an override seen through a variable that `maybeThunk` could alias;
  - an attribute forced by evaluating `__overrides` before the override
    it depends on, which also decides a dynamic name;
  - an override-added name that a dynamic attribute then takes;
  - `__overrides` that is not a set, or that throws;
  - a cycle;
  - a dynamic name read through an alias, and a `null` name;
  - names with a context or of the wrong type;
  - three lets: one with a cycle, and one binding `__overrides`.

## Fairness

- **LazyEval.** The evaluator is single-threaded and never blocks, so
  `WF_vars(Next)` holds.
- **ThreadPool.**
  - Each thread's own steps (`Step(t)`) and the main thread's steps are
    weakly fair. An OS thread that can run eventually runs, and every
    locked block is finite.
  - Spurious wake-ups are not fair. Termination must come from
    notifications.
  - Lock acquisition is not assumed fair. With finitely many items, weak
    fairness of each thread suffices.

- **EvalJobs.** Each collector thread is weakly fair, and so is `main`'s
  join. Worker deaths and restarts are bounded and not fair. Spurious
  wake-ups are not fair.
- **DrvOutputSubstitution.** The worker runs a ready goal, a started
  query ends, and a goal waited for ends: all weakly fair. The query's
  future is fulfilled by `Finally` on every path of the async lambda.
  Another goal registering `Dep` is not fair.

## Not modelled, and why

- Parsing, the symbol and position tables, printing and string contexts
  are data transformations with no control of interest.
- The garbage collector is not modelled.
- The NAR accessor's byte-level I/O: NAR framing (8-byte lengths and
  padding), JSON text, and the `find` call on a path that is not
  canonical. The comment on `find` says `canonPath` ensures a leading
  slash, but no caller in the slice canonicalises. The model keeps the
  assert as an error outcome. The lookups checked are the paths
  `listNar` builds.
- Store I/O, daemon sockets, compression, and the CLI
  commands `run`, `doctor` and `config` are I/O glue with no state machine
  that TLC can reach meaningfully.

## Plan (most important first)

1. **LazyEval** *(done)*. Later: rec attrsets with `__overrides`, `//`,
   `with`, and function calls with formals.
2. **ThreadPool** *(done)*.
3. **EvalJobs** *(done)*. Collector threads over a tree of attribute paths, with
   workers that answer `next`, `restart`, an error, or die.
   - Properties: every job reported once when main succeeds; `active`
     empties; all collectors exit.
   - The overwrite of `state->exc` is checked against "first error
     reported".
4. **DrvOutputSubstitutionGoal** *(done)*. The substituter loop. Each substituter
   may miss, fail or return a realisation whose output is invalid.
   - Properties: `ecNoSubstituters` only when no substituter failed; the
     goal terminates; and, as a finding, the store can refuse a
     realisation the compatibility check let through.
5. **PathSandbox** *(done)*. `canonPath` and `isDirOrInDir` on component sequences,
   plus `checkSourcePath` with its resolved-path cache.
6. **Encodings** *(done: hashes and the derivation ATerm)*.
   - The base-32 hash print/parse round trip over short byte strings.
   - The derivation string escape/unescape round trip. Both are recursive
     operators checked against reference definitions.
7. **FileCache / SearchPath** *(done, composed with PathSandbox)*.
   Later: a property on `findFile`'s first-match rule against the
   spec's longest-prefix rule, and `allowPath` calls made after start.
8. **Attrs and equality operators** *(partly: `EvalValues`,
   `EvalAttrs`, `EvalCalls`)*. Still to do: `with` (lookupVar through
   `fromWith`), `inherit` and `inherit (e)`.
9. **NarAccessor** *(done, composed into the hash run)*. Later: the
   realisation JSON form (`Realisation::fromJSON`/`toJSON`,
   `DrvOutput::parse`) and `Realisation::closure` beside the substitution
   goal.
10. **DaemonAuth.** `authPeer`'s trusted and allowed user decision.
