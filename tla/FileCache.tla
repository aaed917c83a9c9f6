----------------------------- MODULE FileCache ------------------------------
(***************************************************************************)
(* The evaluator's search path and file cache (eval.cc), composed with the *)
(* path sandbox of PathSandbox.                                            *)
(*                                                                         *)
(*  - The EvalState constructor resolves every search-path entry when the  *)
(*    evaluation is restricted, and allows the paths it resolves to.      *)
(*  - findFile matches a query against the entries in order, resolving an  *)
(*    entry's value through the searchPathResolved cache.                  *)
(*  - evalFile checks the path with checkSourcePath, consults              *)
(*    fileEvalCache under the path and under resolveExprPath of it, and    *)
(*    parses (through fileParseCache) and evaluates the file on a miss.    *)
(*                                                                         *)
(* The file system is PathSandbox's `Links`, the directories `Dirs`, and   *)
(* the regular files `exists`, which grows as files are created.  A file's *)
(* expression is `Exprs[f]`: an attribute set, another value, one that    *)
(* throws, or text that does not parse.  Paths are sequences of one-      *)
(* character strings, as in PathSandbox.                                   *)
(***************************************************************************)
EXTENDS Integers, Sequences, SequencesExt, FiniteSets, TLC

CONSTANTS Links, MaxFollow,  \* the symlinks, and canonPath's bound (PathSandbox)
          Inputs,        \* raw paths given to the sandbox's other checks
          SearchPath,    \* <<[prefix |-> text, value |-> entry value]>>
          Dirs,          \* directories
          Files0,        \* regular files present when the evaluator starts
          Creatable,     \* regular files that may be created later
          Exprs,         \* file -> "attrs", "int", "throws" or "bad"
          FetchAtStart,  \* pseudo-URLs whose download succeeds at start
          Queries,       \* texts of <...> lookups
          ImportPaths,   \* paths given to import
          MaxOps         \* bound on findFile / evalFile operations

VARIABLES restricted,          \* evalSettings.restrictEval: allowedPaths is set
          allowedPaths,        \* EvalState::allowedPaths
          resolvedPaths,       \* EvalState::resolvedPaths (the sandbox's)
          searchPathResolved,  \* EvalState::searchPathResolved
          fileEvalCache,       \* EvalState::fileEvalCache
          fileParseCache,      \* EvalState::fileParseCache
          exists,              \* the regular files on disk
          ops,                 \* operations so far
          last,                \* the last operation, its input and outcome
          finds                \* history: each lookup, the files then, its answer

vars == <<restricted, allowedPaths, resolvedPaths, searchPathResolved,
          fileEvalCache, fileParseCache, exists, ops, last, finds>>

None    == [none |-> TRUE]
Some(p) == [ok |-> p]
IsSome(r) == "ok" \in DOMAIN r
Err(e)  == [err |-> e]

Values     == {SearchPath[k].value : k \in DOMAIN SearchPath}
NixSlash   == <<"n", "i", "x", "/">>
Corepkgs   == <<"/", "c">>              \* corepkgsPrefix
DefaultNix == <<"n">>                   \* "default.nix"

\* The path operations and the sandbox, on the same file system.
Path == INSTANCE PathSandbox

\* The paths where something is, when the regular files are ex.
Present(ex) == Dirs \cup ex \cup DOMAIN Links

\* lstat of the canonical path p: its directory is resolved through
\* symlinks (`rd`), its last component is not.  The type of what is there,
\* and where: "error" when resolving the directory fails with ELOOP,
\* "missing" when a component of it is missing (ENOENT, ENOTDIR), it is
\* not a directory, or it holds nothing of that name.
LstatIn(rd, base, ex) ==
  LET at == (IF IsSome(rd) /\ rd.ok # <<"/">> THEN rd.ok ELSE <<>>) \o <<"/">> \o base
  IN [at |-> at,
      type |-> CASE ~IsSome(rd) /\ rd.err = "SysError" -> "missing"
                 [] ~IsSome(rd)           -> "error"
                 [] rd.ok \notin Dirs     -> "missing"
                 [] at \in DOMAIN Links   -> "symlink"
                 [] at \in Dirs           -> "directory"
                 [] at \in ex             -> "regular"
                 [] OTHER                 -> "missing"]

Lstat(p, ex) ==
  IF p = <<"/">> THEN [at |-> p, type |-> "directory"]
  ELSE LstatIn(Path!canonPath(Path!dirOf(p), TRUE, Present(ex)), SubSeq(p, Path!RFind(p, "/") + 1, Len(p)), ex)

\* pathExists (maybeLstat): something, a dangling symlink included, is there.
PathExists(p, ex) == Lstat(p, ex).type \notin {"missing", "error"}

-----------------------------------------------------------------------------
(* Resolving search-path entries                                           *)

\* What resolveSearchPathPath finds for an entry's value: a pseudo-URL is
\* the store path of its download, or nothing when the download fails; a
\* local path is absPath of it, if it exists.
ResolveValue(v, ex, fetched) ==
  IF v.kind = "url" THEN IF fetched THEN Some(v.store) ELSE None
  ELSE LET path == Path!canonPath(v.p, FALSE, {}).ok
       IN IF PathExists(path, ex) THEN Some(path) ELSE None

\* The constructor's resolution of every entry, in restricted mode, and the
\* paths it allows (allowPath of each resolved entry).
ResolvedAtStart == [v \in Values |-> ResolveValue(v, Files0, v.kind = "url" /\ v.url \in FetchAtStart)]
AllowedAtStart  == {ResolvedAtStart[v].ok : v \in {w \in Values : IsSome(ResolvedAtStart[w])}}

\* resolveSearchPathPath: the cached answer, else resolve and cache the
\* answer, a failed one included.  `fetchOk` are the downloads that would
\* succeed now.
resolveSearchPathPathOkOnly(v, cache, ex, fetchOk) ==
  IF v \in DOMAIN cache THEN [res |-> cache[v], cache |-> cache]
  ELSE LET r == ResolveValue(v, ex, v.kind = "url" /\ v.url \in fetchOk)
       IN [res |-> r, cache |-> IF IsSome(r) THEN (v :> r) @@ cache ELSE cache]

resolveSearchPathPath(v, cache, ex, fetchOk) ==
  IF v \in DOMAIN cache THEN [res |-> cache[v], cache |-> cache]
  ELSE LET r == ResolveValue(v, ex, v.kind = "url" /\ v.url \in fetchOk)
       IN [res |-> r, cache |-> (v :> r) @@ cache]

\* SearchPath::Prefix::suffixIfPotentialMatch: the prefix is empty, equals
\* the query, or is followed in it by a slash; the suffix after that slash.
suffixIfPotentialMatch(prefix, q) ==
  LET n == Len(prefix)
      needSeparator == n > 0 /\ Len(q) > n
  IN IF needSeparator /\ q[n + 1] # "/" THEN None
     ELSE IF ~IsPrefix(prefix, q) THEN None
     ELSE Some(SubSeq(q, IF needSeparator THEN n + 2 ELSE n + 1, Len(q)))

\* findFile from entry k on; `cache` is searchPathResolved.  Returns the
\* result and the cache.
RECURSIVE FindLoop(_, _, _, _, _), FindIn(_, _, _, _, _, _), FindAt(_, _, _, _, _, _, _)
FindLoop(q, k, cache, ex, fetchOk) ==
  IF k > Len(SearchPath)
    THEN [res |-> IF IsPrefix(NixSlash, q)
                  THEN Some(Path!canonPath(Corepkgs \o <<"/">> \o SubSeq(q, 5, Len(q)), FALSE, {}).ok)
                  ELSE Err("ThrownError"),
          cache |-> cache]
  ELSE LET sfx == suffixIfPotentialMatch(SearchPath[k].prefix, q)
       IN IF ~IsSome(sfx) THEN FindLoop(q, k + 1, cache, ex, fetchOk)
          ELSE FindIn(q, k, sfx.ok, resolveSearchPathPath(SearchPath[k].value, cache, ex, fetchOk),
                      ex, fetchOk)

\* The rest of one pass: the entry resolved (rr); the candidate must exist.
\* lstat failing otherwise than with ENOENT aborts the lookup (SysError).
FindIn(q, k, suffix, rr, ex, fetchOk) ==
  IF ~IsSome(rr.res) THEN FindLoop(q, k + 1, rr.cache, ex, fetchOk)
  ELSE LET res == IF suffix = <<>> THEN rr.res.ok ELSE rr.res.ok \o <<"/">> \o suffix
       IN FindAt(q, k, res, Lstat(res, ex).type, rr.cache, ex, fetchOk)

FindAt(q, k, res, type, cache, ex, fetchOk) ==
  CASE type = "error"   -> [res |-> Err("SysError"), cache |-> cache]
    [] type = "missing" -> FindLoop(q, k + 1, cache, ex, fetchOk)
    [] OTHER            -> [res |-> Some(Path!canonPath(res, FALSE, {}).ok), cache |-> cache]

findFile(q, cache, ex, fetchOk) == FindLoop(q, 1, cache, ex, fetchOk)
-----------------------------------------------------------------------------
(* Importing a file                                                        *)

\* resolveExprPath: while the path is a symlink, continue from its target,
\* read at the link and made absolute against the link's parent as text
\* (CanonPath(readLink, parent)); then a directory gets default.nix.  lstat
\* failing throws.
RECURSIVE ExprPathLoop(_, _, _), ExprPathStep(_, _, _, _)
ExprPathLoop(p, n, ex) ==
  IF n + 1 >= MaxFollow THEN Err("too many symbolic links")
  ELSE ExprPathStep(p, n, Lstat(p, ex), ex)

ExprPathStep(p, n, st, ex) ==
  CASE st.type \in {"missing", "error"} -> Err("SysError")
    [] st.type = "symlink" ->
         LET t == Links[st.at]
         IN ExprPathLoop(Path!canonPath(IF t[1] = "/" THEN t ELSE Path!dirOf(p) \o <<"/">> \o t,
                                        FALSE, {}).ok, n + 1, ex)
    [] st.type = "directory" ->
         Some((IF p = <<"/">> THEN <<>> ELSE p) \o <<"/">> \o DefaultNix)
    [] OTHER -> Some(p)

resolveExprPath(p, ex) == ExprPathLoop(p, 0, ex)

\* checkSourcePath as evalFile sees it: the identity unless the evaluation
\* is restricted; paths under the corepkgs prefix pass unchecked.
checkSource(key, st) ==
  IF ~st.restr \/ IsPrefix(Corepkgs \o <<"/">>, key) THEN [res |-> Some(key), cache |-> st.rp]
  ELSE Path!checkSourcePath(key, st.rp, st.allowed, Present(st.ex))

\* Reading a file opens it, following every symlink.
readFile(p, ex) ==
  LET r == Path!canonPath(p, TRUE, Present(ex))
  IN IF IsSome(r) /\ r.ok \in ex THEN Some(r.ok) ELSE Err("SysError")

\* The outcome of an import and the caches after it.  `st` holds the caches
\* before it (rp: resolvedPaths, pc: fileParseCache, ec: fileEvalCache),
\* the files `ex`, the mode `restr` and allowedPaths.
Outcome(res, st) == [res |-> res, rp |-> st.rp, pc |-> st.pc, ec |-> st.ec]

\* cacheFile: the expression goes into fileParseCache; a flake file must be
\* an attribute set; evaluating it may throw; the value is cached under the
\* resolved path and under the path.  An expression is its file, a value
\* the file it came from.
cacheFile(path, resolvedPath, e, mustBeTrivial, st) ==
  LET st1 == [st EXCEPT !.pc = (resolvedPath :> e) @@ st.pc]
      v   == [file |-> e.file]
  IN CASE mustBeTrivial /\ Exprs[e.file] # "attrs" -> Outcome(Err("EvalError"), st1)
       [] Exprs[e.file] = "throws"                -> Outcome(Err("ThrownError"), st1)
       [] OTHER -> Outcome(Some(v),
                     [st1 EXCEPT !.ec = [x \in DOMAIN st.ec \cup {resolvedPath, path} |->
                                           IF x \in {resolvedPath, path} THEN v ELSE st.ec[x]]])

\* parseExprFromFile(checkSourcePath(resolvedPath)): read and parse.
ParseFile(path, resolvedPath, mustBeTrivial, f, st) ==
  CASE ~IsSome(f)               -> Outcome(f, st)
    [] Exprs[f.ok] = "bad"      -> Outcome(Err("ParseError"), st)
    [] OTHER                    -> cacheFile(path, resolvedPath, [file |-> f.ok], mustBeTrivial, st)

ReadChecked(path, resolvedPath, mustBeTrivial, res, st) ==
  IF ~IsSome(res) THEN Outcome(res, st)
  ELSE ParseFile(path, resolvedPath, mustBeTrivial, readFile(res.ok, st.ex), st)

EvalParse(path, resolvedPath, mustBeTrivial, c, st) ==
  ReadChecked(path, resolvedPath, mustBeTrivial, c.res, [st EXCEPT !.rp = c.cache])

\* Seeded fault: the resolved path parsed without a second sandbox check.
EvalResolvedUnchecked(path, mustBeTrivial, r, st) ==
  CASE ~IsSome(r)                  -> Outcome(r, st)
    [] r.ok \in DOMAIN st.ec       -> Outcome(Some(st.ec[r.ok]), st)
    [] r.ok \in DOMAIN st.pc       -> cacheFile(path, r.ok, st.pc[r.ok], mustBeTrivial, st)
    [] OTHER -> ParseFile(path, r.ok, mustBeTrivial, readFile(r.ok, st.ex), st)

\* evalFile after resolveExprPath: the eval cache under the resolved path,
\* else the parse cache, else parse the checked resolved path.
EvalResolved(path, mustBeTrivial, r, st) ==
  CASE ~IsSome(r)                  -> Outcome(r, st)
    [] r.ok \in DOMAIN st.ec       -> Outcome(Some(st.ec[r.ok]), st)
    [] r.ok \in DOMAIN st.pc       -> cacheFile(path, r.ok, st.pc[r.ok], mustBeTrivial, st)
    [] OTHER -> EvalParse(path, r.ok, mustBeTrivial, checkSource(r.ok, st), st)

\* evalFile after checkSourcePath(path_): the eval cache under the path.
EvalCached(mustBeTrivial, res, st) ==
  CASE ~IsSome(res)              -> Outcome(res, st)
    [] res.ok \in DOMAIN st.ec   -> Outcome(Some(st.ec[res.ok]), st)
    [] OTHER -> EvalResolved(res.ok, mustBeTrivial, resolveExprPath(res.ok, st.ex), st)

EvalChecked(mustBeTrivial, c, st) ==
  EvalCached(mustBeTrivial, c.res, [st EXCEPT !.rp = c.cache])

evalFile(path_, mustBeTrivial, st) ==
  EvalChecked(mustBeTrivial, checkSource(path_, st), st)
-----------------------------------------------------------------------------
(* The evaluator                                                           *)

Init ==
  /\ restricted \in BOOLEAN
  /\ allowedPaths = IF restricted THEN AllowedAtStart ELSE {}
  /\ resolvedPaths = <<>>
  /\ searchPathResolved = IF restricted THEN ResolvedAtStart ELSE <<>>
  /\ fileEvalCache = <<>>
  /\ fileParseCache = <<>>
  /\ exists = Files0
  /\ ops = 0
  /\ last = [op |-> "none"]
  /\ finds = {}

\* Another checkSourcePath (of readFile, pathExists ...) of a raw path made
\* canonical without symlinks, as CanonPath does; it shares resolvedPaths
\* with evalFile.
SandboxCheck ==
  /\ restricted
  /\ ops < MaxOps
  /\ ops' = ops + 1
  /\ \E raw \in Inputs :
       resolvedPaths' = Path!checkSourcePath(Path!canonPath(raw, FALSE, {}).ok, resolvedPaths, allowedPaths, Present(exists)).cache
  /\ UNCHANGED <<restricted, allowedPaths, searchPathResolved, fileEvalCache, fileParseCache, exists, last, finds>>

\* A lookup <q>; `fetchOk` are the pseudo-URLs whose download succeeds now.
FindDone(q, r) ==
  /\ searchPathResolved' = r.cache
  /\ last' = [op |-> "find", input |-> q, res |-> r.res]
  /\ finds' = finds \cup {[q |-> q, ex |-> exists, res |-> r.res]}

FindFile ==
  /\ ops < MaxOps
  /\ \E q \in Queries, fetchOk \in SUBSET {v.url : v \in {w \in Values : w.kind = "url"}} :
       FindDone(q, findFile(q, searchPathResolved, exists, fetchOk))
  /\ ops' = ops + 1
  /\ UNCHANGED <<restricted, allowedPaths, resolvedPaths, fileEvalCache, fileParseCache, exists>>

\* import path, or the import of a flake file (mustBeTrivial).
ImportDone(p, mustBeTrivial, r) ==
  /\ resolvedPaths' = r.rp
  /\ fileParseCache' = r.pc
  /\ fileEvalCache' = r.ec
  /\ last' = [op |-> "import", input |-> p, trivial |-> mustBeTrivial, res |-> r.res]

EvalFile ==
  /\ ops < MaxOps
  /\ \E p \in ImportPaths, mustBeTrivial \in BOOLEAN :
       ImportDone(p, mustBeTrivial,
                  evalFile(p, mustBeTrivial, [rp |-> resolvedPaths, pc |-> fileParseCache,
                                              ec |-> fileEvalCache, ex |-> exists,
                                              restr |-> restricted, allowed |-> allowedPaths]))
  /\ ops' = ops + 1
  /\ UNCHANGED <<restricted, allowedPaths, searchPathResolved, exists, finds>>

\* A file appears on disk while the evaluator runs.
Create ==
  /\ \E f \in Creatable \ exists : exists' = exists \cup {f}
  /\ UNCHANGED <<restricted, allowedPaths, resolvedPaths, searchPathResolved,
                 fileEvalCache, fileParseCache, ops, last, finds>>

\* resetFileCache (the REPL's :reload).
ResetFileCache ==
  /\ ops < MaxOps
  /\ fileEvalCache' = <<>>
  /\ fileParseCache' = <<>>
  /\ ops' = ops + 1
  /\ last' = [op |-> "reset"]
  /\ UNCHANGED <<restricted, allowedPaths, resolvedPaths, searchPathResolved, exists, finds>>

Done == ops = MaxOps /\ UNCHANGED vars

Next == SandboxCheck \/ FindFile \/ EvalFile \/ Create \/ ResetFileCache \/ Done

Spec == Init /\ [][Next]_vars
-----------------------------------------------------------------------------
(* Properties                                                              *)

\* Reference: the file an import of p denotes, from the component-wise
\* resolution of PathSandbox (a directory stands for its default.nix).
RefImportFile(p, ex) ==
  LET r == Path!ResolveRef(p, Present(ex))
  IN IF IsSome(r) /\ r.ok \in Dirs
       THEN Path!ResolveRef((IF r.ok = <<"/">> THEN <<>> ELSE r.ok) \o <<"/">> \o DefaultNix, Present(ex))
     ELSE r

TypeOK ==
  /\ restricted \in BOOLEAN
  /\ allowedPaths \subseteq AllowedAtStart
  /\ \A k \in DOMAIN resolvedPaths : resolvedPaths[k] \in [ok : Seq(STRING)]
  /\ ops \in 0..MaxOps
  /\ exists \subseteq Files0 \cup Creatable
  /\ \A v \in DOMAIN searchPathResolved :
       v \in Values /\ searchPathResolved[v] \in {None} \cup [ok : Seq(STRING)]
  /\ \A k \in DOMAIN fileParseCache : fileParseCache[k] \in [file : exists]
  /\ \A k \in DOMAIN fileEvalCache : fileEvalCache[k] \in [file : exists]
  /\ last.op \in {"none", "find", "import", "reset"}
  /\ \A f \in finds : f.q \in Queries /\ f.ex \subseteq Files0 \cup Creatable

\* canonPath, with and without symlinks, agrees with component-wise
\* normalisation and resolution on every input and every path the sandbox
\* has cached.
\* (The parts that depend only on the constants and on which files exist
\* are evaluated once, for each set of files there can be.)
ExistsSets == {Files0 \cup c : c \in SUBSET Creatable}
InputsCanonOK == [ex \in ExistsSets |-> \A raw \in Inputs : Path!CanonMatchesRefAt(raw, Present(ex))]

CanonMatchesRef ==
  /\ InputsCanonOK[exists]
  /\ \A raw \in DOMAIN resolvedPaths : Path!CanonMatchesRefAt(raw, Present(exists))

\* checkSourcePath of every input, answered from the current resolvedPaths
\* (filled by evalFile's checks and the others), lets through only paths at
\* or below a path the EvalState constructor allowed, before and after
\* resolving symlinks, and returns the resolved path.
\* (The canonical forms of the inputs and their references depend only on
\* the constants, and are tabulated once.)
CanonIn == [raw \in Inputs |-> Path!canonPath(raw, FALSE, {}).ok]
RefLex  == [raw \in Inputs |-> Path!LexRef(raw)]
RefPhy  == [ex \in ExistsSets |-> [raw \in Inputs |-> Path!ResolveRef(RefLex[raw], Present(ex))]]

CheckResult(raw) == Path!checkSourcePath(CanonIn[raw], resolvedPaths, allowedPaths, Present(exists)).res

CheckSound ==
  restricted => \A raw \in Inputs : Path!SoundFor(CheckResult(raw), RefLex[raw], RefPhy[exists][raw], allowedPaths)

\* Spec 4.10: checkSourcePath of every input, with the current resolvedPaths,
\* lets through every path that is at or below an allowed path before and
\* after resolving symlinks.
CheckComplete ==
  restricted => \A raw \in Inputs : Path!CompleteFor(CheckResult(raw), RefLex[raw], RefPhy[exists][raw], allowedPaths)

\* In restricted mode, every file evalFile parsed (fileParseCache) or took
\* a value from (fileEvalCache) lies at or below an allowed path once its
\* symlinks are resolved: the file read is the resolved path's, and the
\* resolved path (default.nix of a directory included) is checked again.
ImportConfined ==
  restricted =>
    \A k \in DOMAIN fileParseCache \cup DOMAIN fileEvalCache :
      LET e == IF k \in DOMAIN fileParseCache THEN fileParseCache[k] ELSE fileEvalCache[k]
      IN Path!AtOrBelow(e.file, allowedPaths)

\* Spec 4.9, "value resolution is cached": while the files on disk stay
\* the same, a lookup <q> gives the same answer every time, whatever the
\* network does.  resolveSearchPathPath caches a failed download as well,
\* so an entry skipped once stays skipped for the rest of the evaluation.
FindStable ==
  \A f, g \in finds : f.q = g.q /\ f.ex = g.ex => f.res = g.res

\* Spec 4.12: an import resolves the path's symlinks and takes default.nix
\* of a directory, so the value import p returns (computed now or taken
\* from fileEvalCache) is the value of the file p denotes.
ImportCorrect ==
  (last.op = "import" /\ IsSome(last.res)) =>
    RefImportFile(last.input, exists) = Some(last.res.ok.file)
====
