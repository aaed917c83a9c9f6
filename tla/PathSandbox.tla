----------------------------- MODULE PathSandbox -----------------------------
(***************************************************************************)
(* The evaluator's path sandbox (EvalState::checkSourcePath, eval.cc) and   *)
(* the path helpers it uses (canonPath, dirOf, isInDir, isDirOrInDir in     *)
(* src/src/libutil/file-system.cc), and what they must satisfy.            *)
(*                                                                         *)
(* Paths are sequences of one-character strings, and canonPath is followed *)
(* character by character, as the code slices its string_view.  The file  *)
(* system is its symbolic links: `Links` maps a path to the text of the    *)
(* link there; the paths where something exists (`present`: directories,  *)
(* files and the links themselves) are an argument, as files may appear.   *)
(* The resolvedPaths cache and allowedPaths are arguments of               *)
(* checkSourcePath; FileCache holds them, with the evaluator's other state.*)
(***************************************************************************)
EXTENDS Integers, Sequences, SequencesExt, FiniteSets, TLC

CONSTANTS Links,         \* path -> link target text
          MaxFollow      \* canonPath's maxFollow (1024 in the code)

Slash == "/"
Dot   == "."

-----------------------------------------------------------------------------
\* The position of the first / last c in s, 0 if none (find / rfind).
Find(s, c)  == SelectInSeq(s, LAMBDA x : x = c)
RFind(s, c) == SelectLastInSeq(s, LAMBDA x : x = c)

\* s without its first k characters (remove_prefix).
Drop(s, k) == SubSeq(s, k + 1, Len(s))

\* dirOf: the text before the last slash; "/" if that is the first one.
dirOf(p) ==
  LET pos == RFind(p, Slash)
  IN IF pos = 0 THEN <<Dot>> ELSE IF pos = 1 THEN <<Slash>> ELSE SubSeq(p, 1, pos - 1)

\* The remaining text with its leading slashes skipped.
SkipSlashes(p) ==
  LET k == SelectInSeq(p, LAMBDA x : x # Slash)
  IN IF k = 0 THEN <<>> ELSE Drop(p, k - 1)

IsDotStep(p)    == p = <<Dot>> \/ IsPrefix(<<Dot, Slash>>, p)
IsDotDotStep(p) == p = <<Dot, Dot>> \/ IsPrefix(<<Dot, Dot, Slash>>, p)

\* Seeded fault: a component that is not there is taken for a non-link
\* (isLink through maybeLstat).
ComponentNoLstat(path, s, fc, resolve, present) ==
  LET slash == Find(path, Slash)
      comp  == IF slash = 0 THEN path ELSE SubSeq(path, 1, slash - 1)
      rest  == IF slash = 0 THEN <<>> ELSE Drop(path, slash - 1)
      s1    == s \o <<Slash>> \o comp
  IN IF ~(resolve /\ s1 \in DOMAIN Links)
       THEN [path |-> rest, s |-> s1, fc |-> fc]
     ELSE IF fc + 1 >= MaxFollow
       THEN [err |-> "infinite symlink recursion"]
     ELSE LET temp == Links[s1] \o rest
          IN [path |-> temp,
              s    |-> IF temp # <<>> /\ temp[1] = Slash THEN <<>>
                       ELSE IF dirOf(s1) = <<Slash>> THEN <<>> ELSE dirOf(s1),
              fc   |-> fc + 1]

\* One pass of canonPath's `while (1)` loop on a normal component: copy it
\* to s, and if s is then a symlink (isLink, an lstat that throws SysError
\* when nothing is there), continue from its target.  Returns the new
\* path, s and followCount, or an error.
Component(path, s, fc, resolve, present) ==
  LET slash == Find(path, Slash)
      comp  == IF slash = 0 THEN path ELSE SubSeq(path, 1, slash - 1)
      rest  == IF slash = 0 THEN <<>> ELSE Drop(path, slash - 1)
      s1    == s \o <<Slash>> \o comp
  IN IF ~resolve \/ (s1 \in present /\ s1 \notin DOMAIN Links)
       THEN [path |-> rest, s |-> s1, fc |-> fc]
     ELSE IF s1 \notin present
       THEN [err |-> "SysError"]
     ELSE IF fc + 1 >= MaxFollow
       THEN [err |-> "infinite symlink recursion"]
     ELSE LET temp == Links[s1] \o rest
          IN [path |-> temp,
              s    |-> IF temp # <<>> /\ temp[1] = Slash THEN <<>>
                       ELSE IF dirOf(s1) = <<Slash>> THEN <<>> ELSE dirOf(s1),
              fc   |-> fc + 1]

\* canonPath(path, resolveSymlinks) from the loop on: `path` is what is
\* left of the input, `s` the result so far.
RECURSIVE CanonLoop(_, _, _, _, _)
CanonLoop(path0, s, fc, resolve, present) ==
  LET path == SkipSlashes(path0)
  IN IF path = <<>> THEN [ok |-> IF s = <<>> THEN <<Slash>> ELSE s]
     ELSE IF IsDotStep(path) THEN CanonLoop(Drop(path, 1), s, fc, resolve, present)
     ELSE IF IsDotDotStep(path)
       THEN CanonLoop(Drop(path, 2),
                      IF s = <<>> THEN s ELSE SubSeq(s, 1, RFind(s, Slash) - 1),
                      fc, resolve, present)
     ELSE LET r == Component(path, s, fc, resolve, present)
          IN IF "err" \in DOMAIN r THEN r ELSE CanonLoop(r.path, r.s, r.fc, resolve, present)

\* canonPath(p, resolveSymlinks), on the file system `present` (which only
\* matters when symlinks are resolved).
canonPath(p, resolve, present) ==
  IF p = <<>> \/ p[1] # Slash THEN [err |-> "not an absolute path"]
  ELSE CanonLoop(p, <<>>, 0, resolve, present)

\* Seeded fault: one character too many required after dir.
isInDirOffByOne(path, dir) ==
  /\ Len(path) >= 1 /\ path[1] = Slash
  /\ IsPrefix(dir, path)
  /\ Len(path) >= Len(dir) + 3
  /\ path[Len(dir) + 1] = Slash

\* isInDir and isDirOrInDir, on the text.
isInDir(path, dir) ==
  /\ Len(path) >= 1 /\ path[1] = Slash
  /\ IsPrefix(dir, path)
  /\ Len(path) >= Len(dir) + 2
  /\ path[Len(dir) + 1] = Slash

isDirOrInDir(path, dir) == path = dir \/ isInDir(path, dir)

\* Some entry of allowedPaths holds p (the loops of checkSourcePath).
Allowed(p, allowed) == \E a \in allowed : isDirOrInDir(p, a)

\* Seeded faults: every outcome cached; the resolved path not checked.
checkSourcePathCacheAll(key, cache, allowed, present) ==
  IF key \in DOMAIN cache THEN [res |-> cache[key], cache |-> cache]
  ELSE LET abspath == canonPath(key, FALSE, {}).ok
           r == IF ~Allowed(abspath, allowed) THEN [err |-> "restricted"]
                ELSE LET q == canonPath(abspath, TRUE, present)
                     IN IF "err" \in DOMAIN q \/ Allowed(q.ok, allowed) THEN q ELSE [err |-> "restricted"]
       IN [res |-> r, cache |-> (key :> r) @@ cache]

checkSourcePathLexOnly(key, cache, allowed, present) ==
  IF key \in DOMAIN cache THEN [res |-> cache[key], cache |-> cache]
  ELSE LET abspath == canonPath(key, FALSE, {}).ok
       IN IF ~Allowed(abspath, allowed)
            THEN [res |-> [err |-> "restricted"], cache |-> cache]
          ELSE LET r == canonPath(abspath, TRUE, present)
               IN IF "err" \in DOMAIN r THEN [res |-> r, cache |-> cache]
                  ELSE [res |-> r, cache |-> (key :> r) @@ cache]

\* The last stage of checkSourcePath: the path with its symlinks resolved
\* (or canonPath's error) must be allowed too; only then is it cached.
CheckResolved(key, r, cache, allowed) ==
  IF "err" \in DOMAIN r THEN [res |-> r, cache |-> cache]
  ELSE IF Allowed(r.ok, allowed)
    THEN [res |-> r, cache |-> (key :> r) @@ cache]
  ELSE [res |-> [err |-> "restricted"], cache |-> cache]

\* The path canonicalised without symlinks must be allowed.
CheckLexical(key, abspath, cache, allowed, present) ==
  IF ~Allowed(abspath, allowed)
    THEN [res |-> [err |-> "restricted"], cache |-> cache]
  ELSE CheckResolved(key, canonPath(abspath, TRUE, present), cache, allowed)

\* checkSourcePath(path) for the canonical path `key` (path_.path.abs()):
\* answer from resolvedPaths, else check the path before and after
\* resolving symlinks.  Returns the outcome and the new cache.
checkSourcePath(key, cache, allowed, present) ==
  IF key \in DOMAIN cache THEN [res |-> cache[key], cache |-> cache]
  ELSE CheckLexical(key, canonPath(key, FALSE, {}).ok, cache, allowed, present)

-----------------------------------------------------------------------------
\* Reference: paths as sequences of components.

\* The maximal runs of non-slash characters of p.
Comps(p) ==
  LET step(acc, c) ==
        IF c = Slash
          THEN [done |-> IF acc.cur = <<>> THEN acc.done ELSE Append(acc.done, acc.cur),
                cur |-> <<>>]
          ELSE [done |-> acc.done, cur |-> Append(acc.cur, c)]
      r == FoldLeft(step, [done |-> <<>>, cur |-> <<>>], p)
  IN IF r.cur = <<>> THEN r.done ELSE Append(r.done, r.cur)

Join(cs) == IF cs = <<>> THEN <<Slash>>
            ELSE FoldLeft(LAMBDA acc, c : acc \o <<Slash>> \o c, <<>>, cs)

\* Lexical normalisation: "." is dropped, ".." drops the component before.
LexRef(p) ==
  Join(FoldLeft(LAMBDA d, c : IF c = <<Dot>> THEN d
                              ELSE IF c = <<Dot, Dot>> THEN (IF d = <<>> THEN d ELSE Front(d))
                              ELSE Append(d, c),
                <<>>, Comps(p)))

\* Physical resolution: walk the components; the path so far must exist,
\* and when it is a link, continue with the link's components (from the
\* root if it is absolute, else from the link's directory); the same bound
\* on follows.
RECURSIVE Resolve(_, _, _, _)
Resolve(done, todo, n, present) ==
  IF todo = <<>> THEN [ok |-> Join(done)]
  ELSE LET c == Head(todo)
       IN IF c = <<Dot>> THEN Resolve(done, Tail(todo), n, present)
          ELSE IF c = <<Dot, Dot>> THEN Resolve(IF done = <<>> THEN done ELSE Front(done), Tail(todo), n, present)
          ELSE IF Join(Append(done, c)) \notin present THEN [err |-> "SysError"]
          ELSE IF Join(Append(done, c)) \notin DOMAIN Links THEN Resolve(Append(done, c), Tail(todo), n, present)
          ELSE IF n + 1 >= MaxFollow THEN [err |-> "infinite symlink recursion"]
          ELSE LET t == Links[Join(Append(done, c))]
               IN Resolve(IF t # <<>> /\ t[1] = Slash THEN <<>> ELSE done,
                          Comps(t) \o Tail(todo), n + 1, present)

ResolveRef(p, present) == Resolve(<<>>, Comps(p), 0, present)

\* Spec 4.10: "at or below some entry in the allowed-paths set".
AtOrBelow(p, allowed) == \E a \in allowed : IsPrefix(Comps(a), Comps(p))

-----------------------------------------------------------------------------
\* canonPath without symlinks, on the raw text, and canonPath with them, on
\* the lexically canonical text, agree with component-wise normalisation
\* and resolution, missing paths and link cycles included.
CanonMatchesRefAt(raw, present) ==
  /\ canonPath(raw, FALSE, {}) = [ok |-> LexRef(raw)]
  /\ canonPath(LexRef(raw), TRUE, present) = ResolveRef(LexRef(raw), present)

\* A path the sandbox lets through is at or below an allowed path both
\* before and after its symlinks are resolved, and the path returned is the
\* resolved one.
SoundFor(res, lex, phy, allowed) ==
  "ok" \in DOMAIN res =>
    /\ AtOrBelow(lex, allowed)
    /\ res = phy
    /\ AtOrBelow(res.ok, allowed)

\* Spec 4.10: a path at or below an allowed path before and after symlink
\* resolution is let through (RestrictedPath only on unauthorised access).
CompleteFor(res, lex, phy, allowed) ==
  (AtOrBelow(lex, allowed) /\ "ok" \in DOMAIN phy /\ AtOrBelow(phy.ok, allowed)) => "ok" \in DOMAIN res

====
