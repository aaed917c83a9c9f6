----------------------------- MODULE NarAccessor -----------------------------
(***************************************************************************)
(* The NAR accessor (src/lix/libstore/nar-accessor.cc): the index a        *)
(* NarAccessor builds while a NAR is parsed (NarIndexer, the callbacks of *)
(* parseDump), its lookups (find, stat, readDirectory, readFile,          *)
(* readLink), the JSON listing listNar writes from any accessor, and the  *)
(* lazy accessor makeLazyNarAccessor builds back from such a listing,     *)
(* which reads file contents through getNarBytes(start, size).            *)
(*                                                                         *)
(* A path is a sequence of tokens, "/" and names (as "/a/b" is            *)
(* <<"/", "a", "/", "b">>); the root is the empty path.  A NarMember is   *)
(* keyed by the names leading to it, and a directory's children are the   *)
(* members one name below it.  The NAR is a sequence of units: a token of *)
(* the format is one unit, a file's contents are one unit per character;  *)
(* NarSource::pos counts the units read.  JSON objects are functions from *)
(* field names, so that a field is absent as it is in the listing.        *)
(***************************************************************************)
EXTENDS Integers, Sequences, SequencesExt

CONSTANTS NarTrees,   \* the file system objects archived
          NarNames    \* names that lookups may ask for

Err(why)   == [err |-> why]
Ok(v)      == [ok |-> v]
Failed(r)  == "err" \in DOMAIN r

\* NarMember: its FSAccessor::Type, isExecutable, start, size and target.
Member(type, exec, start, size, target) ==
  [type |-> type, exec |-> exec, start |-> start, size |-> size, target |-> target]
MissingMember == Member("missing", FALSE, 0, 0, "")

PathOf(ns) == FoldLeft(LAMBDA p, n : p \o <<"/", n>>, <<>>, ns)

-----------------------------------------------------------------------------
(* parseDump (lix/libutil/archive.cc, not under src/): the NAR of a tree   *)
(* and the visitor calls it makes, each with NarSource::pos at that call.  *)
(* "up" is the end of a directory, where the child visitor is dropped.     *)

RECURSIVE Dump(_, _, _)
Dump(t, path, at) ==
  CASE t.type = "regular" ->
         LET hd == <<"(", "type", "regular">> \o (IF t.exec THEN <<"executable", "">> ELSE <<>>)
                   \o <<"contents", "#">>
         IN  [nar |-> hd \o t.contents \o <<")">>,
              ev  |-> <<[op |-> "file", path |-> path, size |-> Len(t.contents),
                         exec |-> t.exec, pos |-> at + Len(hd)]>>]
    [] t.type = "symlink" ->
         [nar |-> <<"(", "type", "symlink", "target", t.target, ")">>,
          ev  |-> <<[op |-> "link", path |-> path, target |-> t.target]>>]
    [] OTHER ->
         LET Entry(acc, e) ==
               LET pre == <<"entry", "(", "name", e.name, "node">>
                   d   == Dump(e.node, path \o <<"/", e.name>>, at + Len(acc.nar) + Len(pre))
               IN  [nar |-> acc.nar \o pre \o d.nar \o <<")">>, ev |-> acc.ev \o d.ev]
             body == FoldLeft(Entry, [nar |-> <<"(", "type", "directory">>,
                                      ev  |-> <<[op |-> "dir", path |-> path]>>], t.entries)
         IN  [nar |-> body.nar \o <<")">>, ev |-> body.ev \o <<[op |-> "up"]>>]

NarDump(t) ==
  LET d == Dump(t, <<>>, 1) IN [nar |-> <<"nix-archive-1">> \o d.nar, ev |-> d.ev]

-----------------------------------------------------------------------------
(* NarIndexer: st.m maps keys to members, st.stack holds the `parent` of   *)
(* each live visitor, innermost last.                                      *)

\* createMember: the first member made fills the root (still tMissing);
\* any other is emplaced under the parent by the last name of its path, and
\* emplace keeps a member already there.
createMember(st, path, mem) ==
  LET parent == st.stack[Len(st.stack)]
      key    == IF st.m[parent].type = "missing" THEN parent ELSE parent \o <<path[Len(path)]>>
  IN  [key |-> key,
       m   |-> IF key = parent \/ key \notin DOMAIN st.m
                 THEN (key :> mem) @@ st.m ELSE st.m]

\* createDirectory: a child visitor whose parent is the new directory.
createDirectory(st, path) ==
  LET c == createMember(st, path, Member("directory", FALSE, 0, 0, ""))
  IN  [m |-> c.m, stack |-> Append(st.stack, c.key)]

\* Seeded fault: start taken before the size field is read.
createRegularFileEarlyStart(st, path, size, exec, pos) ==
  LET c == createMember(st, path, Member("regular", FALSE, 0, 0, ""))
  IN  [m |-> [c.m EXCEPT ![c.key].size = size, ![c.key].start = pos - 1, ![c.key].exec = exec],
       stack |-> st.stack]

\* createRegularFile: size, start (the source position now, where the
\* contents begin) and the executable bit are set on the member returned.
createRegularFile(st, path, size, exec, pos) ==
  LET c == createMember(st, path, Member("regular", FALSE, 0, 0, ""))
  IN  [m |-> [c.m EXCEPT ![c.key].size = size, ![c.key].start = pos, ![c.key].exec = exec],
       stack |-> st.stack]

createSymlink(st, path, target) ==
  [m |-> createMember(st, path, Member("symlink", FALSE, 0, 0, target)).m, stack |-> st.stack]

IndexStep(st, e) ==
  CASE e.op = "dir"  -> createDirectory(st, e.path)
    [] e.op = "file" -> createRegularFile(st, e.path, e.size, e.exec, e.pos)
    [] e.op = "link" -> createSymlink(st, e.path, e.target)
    [] OTHER         -> [st EXCEPT !.stack = Front(@)]

\* NarAccessor(std::string && nar): parseDump with an indexer on the root;
\* file contents are then read from the NAR itself.
NarIndex(d) ==
  [m     |-> FoldLeft(IndexStep, [m |-> (<<>> :> MissingMember), stack |-> <<<<>>>>], d.ev).m,
   bytes |-> d.nar]

-----------------------------------------------------------------------------
(* Lookups, on an accessor [m |-> members, bytes |-> the NAR read from].   *)

\* The position of the first "/" at or after i, or just past the end.
NextSlash(path, i) ==
  LET S == {k \in i..Len(path) : path[k] = "/"}
  IN  IF S = {} THEN Len(path) + 1 ELSE CHOOSE k \in S : \A l \in S : k <= l

\* find, from member `cur` at position `it` of the path: each component
\* needs a directory, must follow a "/" (the assert), and must name a
\* child; an empty component names none.
RECURSIVE FindFrom(_, _, _, _)
FindFrom(m, path, cur, it) ==
  IF it > Len(path) THEN Ok(cur)
  ELSE IF m[cur].type # "directory" THEN Err("null")
  ELSE IF path[it] # "/" THEN Err("assert")
  ELSE LET next == NextSlash(path, it + 1)
           comp == SubSeq(path, it + 1, next - 1)
       IN  IF comp = <<>> \/ cur \o comp \notin DOMAIN m THEN Err("null")
           ELSE FindFrom(m, path, cur \o comp, next)

find(acc, path) == FindFrom(acc.m, path, <<>>, 1)

\* get: "NAR file does not contain path".
get(acc, path) ==
  LET f == find(acc, path)
  IN  IF Failed(f) /\ f.err = "null" THEN Err("missing")
      ELSE IF Failed(f) THEN f ELSE Ok(acc.m[f.ok])

stat(acc, path) ==
  LET f == find(acc, path)
  IN  IF Failed(f) /\ f.err = "null" THEN Ok([type |-> "missing", size |-> 0, exec |-> FALSE, start |-> 0])
      ELSE IF Failed(f) THEN f
      ELSE LET i == acc.m[f.ok] IN Ok([type |-> i.type, size |-> i.size, exec |-> i.exec, start |-> i.start])

\* The names of the children of key k.
ChildNames(m, k) == {c[Len(c)] : c \in {c \in DOMAIN m : Len(c) = Len(k) + 1 /\ SubSeq(c, 1, Len(k)) = k}}

readDirectory(acc, path) ==
  LET g == get(acc, path)
  IN  IF Failed(g) THEN g
      ELSE IF g.ok.type # "directory" THEN Err("notDir")
      ELSE Ok(ChildNames(acc.m, find(acc, path).ok))

\* readFile: getNarBytes(start, size), or the substring of the NAR; either
\* reads the same NAR here.
readFile(acc, path) ==
  LET g == get(acc, path)
  IN  IF Failed(g) THEN g
      ELSE IF g.ok.type # "regular" THEN Err("notFile")
      ELSE Ok(SubSeq(acc.bytes, g.ok.start + 1, g.ok.start + g.ok.size))

readLink(acc, path) ==
  LET g == get(acc, path)
  IN  IF Failed(g) THEN g
      ELSE IF g.ok.type # "symlink" THEN Err("notLink")
      ELSE Ok(g.ok.target)

-----------------------------------------------------------------------------
(* listNar and the lazy accessor.                                          *)

\* listNar(accessor, path, recurse): "executable" only when set and
\* "narOffset" only when non-zero; a missing path throws.
RECURSIVE listNar(_, _, _)
listNar(acc, path, recurse) ==
  LET s == stat(acc, path)
  IN  IF Failed(s) THEN s
      ELSE CASE s.ok.type = "regular" ->
                  Ok(("type" :> "regular") @@ ("size" :> s.ok.size)
                     @@ (IF s.ok.exec THEN ("executable" :> TRUE) ELSE <<>>)
                     @@ (IF s.ok.start # 0 THEN ("narOffset" :> s.ok.start) ELSE <<>>))
             [] s.ok.type = "directory" ->
                  LET names == readDirectory(acc, path).ok
                      kids  == [n \in names |-> IF recurse THEN listNar(acc, path \o <<"/", n>>, TRUE)
                                               ELSE Ok(<<>>)]
                  IN  IF \E n \in names : Failed(kids[n])
                      THEN kids[CHOOSE n \in names : Failed(kids[n])]
                      ELSE Ok(("type" :> "directory") @@ ("entries" :> [n \in names |-> kids[n].ok]))
             [] s.ok.type = "symlink" ->
                  LET l == readLink(acc, path)
                  IN  IF Failed(l) THEN l ELSE Ok(("type" :> "symlink") @@ ("target" :> l.ok))
             [] OTHER -> Err("missing")

\* NarAccessor(listing, getNarBytes)'s recurse on the member at key k:
\* v["size"] and v["narOffset"] on an absent field are null, which does not
\* convert to an integer (json type_error); an unknown type leaves the
\* member tMissing.
RECURSIVE LazyMembers(_, _)
LazyMembers(k, v) ==
  CASE v["type"] = "directory" ->
         LET names == DOMAIN v["entries"]
             kids  == [n \in names |-> LazyMembers(k \o <<n>>, v["entries"][n])]
         IN  IF \E n \in names : Failed(kids[n])
             THEN kids[CHOOSE n \in names : Failed(kids[n])]
             ELSE Ok([c \in {k} \cup UNION {DOMAIN kids[n].ok : n \in names} |->
                       IF c = k THEN Member("directory", FALSE, 0, 0, "")
                       ELSE kids[c[Len(k) + 1]].ok[c]])
    [] v["type"] = "regular" ->
         IF {"size", "narOffset"} \subseteq DOMAIN v
         THEN Ok(k :> Member("regular", IF "executable" \in DOMAIN v THEN v["executable"] ELSE FALSE,
                             v["narOffset"], v["size"], ""))
         ELSE Err("json")
    [] v["type"] = "symlink" ->
         Ok(k :> Member("symlink", FALSE, 0, 0, IF "target" \in DOMAIN v THEN v["target"] ELSE ""))
    [] OTHER -> Ok(k :> MissingMember)

makeLazyNarAccessor(listing, narBytes) ==
  LET r == LazyMembers(<<>>, listing)
  IN  IF Failed(r) THEN r ELSE Ok([m |-> r.ok, bytes |-> narBytes])

-----------------------------------------------------------------------------
(* Reference: the tree itself.                                             *)

RECURSIVE NodeAt(_, _)
NodeAt(t, ns) ==
  IF ns = <<>> THEN Ok(t)
  ELSE IF t.type # "directory" \/ ~\E e \in Range(t.entries) : e.name = Head(ns) THEN Err("missing")
  ELSE NodeAt((CHOOSE e \in Range(t.entries) : e.name = Head(ns)).node, Tail(ns))

\* What the four lookups of an accessor say at a path: stat without the
\* offset, the directory's names, the file's contents, the link's target.
Answers(acc, path) ==
  LET s == stat(acc, path)
  IN  [stat |-> IF Failed(s) THEN s ELSE Ok([type |-> s.ok.type, size |-> s.ok.size, exec |-> s.ok.exec]),
       dir  |-> readDirectory(acc, path),
       file |-> readFile(acc, path),
       link |-> readLink(acc, path)]

RefAnswers(t, ns) ==
  LET n == NodeAt(t, ns)
      Is(ty) == ~Failed(n) /\ n.ok.type = ty
      Bad(ty) == IF Failed(n) THEN Err("missing") ELSE Err(ty)
  IN  [stat |-> Ok(IF Failed(n) THEN [type |-> "missing", size |-> 0, exec |-> FALSE]
                   ELSE [type |-> n.ok.type,
                         size |-> IF Is("regular") THEN Len(n.ok.contents) ELSE 0,
                         exec |-> Is("regular") /\ n.ok.exec]),
       dir  |-> IF Is("directory") THEN Ok({e.name : e \in Range(n.ok.entries)}) ELSE Bad("notDir"),
       file |-> IF Is("regular") THEN Ok(n.ok.contents) ELSE Bad("notFile"),
       link |-> IF Is("symlink") THEN Ok(n.ok.target) ELSE Bad("notLink")]

\* Lookups: every sequence of at most three names.
Lookups == UNION {[1..k -> NarNames] : k \in 0..3}

\* The NAR being accessed: one of NarTrees, archived.
VARIABLE narTree

NarInit == narTree \in NarTrees

\* The answers of the accessor built while parsing the NAR of t, and of the
\* lazy one built from its listNar listing with getNarBytes reading that
\* NAR, checked against t once per tree.
Faithful(t) ==
  LET d     == NarDump(t)
      eager == NarIndex(d)
      list  == listNar(eager, <<>>, TRUE)
      lazy  == IF Failed(list) THEN list ELSE makeLazyNarAccessor(list.ok, d.nar)
  IN  /\ ~Failed(lazy)
      /\ \A ns \in Lookups : /\ Answers(eager, PathOf(ns)) = RefAnswers(t, ns)
                             /\ Answers(lazy.ok, PathOf(ns)) = RefAnswers(t, ns)
FaithfulFor == [t \in NarTrees |-> Faithful(t)]

\* A NarAccessor built while parsing a NAR, and the lazy one built from its
\* listNar listing, both answer stat, readDirectory, readFile and readLink
\* at every path as the archived tree says: NarIndexer records each file's
\* start where parseDump is about to read its contents, createMember fills
\* the root once and emplaces the rest, and listNar writes every field the
\* lazy constructor needs (an absent narOffset would make it throw).
NarAccessorsFaithful == FaithfulFor[narTree]
====
