--------------------------- MODULE DerivationATerm ---------------------------
(***************************************************************************)
(* The ATerm text of a derivation (lix/libstore/derivations.cc): the       *)
(* printer Derivation::unparse and the parser parseDerivation, followed    *)
(* character by character on TLA+ strings, as the code walks its          *)
(* std::string and string_view.                                            *)
(*                                                                         *)
(* A derivation is written to the store (unparse) and read back            *)
(* (parseDerivation).  What is read may be the text written, or a proper   *)
(* prefix of it: a truncated file, or a text a client added to the store   *)
(* under a .drv name.                                                      *)
(*                                                                         *)
(* Abstracted: store path syntax (a text is a valid store path iff it is   *)
(* in StorePaths), hash texts (valid iff in HashTexts, the base-16 codec   *)
(* is checked in HashEncoding), and the path a fixed output gets           *)
(* (FixedPath).                                                            *)
(***************************************************************************)
EXTENDS Integers, Sequences, SequencesExt, FiniteSets, TLC

CONSTANTS Drvs,        \* the derivations the evaluator may write
          StorePaths,  \* texts store.parseStorePath accepts
          HashTypes,   \* texts parseHashType accepts
          HashTexts,   \* texts Hash::parseNonSRIUnprefixed accepts
          FixedPath,   \* the path dof.path(store, name, output) gives
          Xp,          \* enabled experimental features
          OutputPaths  \* <<drvPath, outputName>> -> the path it builds to

Q  == "\""             \* a double quote
BS == "\\"             \* a backslash
UBMsg == "remove_prefix past the end of the text"
DrvName == "n"         \* the derivation's name

\* Output variants of DerivationOutput, with unused fields "".
Out(kind, path, method, htype, hash) ==
  [kind |-> kind, path |-> path, method |-> method, htype |-> htype, hash |-> hash]
InputAddressed(p)      == Out("InputAddressed", p, "", "", "")
Deferred               == Out("Deferred", "", "", "", "")
CAFloating(m, ht)      == Out("CAFloating", "", m, ht, "")
CAFixed(m, ht, h)      == Out("CAFixed", "", m, ht, h)
Impure(m, ht)          == Out("Impure", "", m, ht, "")

\* A DerivedPathMap<StringSet>::ChildNode.
Node(value, childMap) == [value |-> value, childMap |-> childMap]

-----------------------------------------------------------------------------
(* Characters and byte order (std::map and std::set iterate in it).       *)

Ch(t, i) == IF 1 <= i /\ i <= Len(t) THEN SubSeq(t, i, i) ELSE "EOF"
Rest(t, i) == SubSeq(t, i, Len(t))

Bytes == "\t\n\r \"-./0123456789:ABCDEFGHIJKLMNOPQRSTUVWXYZ\\_abcdefghijklmnopqrstuvwxyz"
Code(c) == CHOOSE k \in 1..Len(Bytes) : Ch(Bytes, k) = c

RECURSIVE StrLess(_, _)
StrLess(a, b) ==
  IF a = "" THEN b # ""
  ELSE IF b = "" THEN FALSE
  ELSE IF Ch(a, 1) = Ch(b, 1) THEN StrLess(Rest(a, 2), Rest(b, 2))
  ELSE Code(Ch(a, 1)) < Code(Ch(b, 1))

Sorted(S) == SetToSortSeq(S, StrLess)

-----------------------------------------------------------------------------
(* The printer.                                                            *)

\* Seeded fault: backslashes printed as they are.
EscCharNoBackslash(c) ==
  CASE c = Q -> BS \o c
    [] c = "\n" -> BS \o "n"
    [] c = "\r" -> BS \o "r"
    [] c = "\t" -> BS \o "t"
    [] OTHER -> c

\* printString: quote, and escape " \ newline CR tab.
EscChar(c) ==
  CASE c = Q \/ c = BS -> BS \o c
    [] c = "\n" -> BS \o "n"
    [] c = "\r" -> BS \o "r"
    [] c = "\t" -> BS \o "t"
    [] OTHER -> c

RECURSIVE Escape(_)
Escape(s) == IF s = "" THEN "" ELSE EscChar(Ch(s, 1)) \o Escape(Rest(s, 2))

printString(s) == Q \o Escape(s) \o Q

printUnquotedString(s) == Q \o s \o Q

\* Items joined with commas, in brackets.
Commas(items) ==
  FoldLeft(LAMBDA acc, x : IF acc = "" THEN x ELSE acc \o "," \o x, "", items)
printStrings(S)         == "[" \o Commas([k \in 1..Len(S) |-> printString(S[k])]) \o "]"
printUnquotedStrings(S) == "[" \o Commas([k \in 1..Len(S) |-> printUnquotedString(S[k])]) \o "]"

RECURSIVE unparseDerivedPathMapNode(_)
unparseDerivedPathMapNode(node) ==
  "," \o
  IF node.childMap = <<>>
    THEN printUnquotedStrings(Sorted(node.value))
    ELSE LET ks == Sorted(DOMAIN node.childMap)
         IN "(" \o printUnquotedStrings(Sorted(node.value)) \o ",["
              \o Commas([k \in 1..Len(ks) |->
                          "(" \o printUnquotedString(ks[k])
                              \o unparseDerivedPathMapNode(node.childMap[ks[k]]) \o ")"])
              \o "])"

hasDynamicDrvDep(d) == \E p \in DOMAIN d.inputDrvs : d.inputDrvs[p].childMap # <<>>

\* The three fields after an output's name, per variant; maskOutputs
\* blanks the paths.
UnparseOutput(o, mask) ==
  LET f(path, algo, hash) ==
        "," \o printUnquotedString(IF mask THEN "" ELSE path) \o "," \o printUnquotedString(algo)
            \o "," \o printUnquotedString(hash)
  IN CASE o.kind = "InputAddressed" -> f(o.path, "", "")
       [] o.kind = "CAFixed"        -> f(FixedPath, o.method \o o.htype, o.hash)
       [] o.kind = "CAFloating"     -> f("", o.method \o o.htype, "")
       [] o.kind = "Deferred"       -> f("", "", "")
       [] o.kind = "Impure"         -> f("", o.method \o o.htype, "impure")

\* Derivation::unparse(store, maskOutputs, actualInputs = nullptr).  Masking
\* also blanks the environment variables named after outputs.
unparseMasked(d, mask) ==
  LET os == Sorted(DOMAIN d.outputs)
      is == Sorted(DOMAIN d.inputDrvs)
      es == Sorted(DOMAIN d.env)
  IN (IF hasDynamicDrvDep(d)
        THEN "DrvWithVersion(" \o printUnquotedString("xp-dyn-drv") \o ","
        ELSE "Derive(")
     \o "[" \o Commas([k \in 1..Len(os) |->
                 "(" \o printUnquotedString(os[k]) \o UnparseOutput(d.outputs[os[k]], mask) \o ")"])
     \o "],[" \o Commas([k \in 1..Len(is) |->
                 "(" \o printUnquotedString(is[k])
                     \o unparseDerivedPathMapNode(d.inputDrvs[is[k]]) \o ")"])
     \o "]," \o printUnquotedStrings(Sorted(d.inputSrcs))
     \o "," \o printUnquotedString(d.platform)
     \o "," \o printString(d.builder)
     \o "," \o printStrings(d.args)
     \o ",[" \o Commas([k \in 1..Len(es) |->
                 "(" \o printString(es[k]) \o ","
                     \o printString(IF mask /\ es[k] \in DOMAIN d.outputs THEN "" ELSE d.env[es[k]]) \o ")"])
     \o "])"

unparse(d) == unparseMasked(d, FALSE)

-----------------------------------------------------------------------------
(* The parser.  A step returns [pos |-> next position, val |-> value] or   *)
(* [err |-> message]; Then runs the next step on success.                  *)

Failed(r) == "err" \in DOMAIN r
Then(r, G(_)) == IF Failed(r) THEN r ELSE G(r)
Ok(pos, val) == [pos |-> pos, val |-> val]

expect(t, i, lit) ==
  IF i + Len(lit) - 1 <= Len(t) /\ SubSeq(t, i, i + Len(lit) - 1) = lit
    THEN [pos |-> i + Len(lit)]
    ELSE [err |-> "expected string"]

\* The scanning loop of parseString: the position of the closing quote (or
\* one past the end), and whether a backslash was met.
RECURSIVE Scan(_, _, _)
Scan(t, c, escaped) ==
  IF c > Len(t) \/ Ch(t, c) = Q THEN [end |-> c, escaped |-> escaped]
  ELSE IF Ch(t, c) = BS
    THEN IF c + 1 > Len(t) THEN [err |-> "unterminated string in derivation"]
         ELSE Scan(t, c + 2, TRUE)
  ELSE Scan(t, c + 1, escaped)

\* The escapes table: n, r, t map to control characters, the rest to themselves.
escapes(c) == CASE c = "n" -> "\n" [] c = "r" -> "\r" [] c = "t" -> "\t" [] OTHER -> c

RECURSIVE Unescape(_)
Unescape(s) ==
  IF s = "" THEN ""
  ELSE IF Ch(s, 1) = BS THEN escapes(Ch(s, 2)) \o Unescape(Rest(s, 3))
  ELSE Ch(s, 1) \o Unescape(Rest(s, 2))

\* parseString.  When no closing quote is found, the code still removes
\* contentLen + 1 characters from a view that has only contentLen left.
parseString(t, i) ==
  Then(expect(t, i, Q), LAMBDA a :
    LET sc == Scan(t, a.pos, FALSE)
    IN IF Failed(sc) THEN sc
       ELSE IF sc.end > Len(t) THEN [err |-> UBMsg]
       ELSE LET content == SubSeq(t, a.pos, sc.end - 1)
            IN Ok(sc.end + 1, IF sc.escaped THEN Unescape(content) ELSE content))

validatePath(s) == s # "" /\ Ch(s, 1) = "/"

parsePath(t, i) ==
  Then(parseString(t, i), LAMBDA r :
    IF validatePath(r.val) THEN r ELSE [err |-> "bad path in derivation"])

parseStorePath(s) == s \in StorePaths

\* endOfList: a comma is skipped, a bracket ends the list, anything else is
\* left for the element parser.
endOfList(t, i) ==
  CASE Ch(t, i) = "," -> [pos |-> i + 1, end |-> FALSE]
    [] Ch(t, i) = "]" -> [pos |-> i + 1, end |-> TRUE]
    [] OTHER          -> [pos |-> i, end |-> FALSE]

\* ContentAddressMethod::parsePrefix and parseHashType on the hash algo.
parsePrefix(algo) ==
  IF IsPrefix("r:", algo) THEN [method |-> "r:", rest |-> Rest(algo, 3)]
  ELSE IF IsPrefix("text:", algo) THEN [method |-> "text:", rest |-> Rest(algo, 6)]
  ELSE [method |-> "", rest |-> algo]

\* parseDerivationOutput(store, pathS, hashAlgo, hashS, xpSettings).
parseDerivationOutputFields(pathS, hashAlgo, hashS) ==
  IF hashAlgo # ""
    THEN LET m == parsePrefix(hashAlgo)
         IN IF m.method = "text:" /\ "dynamic-derivations" \notin Xp THEN [err |-> "experimental feature"]
            ELSE IF m.rest \notin HashTypes THEN [err |-> "unknown hash algorithm"]
            ELSE IF hashS = "impure"
              THEN IF "impure-derivations" \notin Xp THEN [err |-> "experimental feature"]
                   ELSE IF pathS # "" THEN [err |-> "impure derivation output should not specify output path"]
                   ELSE [out |-> Impure(m.method, m.rest)]
            ELSE IF hashS # ""
              THEN IF ~validatePath(pathS) THEN [err |-> "bad path in derivation"]
                   ELSE IF hashS \notin HashTexts THEN [err |-> "bad hash"]
                   ELSE [out |-> CAFixed(m.method, m.rest, hashS)]
            ELSE IF "ca-derivations" \notin Xp THEN [err |-> "experimental feature"]
            ELSE IF pathS # "" THEN [err |-> "content-addressed derivation output should not specify output path"]
            ELSE [out |-> CAFloating(m.method, m.rest)]
  ELSE IF pathS = "" THEN [out |-> Deferred]
  ELSE IF ~validatePath(pathS) THEN [err |-> "bad path in derivation"]
  ELSE IF ~parseStorePath(pathS) THEN [err |-> "bad store path"]
  ELSE [out |-> InputAddressed(pathS)]

parseDerivationOutput(t, i) ==
  Then(expect(t, i, ","), LAMBDA a : Then(parseString(t, a.pos), LAMBDA p :
  Then(expect(t, p.pos, ","), LAMBDA b : Then(parseString(t, b.pos), LAMBDA h :
  Then(expect(t, h.pos, ","), LAMBDA c : Then(parseString(t, c.pos), LAMBDA s :
  Then(expect(t, s.pos, ")"), LAMBDA e :
    LET o == parseDerivationOutputFields(p.val, h.val, s.val)
    IN IF Failed(o) THEN o ELSE Ok(e.pos, o.out))))))))

\* The `while (!endOfList(str))` loops, one element kind each: "strings" and
\* "paths" (parseStrings), "child" (a childMap entry), "output",
\* "inputDrv", "arg" and "env" (parseDerivation).  acc is what the loop
\* builds; maps use insert_or_assign, except outputs, which use emplace.
RECURSIVE ParseList(_, _, _, _, _), Elem(_, _, _, _, _), parseDerivedPathMapNode(_, _, _)

ParseList(t, i, acc, kind, v) ==
  LET e == endOfList(t, i)
  IN IF e.end THEN Ok(e.pos, acc)
     ELSE Then(Elem(t, e.pos, acc, kind, v), LAMBDA r : ParseList(t, r.pos, r.val, kind, v))

parseStrings(t, i, arePaths) ==
  Then(expect(t, i, "["), LAMBDA a :
    ParseList(t, a.pos, {}, IF arePaths THEN "paths" ELSE "strings", "Traditional"))

Elem(t, i, acc, kind, v) ==
  CASE kind = "strings" ->
         Then(parseString(t, i), LAMBDA r : Ok(r.pos, acc \cup {r.val}))
    [] kind = "paths" ->
         Then(parsePath(t, i), LAMBDA r : Ok(r.pos, acc \cup {r.val}))
    [] kind = "arg" ->
         Then(parseString(t, i), LAMBDA r : Ok(r.pos, Append(acc, r.val)))
    [] kind = "child" ->
         Then(expect(t, i, "("), LAMBDA a : Then(parseString(t, a.pos), LAMBDA n :
         Then(expect(t, n.pos, ","), LAMBDA b : Then(parseDerivedPathMapNode(t, b.pos, v), LAMBDA c :
         Then(expect(t, c.pos, ")"), LAMBDA e : Ok(e.pos, (n.val :> c.val) @@ acc))))))
    [] kind = "output" ->
         Then(expect(t, i, "("), LAMBDA a : Then(parseString(t, a.pos), LAMBDA n :
         Then(parseDerivationOutput(t, n.pos), LAMBDA o : Ok(o.pos, acc @@ (n.val :> o.val)))))
    [] kind = "inputDrv" ->
         Then(expect(t, i, "("), LAMBDA a : Then(parsePath(t, a.pos), LAMBDA p :
         Then(expect(t, p.pos, ","), LAMBDA b :
         IF ~parseStorePath(p.val) THEN [err |-> "bad store path"] ELSE
         Then(parseDerivedPathMapNode(t, b.pos, v), LAMBDA c :
         Then(expect(t, c.pos, ")"), LAMBDA e : Ok(e.pos, (p.val :> c.val) @@ acc))))))
    [] kind = "env" ->
         Then(expect(t, i, "("), LAMBDA a : Then(parseString(t, a.pos), LAMBDA n :
         Then(expect(t, n.pos, ","), LAMBDA b : Then(parseString(t, b.pos), LAMBDA x :
         Then(expect(t, x.pos, ")"), LAMBDA e : Ok(e.pos, (n.val :> x.val) @@ acc))))))

\* parseDerivedPathMapNode: the old form is a list of output names; the
\* versioned form may also be (names,[(name,node),...]).
parseDerivedPathMapNode(t, i, v) ==
  LET plain == Then(parseStrings(t, i, FALSE), LAMBDA r : Ok(r.pos, Node(r.val, <<>>)))
  IN IF v = "Traditional" THEN plain
     ELSE CASE Ch(t, i) = "[" -> plain
            [] Ch(t, i) = "(" ->
                 Then(parseStrings(t, i + 1, FALSE), LAMBDA s :
                 Then(expect(t, s.pos, ",["), LAMBDA a :
                 Then(ParseList(t, a.pos, <<>>, "child", v), LAMBDA c :
                 Then(expect(t, c.pos, ")"), LAMBDA e : Ok(e.pos, Node(s.val, c.val))))))
            [] OTHER -> [err |-> "invalid inputDrvs entry in derivation"]

\* The header: "Derive(" or "DrvWithVersion("xp-dyn-drv",".
parseHeader(t) ==
  Then(expect(t, 1, "D"), LAMBDA a :
    CASE Ch(t, a.pos) = "e" ->
           Then(expect(t, a.pos, "erive("), LAMBDA b : Ok(b.pos, "Traditional"))
      [] Ch(t, a.pos) = "r" ->
           Then(expect(t, a.pos, "rvWithVersion("), LAMBDA b :
           Then(parseString(t, b.pos), LAMBDA s :
             IF s.val # "xp-dyn-drv" THEN [err |-> "Unknown derivation ATerm format version"]
             ELSE IF "dynamic-derivations" \notin Xp THEN [err |-> "experimental feature"]
             ELSE Then(expect(t, s.pos, ","), LAMBDA c : Ok(c.pos, "DynamicDerivations"))))
      [] OTHER -> [err |-> "derivation does not start with 'Derive' or 'DrvWithVersion'"])

\* Seeded fault: the closing parenthesis not required.
parseDerivationNoClose(t) ==
  Then(parseHeader(t), LAMBDA h :
  Then(expect(t, h.pos, "["), LAMBDA a :
  Then(ParseList(t, a.pos, <<>>, "output", h.val), LAMBDA os :
  Then(expect(t, os.pos, ",["), LAMBDA b :
  Then(ParseList(t, b.pos, <<>>, "inputDrv", h.val), LAMBDA ds :
  Then(expect(t, ds.pos, ","), LAMBDA c :
  Then(parseStrings(t, c.pos, TRUE), LAMBDA ss :
  IF ~(ss.val \subseteq StorePaths) THEN [err |-> "bad store path"] ELSE
  Then(expect(t, ss.pos, ","), LAMBDA d : Then(parseString(t, d.pos), LAMBDA pl :
  Then(expect(t, pl.pos, ","), LAMBDA e : Then(parseString(t, e.pos), LAMBDA bu :
  Then(expect(t, bu.pos, ",["), LAMBDA f :
  Then(ParseList(t, f.pos, <<>>, "arg", h.val), LAMBDA as :
  Then(expect(t, as.pos, ",["), LAMBDA g :
  Then(ParseList(t, g.pos, <<>>, "env", h.val), LAMBDA es :
    Ok(es.pos, [outputs |-> os.val, inputDrvs |-> ds.val, inputSrcs |-> ss.val,
               platform |-> pl.val, builder |-> bu.val, args |-> as.val,
               env |-> es.val]))))))))))))))))

\* parseDerivation(store, s, name): the derivation, or the error thrown.
parseDerivation(t) ==
  Then(parseHeader(t), LAMBDA h :
  Then(expect(t, h.pos, "["), LAMBDA a :
  Then(ParseList(t, a.pos, <<>>, "output", h.val), LAMBDA os :
  Then(expect(t, os.pos, ",["), LAMBDA b :
  Then(ParseList(t, b.pos, <<>>, "inputDrv", h.val), LAMBDA ds :
  Then(expect(t, ds.pos, ","), LAMBDA c :
  Then(parseStrings(t, c.pos, TRUE), LAMBDA ss :
  IF ~(ss.val \subseteq StorePaths) THEN [err |-> "bad store path"] ELSE
  Then(expect(t, ss.pos, ","), LAMBDA d : Then(parseString(t, d.pos), LAMBDA pl :
  Then(expect(t, pl.pos, ","), LAMBDA e : Then(parseString(t, e.pos), LAMBDA bu :
  Then(expect(t, bu.pos, ",["), LAMBDA f :
  Then(ParseList(t, f.pos, <<>>, "arg", h.val), LAMBDA as :
  Then(expect(t, as.pos, ",["), LAMBDA g :
  Then(ParseList(t, g.pos, <<>>, "env", h.val), LAMBDA es :
  Then(expect(t, es.pos, ")"), LAMBDA z :
    Ok(z.pos, [outputs |-> os.val, inputDrvs |-> ds.val, inputSrcs |-> ss.val,
               platform |-> pl.val, builder |-> bu.val, args |-> as.val,
               env |-> es.val])))))))))))))))))

-----------------------------------------------------------------------------
(* The worker protocol's form of a BasicDerivation (writeDerivation and   *)
(* readDerivation on a Sink / Source): numbers and strings, one after the *)
(* other, with no escaping; the framing of a string on the wire is left   *)
(* out.  A derivation sent this way has no inputDrvs.                     *)

Num(n) == [num |-> n]
Str(x) == [str |-> x]
Strs(ss) == [k \in 1..Len(ss) |-> Str(ss[k])]

\* The three strings writeDerivation sends after an output's name.
WireOutput(o) ==
  CASE o.kind = "InputAddressed" -> <<o.path, "", "">>
    [] o.kind = "CAFixed"        -> <<FixedPath, o.method \o o.htype, o.hash>>
    [] o.kind = "CAFloating"     -> <<"", o.method \o o.htype, "">>
    [] o.kind = "Deferred"       -> <<"", "", "">>
    [] o.kind = "Impure"         -> <<"", o.method \o o.htype, "impure">>

\* writeDerivation(out, store, drv).
writeDerivationWire(d) ==
  LET os == Sorted(DOMAIN d.outputs)
      ps == Sorted(d.inputSrcs)
      es == Sorted(DOMAIN d.env)
  IN <<Num(Len(os))>>
     \o FoldLeft(LAMBDA acc, o : acc \o <<Str(o)>> \o Strs(WireOutput(d.outputs[o])), <<>>, os)
     \o <<Num(Len(ps))>> \o Strs(ps)
     \o <<Str(d.platform), Str(d.builder), Num(Len(d.args))>> \o Strs(d.args)
     \o <<Num(Len(es))>> \o FoldLeft(LAMBDA acc, k : acc \o <<Str(k), Str(d.env[k])>>, <<>>, es)

\* readNum / readString: the next item, or EndOfFile past the end.
ReadItem(w, i, f) == IF i > Len(w) THEN [err |-> "EndOfFile"] ELSE Ok(i + 1, w[i][f])

\* The counted loops of readDerivation: "output" (readDerivationOutput,
\* then emplace), "path" (a StorePathSet entry, parsed), "arg" (readStrings)
\* and "env" (drv.env[key] = value).
RECURSIVE ReadN(_, _, _, _, _)
ReadN(w, i, n, acc, kind) ==
  IF n = 0 THEN Ok(i, acc)
  ELSE CASE kind = "output" ->
              Then(ReadItem(w, i, "str"), LAMBDA nm : Then(ReadItem(w, nm.pos, "str"), LAMBDA p :
              Then(ReadItem(w, p.pos, "str"), LAMBDA a : Then(ReadItem(w, a.pos, "str"), LAMBDA h :
                LET o == parseDerivationOutputFields(p.val, a.val, h.val)
                IN IF Failed(o) THEN o
                   ELSE ReadN(w, h.pos, n - 1, acc @@ (nm.val :> o.out), kind)))))
         [] kind = "path" ->
              Then(ReadItem(w, i, "str"), LAMBDA p :
                IF ~parseStorePath(p.val) THEN [err |-> "bad store path"]
                ELSE ReadN(w, p.pos, n - 1, acc \cup {p.val}, kind))
         [] kind = "arg" ->
              Then(ReadItem(w, i, "str"), LAMBDA x : ReadN(w, x.pos, n - 1, Append(acc, x.val), kind))
         [] kind = "env" ->
              Then(ReadItem(w, i, "str"), LAMBDA k : Then(ReadItem(w, k.pos, "str"), LAMBDA x :
                ReadN(w, x.pos, n - 1, (k.val :> x.val) @@ acc, kind)))

\* readDerivation(in, store, drv, name) into a fresh BasicDerivation.
readDerivationWire(w) ==
  Then(ReadItem(w, 1, "num"), LAMBDA no : Then(ReadN(w, no.pos, no.val, <<>>, "output"), LAMBDA os :
  Then(ReadItem(w, os.pos, "num"), LAMBDA np : Then(ReadN(w, np.pos, np.val, {}, "path"), LAMBDA ss :
  Then(ReadItem(w, ss.pos, "str"), LAMBDA pl : Then(ReadItem(w, pl.pos, "str"), LAMBDA bu :
  Then(ReadItem(w, bu.pos, "num"), LAMBDA na : Then(ReadN(w, na.pos, na.val, <<>>, "arg"), LAMBDA as :
  Then(ReadItem(w, as.pos, "num"), LAMBDA ne : Then(ReadN(w, ne.pos, ne.val, <<>>, "env"), LAMBDA es :
    Ok(es.pos, [outputs |-> os.val, inputDrvs |-> <<>>, inputSrcs |-> ss.val,
                platform |-> pl.val, builder |-> bu.val, args |-> as.val, env |-> es.val])))))))))))

-----------------------------------------------------------------------------
(* The JSON form (Derivation::toJSON and Derivation::fromJSON): a JSON     *)
(* object is a function from its keys, an array a sequence, a string a    *)
(* string; nlohmann's text syntax is left out.                             *)

\* DerivationOutput::toJSON(store, drvName, outputName): the keys of each
\* variant.
OutputToJSON(o) ==
  CASE o.kind = "InputAddressed" -> "path" :> o.path
    [] o.kind = "CAFixed"        -> ("path" :> FixedPath) @@ ("hashAlgo" :> o.method \o o.htype)
                                    @@ ("hash" :> o.hash)
    [] o.kind = "CAFloating"     -> "hashAlgo" :> o.method \o o.htype
    [] o.kind = "Deferred"       -> <<>>
    [] o.kind = "Impure"         -> ("hashAlgo" :> o.method \o o.htype) @@ ("impure" :> TRUE)

\* The methodAlgo lambda of DerivationOutput::fromJSON.
methodAlgo(algo) ==
  LET m == parsePrefix(algo)
  IN IF m.method = "text:" /\ "dynamic-derivations" \notin Xp THEN [err |-> "experimental feature"]
     ELSE IF m.rest \notin HashTypes THEN [err |-> "unknown hash algorithm"]
     ELSE [method |-> m.method, htype |-> m.rest]

\* DerivationOutput::fromJSON: the set of keys picks the variant; the value
\* of "impure" is not looked at.
OutputFromJSON(j) ==
  LET keys == DOMAIN j
      ma   == methodAlgo(j["hashAlgo"])
  IN CASE keys = {"path"} ->
            IF parseStorePath(j["path"]) THEN [out |-> InputAddressed(j["path"])]
            ELSE [err |-> "bad store path"]
       [] keys = {"path", "hashAlgo", "hash"} ->
            IF Failed(ma) THEN ma
            ELSE IF j["hash"] \notin HashTexts THEN [err |-> "bad hash"]
            ELSE IF ~parseStorePath(j["path"]) THEN [err |-> "bad store path"]
            ELSE IF j["path"] # FixedPath THEN [err |-> "Path doesn't match derivation output"]
            ELSE [out |-> CAFixed(ma.method, ma.htype, j["hash"])]
       [] keys = {"hashAlgo"} ->
            IF "ca-derivations" \notin Xp THEN [err |-> "experimental feature"]
            ELSE IF Failed(ma) THEN ma
            ELSE [out |-> CAFloating(ma.method, ma.htype)]
       [] keys = {} -> [out |-> Deferred]
       [] keys = {"hashAlgo", "impure"} ->
            IF "impure-derivations" \notin Xp THEN [err |-> "experimental feature"]
            ELSE IF Failed(ma) THEN ma
            ELSE [out |-> Impure(ma.method, ma.htype)]
       [] OTHER -> [err |-> "invalid JSON for derivation output"]

\* doInput of Derivation::toJSON.
RECURSIVE NodeToJSON(_)
NodeToJSON(node) ==
  ("outputs" :> Sorted(node.value))
  @@ ("dynamicOutputs" :> [k \in DOMAIN node.childMap |-> NodeToJSON(node.childMap[k])])

\* Derivation::toJSON(store).
DrvToJSON(d) ==
  ("name" :> DrvName) @@ ("outputs" :> [o \in DOMAIN d.outputs |-> OutputToJSON(d.outputs[o])])
  @@ ("inputSrcs" :> Sorted(d.inputSrcs))
  @@ ("inputDrvs" :> [p \in DOMAIN d.inputDrvs |-> NodeToJSON(d.inputDrvs[p])])
  @@ ("system" :> d.platform) @@ ("builder" :> d.builder) @@ ("args" :> d.args) @@ ("env" :> d.env)

\* valueAt(json, key): the member, or an error when the key is missing.
valueAt(j, k) == IF k \in DOMAIN j THEN [val |-> j[k]] ELSE [err |-> "Expected JSON object to contain key"]

\* A loop over an object's members in key order: the outputs, the
\* inputDrvs entries, or a node's dynamicOutputs children (each of which
\* requires dynamic-derivations).
RECURSIVE FromMembers(_, _), NodeFromJSON(_)
FromMembers(j, kind) ==
  FoldLeft(LAMBDA acc, k :
             IF Failed(acc) THEN acc
             ELSE LET r == IF kind = "output" THEN OutputFromJSON(j[k])
                           ELSE IF kind = "child" /\ "dynamic-derivations" \notin Xp
                             THEN [err |-> "experimental feature"]
                           ELSE LET n == NodeFromJSON(j[k]) IN IF Failed(n) THEN n ELSE [out |-> n.val]
                  IN IF Failed(r) THEN r ELSE [val |-> acc.val @@ (k :> r.out)],
           [val |-> <<>>], Sorted(DOMAIN j))

\* doInput of Derivation::fromJSON.
NodeFromJSON(j) ==
  Then(valueAt(j, "outputs"), LAMBDA os : Then(valueAt(j, "dynamicOutputs"), LAMBDA dyn :
    Then(FromMembers(dyn.val, "child"), LAMBDA cm : [val |-> Node(Range(os.val), cm.val)])))

\* Derivation::fromJSON(store, json, xpSettings): name, outputs, inputSrcs,
\* inputDrvs, system, builder, args and env, in that order.
DrvFromJSON(j) ==
  Then(valueAt(j, "name"), LAMBDA nm :
  Then(valueAt(j, "outputs"), LAMBDA oj :
  Then(FromMembers(oj.val, "output"), LAMBDA os :
  Then(valueAt(j, "inputSrcs"), LAMBDA sj :
  IF \E k \in DOMAIN sj.val : ~parseStorePath(sj.val[k]) THEN [err |-> "bad store path"] ELSE
  Then(valueAt(j, "inputDrvs"), LAMBDA dj :
  IF \E p \in DOMAIN dj.val : ~parseStorePath(p) THEN [err |-> "bad store path"] ELSE
  Then(FromMembers(dj.val, "inputDrv"), LAMBDA ds :
  Then(valueAt(j, "system"), LAMBDA pl : Then(valueAt(j, "builder"), LAMBDA bu :
  Then(valueAt(j, "args"), LAMBDA as : Then(valueAt(j, "env"), LAMBDA es :
    [val |-> [outputs |-> os.val, inputDrvs |-> ds.val, inputSrcs |-> Range(sj.val),
              platform |-> pl.val, builder |-> bu.val, args |-> as.val, env |-> es.val]]))))))))))

\* A document with one key of an object removed (at the top, in an output
\* or in an inputDrvs entry), or an output's path changed to another one.
DropKey(j, k) == [x \in DOMAIN j \ {k} |-> j[x]]

EditedDocs(j) ==
  {DropKey(j, k) : k \in DOMAIN j}
  \cup UNION {{[j EXCEPT !["outputs"][o]["path"] = p] : p \in StorePaths \ {j["outputs"][o]["path"]}}
              : o \in {x \in DOMAIN j["outputs"] : "path" \in DOMAIN j["outputs"][x]}}
  \cup UNION {UNION {{[j EXCEPT ![s][o] = DropKey(j[s][o], k)] : k \in DOMAIN j[s][o]} : o \in DOMAIN j[s]}
              : s \in {"outputs", "inputDrvs"}}

-----------------------------------------------------------------------------
(* Types, output hashes and resolution.  A hash is an injective tag on    *)
(* what is hashed; a store path made from a hash holds its text; a        *)
(* placeholder is the sequence it is made from, rendered injectively.     *)

\* BasicDerivation::type(): the variants of the outputs decide the type.
DerivationType(outputs) ==
  LET kinds  == {outputs[o].kind : o \in DOMAIN outputs}
      fixed  == {o \in DOMAIN outputs : outputs[o].kind = "CAFixed"}
      floats == {outputs[o].htype : o \in {p \in DOMAIN outputs : outputs[p].kind = "CAFloating"}}
      T(k, deferred, isFixed) == [kind |-> k, deferred |-> deferred, fixed |-> isFixed]
  IN IF Cardinality(floats) > 1 THEN [err |-> "all floating outputs must use the same hash type"]
     ELSE IF kinds = {} THEN [err |-> "must have at least one output"]
     ELSE IF kinds = {"InputAddressed"} THEN T("InputAddressed", FALSE, FALSE)
     ELSE IF kinds = {"CAFixed"}
       THEN IF Cardinality(fixed) > 1 THEN [err |-> "only one fixed output is allowed for now"]
            ELSE IF fixed # {"out"} THEN [err |-> "single fixed output must be named \"out\""]
            ELSE T("ContentAddressed", FALSE, TRUE)
     ELSE IF kinds = {"CAFloating"} THEN T("ContentAddressed", FALSE, FALSE)
     ELSE IF kinds = {"Deferred"} THEN T("InputAddressed", TRUE, FALSE)
     ELSE IF kinds = {"Impure"} THEN T("Impure", FALSE, FALSE)
     ELSE [err |-> "can't mix derivation output types"]

\* Every occurrence of `from` in s replaced by `to` (replaceStrings).
RECURSIVE ReplaceStr(_, _, _)
ReplaceStr(s, from, to) ==
  IF Len(s) < Len(from) THEN s
  ELSE IF SubSeq(s, 1, Len(from)) = from THEN to \o ReplaceStr(Rest(s, Len(from) + 1), from, to)
  ELSE Ch(s, 1) \o ReplaceStr(Rest(s, 2), from, to)

\* hashString: injective, and its text, like a digest's, holds no slash,
\* so it never contains a path or a placeholder.
RECURSIVE NoSlash(_)
NoSlash(t) ==
  IF Len(t) <= 1 THEN (IF t = "/" THEN "|" ELSE t)
  ELSE LET h == Len(t) \div 2 IN NoSlash(SubSeq(t, 1, h)) \o NoSlash(Rest(t, h + 1))

hashString(t) == "sha256:" \o NoSlash(t)
ImpureOutputHash == hashString("impure")

outputPathName(drvName, o) == IF o = "out" THEN drvName ELSE drvName \o "-" \o o

\* Store::makeOutputPath(outputName, hash, drvName).
makeOutputPath(o, h) == "/" \o h \o "-" \o outputPathName(DrvName, o)

\* hashDerivationModulo(store, drv, true) with the type already computed,
\* for a derivation without inputDrvs (so its loop over them is empty).
HashModuloOf(d, t) ==
  IF "err" \in DOMAIN t THEN t
  ELSE IF t.kind = "ContentAddressed" /\ t.fixed
    THEN [hashes |-> [o \in DOMAIN d.outputs |->
                        hashString("fixed:out:" \o d.outputs[o].method \o d.outputs[o].htype
                                   \o ":" \o d.outputs[o].hash \o ":" \o FixedPath)],
          kind |-> "Regular"]
  ELSE IF t.kind = "Impure"
    THEN [hashes |-> [o \in DOMAIN d.outputs |-> ImpureOutputHash], kind |-> "Deferred"]
  ELSE [hashes |-> [o \in DOMAIN d.outputs |-> hashString(unparseMasked(d, TRUE))],
        kind |-> IF t.kind = "ContentAddressed" THEN "Deferred" ELSE "Regular"]

hashDerivationModulo(d) == HashModuloOf(d, DerivationType(d.outputs))

\* DownstreamPlaceholder::render.
RenderPlaceholder(ph) == FoldLeft(LAMBDA acc, x : acc \o ":" \o x, "/P", ph)

\* The outputs the store knows for a derivation path.
OutputNames(drvPath) == {k[2] : k \in {q \in DOMAIN OutputPaths : q[1] = drvPath}}

\* accum(inputDrv, node) of tryResolve: every built output of inputDrv, as
\* queryPartialDerivationOutputMap reports it, and, for an output with a
\* child node, the same for the derivation it built.
RECURSIVE accum(_, _, _)
accum(inputDrv, node, built) ==
  LET outs == {o \in OutputNames(inputDrv) : <<inputDrv, o>> \in built}
  IN FoldSet(LAMBDA o, acc : accum(OutputPaths[<<inputDrv, o>>], node.childMap[o], built) @@ acc,
             [k \in {<<inputDrv, o>> : o \in outs} |-> OutputPaths[k]],
             outs \cap DOMAIN node.childMap)

\* tryResolveInput: st is [ok, srcs (inputSrcs), rw (inputRewrites)]; ph
\* is the placeholder of the parent output, <<>> at the top.
RECURSIVE tryResolveInput(_, _, _, _, _)
tryResolveInput(st, ph, inputDrv, node, dout) ==
  LET key(o) == <<inputDrv, o>>
      placeholder(o) == IF ph = <<>> THEN <<inputDrv, o>> ELSE Append(ph, o)
      rw == IF "ca-derivations" \in Xp
              THEN FoldSet(LAMBDA o, acc : acc @@ (RenderPlaceholder(placeholder(o)) :> dout[key(o)]),
                           st.rw, node.value)
              ELSE st.rw
  IN IF \E o \in node.value : key(o) \notin DOMAIN dout THEN [ok |-> FALSE]
     ELSE FoldSet(LAMBDA o, acc :
                    IF ~acc.ok THEN acc
                    ELSE IF key(o) \notin DOMAIN dout THEN [ok |-> FALSE]
                    ELSE tryResolveInput(acc, placeholder(o), dout[key(o)], node.childMap[o], dout),
                  [ok |-> TRUE, srcs |-> st.srcs \cup {dout[key(o)] : o \in node.value}, rw |-> rw],
                  DOMAIN node.childMap)

\* rewriteStrings: each rewrite in key order.
rewriteStrings(s, rw) == FoldLeft(LAMBDA acc, k : ReplaceStr(acc, k, rw[k]), s, Sorted(DOMAIN rw))

\* The end of rewriteDerivation: every deferred output becomes
\* input-addressed at the path made from the hash computed before.
FixDeferred(d, hm) ==
  IF "err" \in DOMAIN hm THEN hm
  ELSE LET def == {o \in DOMAIN d.outputs : d.outputs[o].kind = "Deferred"}
       IN [drv |-> [d EXCEPT
             !.outputs = [o \in DOMAIN d.outputs |->
                            IF o \in def THEN InputAddressed(makeOutputPath(o, hm.hashes[o])) ELSE d.outputs[o]],
             !.env = [o \in def |-> makeOutputPath(o, hm.hashes[o])] @@ d.env]]

\* rewriteDerivation: builder, arguments, and environment names and values
\* rewritten (emplace keeps the first of two names that collide).
RewriteEnv(d, rw) ==
  [d EXCEPT !.builder = rewriteStrings(d.builder, rw),
            !.args = [k \in DOMAIN d.args |-> rewriteStrings(d.args[k], rw)],
            !.env = FoldLeft(LAMBDA acc, k : acc @@ (rewriteStrings(k, rw) :> rewriteStrings(d.env[k], rw)),
                             <<>>, Sorted(DOMAIN d.env))]

RewriteThen(d1) == FixDeferred(d1, hashDerivationModulo(d1))

\* Seeded fault: the output hashes taken before the strings are rewritten.
rewriteDerivationHashFirst(d, rw) == FixDeferred(RewriteEnv(d, rw), hashDerivationModulo(d))

rewriteDerivation(d, rw) == RewriteThen(RewriteEnv(d, rw))

\* Derivation::tryResolve(store, inputDrvOutputs): the BasicDerivation with
\* the inputs resolved, [none] when an output is missing, or the error.
\* Seeded fault: the input derivations kept in the resolved derivation.
TryResolveWithKeepInputs(d, r) ==
  IF ~r.ok THEN [none |-> TRUE]
  ELSE rewriteDerivation([d EXCEPT !.inputSrcs = r.srcs], r.rw)

TryResolveWith(d, r) ==
  IF ~r.ok THEN [none |-> TRUE]
  ELSE rewriteDerivation([d EXCEPT !.inputDrvs = <<>>, !.inputSrcs = r.srcs], r.rw)

tryResolveOutputs(d, dout) ==
  TryResolveWith(d, FoldSet(LAMBDA p, acc : IF ~acc.ok THEN acc
                                             ELSE tryResolveInput(acc, <<>>, p, d.inputDrvs[p], dout),
                            [ok |-> TRUE, srcs |-> d.inputSrcs, rw |-> <<>>], DOMAIN d.inputDrvs))

\* Derivation::tryResolve(store, evalStore): accum over the inputs first.
tryResolve(d, built) ==
  tryResolveOutputs(d, FoldSet(LAMBDA p, acc : accum(p, d.inputDrvs[p], built) @@ acc,
                               <<>>, DOMAIN d.inputDrvs))

\* envHasRightPath (parseStorePath is the inverse of printStorePath).
envHasRightPath(d, path, var) == var \in DOMAIN d.env /\ d.env[var] = path

\* The check checkInvariants makes of one output (the name check aside).
OutputInvariant(d, o, hm) ==
  CASE d.outputs[o].kind = "InputAddressed" ->
         /\ o \in DOMAIN hm.hashes
         /\ d.outputs[o].path = makeOutputPath(o, hm.hashes[o])
         /\ envHasRightPath(d, d.outputs[o].path, o)
    [] d.outputs[o].kind = "CAFixed" -> envHasRightPath(d, FixedPath, o)
    [] OTHER -> TRUE

\* Derivation::checkInvariants on a derivation without inputDrvs.
checkInvariants(d) ==
  /\ "err" \notin DOMAIN DerivationType(d.outputs)
  /\ \A o \in DOMAIN d.outputs : OutputInvariant(d, o, hashDerivationModulo(d))

-----------------------------------------------------------------------------
VARIABLES drv,     \* the Derivation in memory
          format,  \* "aterm" (a .drv file), "wire" (the worker protocol) or "json"
          text,    \* the .drv file's contents
          wire,    \* the items sent on the connection
          doc,     \* the JSON document
          phase,   \* "new", "written", "truncated", "read" or "resolved"
          result,  \* what was read: [drv |-> d] or [err |-> msg]
          built,   \* the <<drvPath, output>> pairs the store has built
          resolved \* what tryResolve gave: [drv |-> d], [none |-> TRUE] or [err |-> msg]

vars == <<drv, format, text, wire, doc, phase, result, built, resolved>>

Init ==
  /\ drv \in Drvs
  /\ format = "aterm"
  /\ text = ""
  /\ wire = <<>>
  /\ doc = <<>>
  /\ phase = "new"
  /\ result = [err |-> "not read"]
  /\ built = {}
  /\ resolved = [none |-> TRUE]

\* writeDerivation: the file holds drv.unparse(store, false).
writeDerivation ==
  /\ phase = "new"
  /\ text' = unparse(drv)
  /\ phase' = "written"
  /\ UNCHANGED <<drv, format, wire, doc, result, built, resolved>>

\* writeDerivation(out, store, drv): the derivation sent to the daemon.
SendDerivation ==
  /\ phase = "new"
  /\ format' = "wire"
  /\ wire' = writeDerivationWire(drv)
  /\ phase' = "written"
  /\ UNCHANGED <<drv, text, doc, result, built, resolved>>

\* Derivation::toJSON(store): the document `nix derivation show` prints and
\* `nix derivation add` reads back.
WriteJSON ==
  /\ phase = "new"
  /\ format' = "json"
  /\ doc' = DrvToJSON(drv)
  /\ phase' = "written"
  /\ UNCHANGED <<drv, text, wire, result, built, resolved>>

\* What is read back is a proper prefix of what was written or sent, or a
\* document edited by hand to lack one key.
Truncate ==
  /\ phase = "written"
  /\ \/ /\ format = "aterm"
        /\ \E k \in 0..Len(text) - 1 : text' = SubSeq(text, 1, k)
        /\ UNCHANGED <<wire, doc>>
     \/ /\ format = "wire"
        /\ \E k \in 0..Len(wire) - 1 : wire' = SubSeq(wire, 1, k)
        /\ UNCHANGED <<text, doc>>
     \/ /\ format = "json"
        /\ doc' \in EditedDocs(doc)
        /\ UNCHANGED <<text, wire>>
  /\ phase' = "truncated"
  /\ UNCHANGED <<drv, format, result, built, resolved>>

\* readDerivation: parseDerivation on the file's contents.
readDerivation ==
  /\ phase \in {"written", "truncated"}
  /\ format = "aterm"
  /\ LET r == parseDerivation(text)
     IN result' = IF Failed(r) THEN r ELSE [drv |-> r.val]
  /\ phase' = "read"
  /\ UNCHANGED <<drv, format, text, wire, doc, built, resolved>>

\* readDerivation(in, store, drv, name) on the connection.
ReceiveDerivation ==
  /\ phase \in {"written", "truncated"}
  /\ format = "wire"
  /\ LET r == readDerivationWire(wire)
     IN result' = IF Failed(r) THEN r ELSE [drv |-> r.val]
  /\ phase' = "read"
  /\ UNCHANGED <<drv, format, text, wire, doc, built, resolved>>

\* Derivation::fromJSON(store, json, xpSettings) on the document.
ReadJSON ==
  /\ phase \in {"written", "truncated"}
  /\ format = "json"
  /\ LET r == DrvFromJSON(doc)
     IN result' = IF Failed(r) THEN r ELSE [drv |-> r.val]
  /\ phase' = "read"
  /\ UNCHANGED <<drv, format, text, wire, doc, built, resolved>>

\* Derivation::tryResolve on the derivation read from a .drv file, with
\* the store having built some of the outputs its inputs name.
Resolve ==
  /\ phase = "read"
  /\ format = "aterm"
  /\ "drv" \in DOMAIN result
  /\ \E b \in SUBSET DOMAIN OutputPaths :
       /\ built' = b
       /\ resolved' = tryResolve(result.drv, b)
  /\ phase' = "resolved"
  /\ UNCHANGED <<drv, format, text, wire, doc, result>>

Done == phase \in {"read", "resolved"} /\ UNCHANGED vars

Next == writeDerivation \/ SendDerivation \/ WriteJSON \/ Truncate \/ readDerivation
        \/ ReceiveDerivation \/ ReadJSON
        \/ Resolve \/ Done

Spec == Init /\ [][Next]_vars

-----------------------------------------------------------------------------
TypeOK ==
  /\ drv \in Drvs
  /\ format \in {"aterm", "wire", "json"}
  /\ DOMAIN doc \subseteq DOMAIN DrvToJSON(drv)
  /\ text \in STRING
  /\ wire \in Seq([num : Nat] \cup [str : STRING])
  /\ phase \in {"new", "written", "truncated", "read", "resolved"}
  /\ \/ result \in [err : STRING]
     \/ /\ DOMAIN result = {"drv"}
        /\ DOMAIN result.drv = DOMAIN drv
        /\ result.drv.inputSrcs \subseteq StorePaths
  /\ built \subseteq DOMAIN OutputPaths
  /\ \/ resolved \in [none : {TRUE}] \cup [err : STRING]
     \/ /\ DOMAIN resolved = {"drv"}
        /\ resolved.drv.inputDrvs = <<>>
        /\ \A o \in DOMAIN resolved.drv.outputs :
             resolved.drv.outputs[o].kind \in {"InputAddressed", "CAFixed", "CAFloating", "Impure"}

\* A derivation written with unparse reads back as the same derivation:
\* every string escaped by printString or printed unquoted comes back
\* through parseString unchanged, in every list and map of the text.  The
\* worker protocol keeps all but inputDrvs, and fromJSON reads what toJSON
\* wrote, every output variant and dynamic input included.
RoundTrip ==
  /\ phase = "read" /\ format = "aterm" /\ text = unparse(drv) => result = [drv |-> drv]
  /\ phase = "read" /\ format = "wire" /\ wire = writeDerivationWire(drv)
       => result = [drv |-> [drv EXCEPT !.inputDrvs = <<>>]]
  /\ phase = "read" /\ format = "json" /\ doc = DrvToJSON(drv) => result = [drv |-> drv]

\* A truncated .drv file or wire message is never read as a derivation:
\* parseDerivation and readDerivation fail on every proper prefix.  A JSON
\* document missing a key is never read as the derivation it came from:
\* fromJSON gives no key a default, and an output's key set alone decides
\* its variant, so a dropped "path" or "impure" yields another variant.
TruncationDetected ==
  /\ phase = "read" /\ format = "aterm" /\ text # unparse(drv) => "err" \in DOMAIN result
  /\ phase = "read" /\ format = "wire" /\ wire # writeDerivationWire(drv) => "err" \in DOMAIN result
  /\ phase = "read" /\ format = "json" /\ doc # DrvToJSON(drv) => result # [drv |-> drv]

\* parseString never removes more characters than the view holds: every
\* text, truncated or not, is rejected with an error the code throws.
ParseDefined ==
  phase = "read" /\ "err" \in DOMAIN result => result.err # UBMsg

\* Reference for resolution: the outputs a dependency names, at every
\* level reached through an output already built, and, of those, the ones
\* the derivation uses directly (not as a derivation to look into), each
\* with the placeholder that stands for it.
RECURSIVE NeededOutputs(_, _, _)
NeededOutputs(drvPath, node, b) ==
  {<<drvPath, o>> : o \in node.value \cup DOMAIN node.childMap}
  \cup UNION {NeededOutputs(OutputPaths[<<drvPath, o>>], node.childMap[o], b) :
               o \in {c \in DOMAIN node.childMap : <<drvPath, c>> \in b}}

RECURSIVE UsedOutputs(_, _, _, _)
UsedOutputs(drvPath, node, ph, b) ==
  LET p(o) == IF ph = <<>> THEN <<drvPath, o>> ELSE Append(ph, o)
  IN {[key |-> <<drvPath, o>>, ph |-> p(o)] : o \in node.value}
     \cup UNION {UsedOutputs(OutputPaths[<<drvPath, o>>], node.childMap[o], p(o), b) :
                  o \in {c \in DOMAIN node.childMap : <<drvPath, c>> \in b}}

Mentions(d, t) ==
  LET In(s) == \E i \in 1..Len(s) - Len(t) + 1 : SubSeq(s, i, i + Len(t) - 1) = t
  IN In(d.builder) \/ \E k \in DOMAIN d.args : In(d.args[k])
     \/ \E e \in DOMAIN d.env : In(e) \/ In(d.env[e])

ResolvedAs(d, r, used) ==
  /\ r.inputSrcs = d.inputSrcs \cup {OutputPaths[u.key] : u \in used}
  /\ "ca-derivations" \in Xp => \A u \in used : ~Mentions(r, RenderPlaceholder(u.ph))
  /\ \A o \in DOMAIN d.outputs :
       d.outputs[o].kind = "Deferred" /\ o \in DOMAIN d.env =>
         /\ r.outputs[o].kind = "InputAddressed"
         /\ OutputInvariant(r, o, hashDerivationModulo(r))

ResolveSoundFor(d, b, needed, used) ==
  IF ~(needed \subseteq b) THEN resolved = [none |-> TRUE]
  ELSE /\ ("err" \in DOMAIN resolved) = ("err" \in DOMAIN DerivationType(d.outputs))
       /\ "drv" \in DOMAIN resolved => ResolvedAs(d, resolved.drv, used)

\* tryResolve (Derivation::tryResolve, tryResolveInput, rewriteDerivation)
\* gives a derivation exactly when every output its inputs name, at every
\* level of a dynamic dependency, is built.  The result takes the paths of
\* the outputs it uses as input sources, mentions no placeholder of them
\* any more, and each output it turned from deferred to input-addressed
\* passes checkInvariants: its path is the one hashDerivationModulo of
\* the result gives, and the environment names it.
ResolveSound ==
  phase = "resolved" =>
    ResolveSoundFor(result.drv, built,
                    UNION {NeededOutputs(p, result.drv.inputDrvs[p], built) : p \in DOMAIN result.drv.inputDrvs},
                    UNION {UsedOutputs(p, result.drv.inputDrvs[p], <<>>, built) : p \in DOMAIN result.drv.inputDrvs})
====
