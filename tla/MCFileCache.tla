---------------------------- MODULE MCFileCache -----------------------------
EXTENDS FileCache

P(s) == <<"/">> \o s
Alphabet == {"/", ".", "a", "b"}

\* PathSandbox's checks: every absolute text of up to four characters over
\* /, ., a, b, and texts that reach the links one component down.
MCInputs == {<<"/">> \o s : s \in BoundedSeq(Alphabet, 3)}
            \cup {<<"/","a","/","b","/","a">>, <<"/","a","/","b","/","b">>,
                  <<"/","a","/","b","/",".",".">>, <<"/","a","/","a","/",".",".">>}

\* PathSandbox's links (/a/b -> /b leaves /a; /b/b -> ../a comes back; /b/a
\* -> a is a cycle), and /a/n (default.nix of /a) -> ../b/x, out of /a.
MCLinks == (<<"/","a","/","b">> :> <<"/","b">>)
           @@ (<<"/","b","/","b">> :> <<".",".","/","a">>)
           @@ (<<"/","b","/","a">> :> <<"a">>)
           @@ (<<"/","a","/","n">> :> <<".",".","/","b","/","x">>)

MCDirs   == {<<"/">>, P(<<"a">>), P(<<"b">>), P(<<"d">>), P(<<"s">>)}
MCFiles0 == {P(<<"b","/","x">>), P(<<"d","/","t">>), P(<<"s","/","n">>)}
MCCreatable == {P(<<"a","/","a">>)}
MCExprs == (P(<<"b","/","x">>) :> "attrs") @@ (P(<<"d","/","t">>) :> "bad")
           @@ (P(<<"s","/","n">>) :> "throws") @@ (P(<<"a","/","a">>) :> "int")

\* -I p=/a -I p=/d -I u (a pseudo-URL whose tarball unpacks to /s).
MCSearchPath ==
  << [prefix |-> <<"p">>, value |-> [kind |-> "path", p |-> P(<<"a">>)]],
     [prefix |-> <<"p">>, value |-> [kind |-> "path", p |-> P(<<"d">>)]],
     [prefix |-> <<>>,    value |-> [kind |-> "url", url |-> "u", store |-> P(<<"s">>)]] >>

MCQueries == {<<"p">>, <<"p","/","t">>, <<"p","/","b","/","a","/","x">>, <<"n">>,
              <<"n","i","x","/","x">>}

MCImportPaths == {P(<<"a">>), P(<<"a","/","b","/","x">>), P(<<"d","/","t">>), P(<<"s">>),
                  P(<<"a","/","a">>), P(<<"b","/","a">>)}

\* and the import of /a/b/b: /a/b -> /b, /b/b -> ../a.
MCImportPathsLink == MCImportPaths \cup {P(<<"a","/","b","/","b">>)}
====
