-------------------------- MODULE MCDerivationATerm --------------------------
EXTENDS DerivationATerm

\* A string with every character printString escapes.
Special == "\"\\\n\r\t"

MCOutputs ==
  { "out" :> o : o \in { InputAddressed("/o"), Deferred, CAFloating("r:", "sha256"),
                         CAFixed("", "sha256", "ab01"), Impure("text:", "sha256") } }
  \cup { ("dev" :> InputAddressed("/d")) @@ ("out" :> InputAddressed("/o")) }

MCInputDrvs ==
  { <<>>,
    "/i.drv" :> Node({"out"}, <<>>),
    "/i.drv" :> Node({"out", "dev"}, "lib" :> Node({"bin"}, <<>>)) }

\* Platforms a derivation may name; MCPlatformsEscaped has the characters
\* printString would escape.
MCPlatforms == {"x86_64-linux"}
MCPlatformsEscaped == {"x86_64-linux", "a\\nb"}

\* The placeholders of /i.drv's output out, and of the output bin of the
\* derivation /i.drv's output lib builds, as the evaluator writes them.
PhOut == RenderPlaceholder(<<"/i.drv", "out">>)
PhBin == RenderPlaceholder(<<"/i.drv", "lib", "bin">>)

MCDrvsOver(platforms) ==
  [outputs : MCOutputs, inputDrvs : MCInputDrvs, inputSrcs : {{}, {"/s"}},
   platform : platforms, builder : {PhOut, Special}, args : {<<>>, <<Special, PhBin>>},
   env : {<<>>, ("k" \o Special :> "v\\n") @@ ("out" :> "")}]

\* What the inputs build to: /i.drv's lib output is itself a derivation.
MCOutputPaths ==
  (<<"/i.drv", "out">> :> "/io") @@ (<<"/i.drv", "dev">> :> "/id")
  @@ (<<"/i.drv", "lib">> :> "/il.drv") @@ (<<"/il.drv", "bin">> :> "/ib")

MCDrvs        == MCDrvsOver(MCPlatforms)
MCDrvsEscaped == MCDrvsOver(MCPlatformsEscaped)

MCStorePaths == {"/o", "/d", "/s", "/i.drv", "/f"}
====
