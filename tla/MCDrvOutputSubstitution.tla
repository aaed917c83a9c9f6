----------------------- MODULE MCDrvOutputSubstitution -----------------------
EXTENDS DrvOutputSubstitution

\* Two substituters, so one may throw after the other returned a realisation.
MCSubs == <<"s1", "s2">>
====
