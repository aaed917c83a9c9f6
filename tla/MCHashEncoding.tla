---------------------------- MODULE MCHashEncoding ----------------------------
EXTENDS HashEncoding, NarAccessor

\* Three bytes: 24 bits in five base-32 digits (one spare bit), six hex
\* digits; the base-16, base-32 and base-64 lengths differ as for the real
\* sizes.
MCHashSize == [t \in {"md5", "sha1", "sha256", "sha512"} |-> 3]
MCTypes == {"md5", "sha256"}
\* Bytes with the low, high, and alternating bits set.
MCByteValues == {0, 1, 128, 255, 90}
\* A digit over 15 (sets the spare bit when first), a hex-only digit, an
\* upper-case hex digit, and zero.
MCEditChars == {"z", "e", "A", "0"}

\* Archived trees: a lone executable file, which fills the root member, and
\* a directory holding a file, a subdirectory with a symlink and a file, an
\* empty directory and an empty executable file, so that files start at
\* several offsets and members are emplaced at two depths.
File(exec, contents) == [type |-> "regular", exec |-> exec, contents |-> contents]
Link(target) == [type |-> "symlink", target |-> target]
Dir(entries) == [type |-> "directory", entries |-> entries]
E(name, node) == [name |-> name, node |-> node]
MCNarTrees ==
  { File(TRUE, <<"x", "y">>),
    Dir(<<E("a", File(FALSE, <<"x">>)),
          E("b", Dir(<<E("c", Link("a")), E("e", File(FALSE, <<"y", "x">>))>>)),
          E("d", Dir(<<>>)),
          E("e", File(TRUE, <<>>))>>) }
MCNarNames == {"a", "b", "c", "e"}

\* Printed hashes and archived trees side by side: the tree is fixed in a
\* behaviour.
MCInit == Init /\ NarInit
MCNext == Next /\ UNCHANGED narTree
MCSpec == MCInit /\ [][MCNext]_<<vars, narTree>>
====
