CONSTANTS
  HashSize <- MCHashSize
  Types <- MCTypes
  ByteValues <- MCByteValues
  EditChars <- MCEditChars
  None = None
  NarTrees <- MCNarTrees
  NarNames <- MCNarNames
SPECIFICATION MCSpec
INVARIANTS
  TypeOK
  Print32Correct
  RoundTrip
  Base32Canonical
  NarAccessorsFaithful
