CONSTANTS
  Drvs <- MCDrvs
  StorePaths <- MCStorePaths
  HashTypes = {"sha256"}
  HashTexts = {"ab01"}
  FixedPath = "/f"
  Xp = {"dynamic-derivations", "impure-derivations", "ca-derivations"}
  OutputPaths <- MCOutputPaths
SPECIFICATION Spec
INVARIANTS
  TypeOK
  RoundTrip
  TruncationDetected
  ResolveSound
