CONSTANTS
  NULL = NULL
  Vols = {"F", "G"}
  Names = {"a", "ab", "d", "e", "D"}
  Lower <- MCLower
  Chars <- MCChars
  Chars <- MCChars
  FileSystems <- MCFileSystems
  Cwds <- MCCwds
  Sources <- MCSources
  DestTexts <- MCDestTextsValidated
  DestParams <- MCDestParams
SPECIFICATION Spec
INVARIANT
  NoMoveIntoItself
