CONSTANTS
  NULL = NULL
  CWD = CWD
  Vols = {"F", "G"}
  Names = {"a", "d", "e"}
  Lower <- MCLower
  Chars <- MCChars
  InitFS <- MCInitFS
  Cmds <- MCCmds
  CwdTexts <- MCCwdTexts
  Answers = {"Yes", "No", "All", "Cancel"}
  MoveErrors = {"DEVICE_ERROR"}
  AllocFails = TRUE
  CloseFails = TRUE
  DeleteFails = FALSE
SPECIFICATION Spec
CHECK_DEADLOCK FALSE
PROPERTY
  FatalEndsBatch
