CONSTANTS
  NULL = NULL
  CWD = CWD
  Vols = {"F", "G"}
  Names = {"a", "d", "e"}
  Lower <- MCLower
  Chars <- MCChars
  InitFS <- MCInitFS
  Cmds <- MCCmdsTarget
  CwdTexts <- MCCwdTexts
  Answers = {"Yes", "No", "All", "Cancel"}
  MoveErrors = {"DEVICE_ERROR"}
  AllocFails = FALSE
  CloseFails = TRUE
  DeleteFails = FALSE
SPECIFICATION Spec
CHECK_DEADLOCK FALSE
INVARIANT
  MovesAimAtTarget
