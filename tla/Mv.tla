---------------------------------- MODULE Mv ----------------------------------
(***************************************************************************)
(* The UEFI shell "mv" command (Mv.c): ShellCommandRunMv walks the source  *)
(* arguments, ValidateAndMoveFiles walks the entries one argument expands  *)
(* to, and each entry is validated, checked for a collision (prompting the *)
(* user), and moved by a rename on its own volume (MoveWithinFileSystems)  *)
(* or a copy and a delete across volumes (MoveBetweenFileSystems).         *)
(*                                                                         *)
(* The file system is the function fs from the entries that exist to the  *)
(* entry each one was at initially (its origin): a rename keeps the        *)
(* origin, a copy gives the copy the origin of what it copies.  Whether    *)
(* an entry is a directory or read-only is a property of its origin.       *)
(***************************************************************************)
EXTENDS MvPaths, MvTrees, Integers

CONSTANTS
  InitFS,       \* [entries, dirs, ro]: the file system before the command
  Cmds,         \* command lines: [line, srcs : Seq(pattern), dest : text or CWD],
                \* line the outcome of ShellCommandLineParse
  CloseFails,   \* TRUE when ShellCloseFileMetaArg may fail
  CwdTexts,     \* current directories the shell may have, or NULL
  Answers,      \* answers the user may give the overwrite prompt
  MoveErrors,   \* EFI errors a rename or a copy may fail with on its own
  AllocFails,   \* TRUE when an allocation of the loop may fail
  DeleteFails,  \* TRUE when CascadeDelete may fail part way
  CWD           \* "mv src": the destination is the current directory

DirOrigins == InitFS.dirs
RoOrigins  == InitFS.ro

VARIABLES
  fs,        \* [existing entry -> origin]
  cwd,       \* ShellGetCurrentDir(NULL)
  cmd,       \* the command line
  brk,       \* ShellGetExecutionBreakFlag()
  pc,        \* "Args" (ShellCommandRunMv loop), "Entry" (top of the
             \* ValidateAndMoveFiles loop), "Node" (FullDestPath built), "Done"
  argi,      \* LoopCounter: the source argument being moved
  status,    \* ShellStatus of ShellCommandRunMv
  resp,      \* Response of ShellCommandRunMv (*Resp): NULL, "All" or "Cancel"
  list,      \* FileList of the current call
  i,         \* the node of FileList being processed
  destPath,  \* DestPath of the current call (a shared, mutable buffer)
  fullDestPath, \* FullDestPath of the current node, or NULL
  destAttr,  \* Attr: the destination is read-only
  response,  \* Response, the local copy in ValidateAndMoveFiles
  callStatus,\* ShellStatus of ValidateAndMoveFiles
  result     \* the value ShellCommandRunMv returns

(* Observation variables: they record what the code did, for properties.   *)
VARIABLES
  prompts,   \* number of overwrite prompts shown
  leaked,    \* buffers a return of ValidateAndMoveFiles did not free
  dest0,     \* [path, isDir]: the destination as resolved when the call began
  moved,     \* the node moved by the last step, or NULL
  consented, \* origins the user agreed to have overwritten
  cancelled, \* the user has answered Cancel
  setupFailed, \* a call could not allocate what it needs to start
  firstFail, \* the first failure the command met, or NULL
  brkNode    \* <<argi, i>> of the node in progress when the break came, or NULL

\* The locals of ShellCommandRunMv and of ValidateAndMoveFiles.
runMvVars == <<cmd, argi, status, resp, list>>
moveVars  == <<cwd, i, destPath, fullDestPath, destAttr, response, callStatus>>
codeVars  == <<fs, brk, pc, result, runMvVars, moveVars>>
obsVars  == <<prompts, leaked, dest0, moved, consented, cancelled, setupFailed, firstFail,
             brkNode>>
vars     == <<codeVars, obsVars>>

-----------------------------------------------------------------------------
(* The file store and the shell library, as Mv.c uses them.                *)

Entries == DOMAIN fs
IsDirIn(f, e) == e \in DOMAIN f /\ f[e] \in DirOrigins
IsDir(e) == IsDirIn(fs, e)

\* ShellIsDirectory and ShellFileExists of a path text.
ShellIsDirectory(t) == IsDir(Resolve(t, cwd))
ShellFileExists(t)  == Resolve(t, cwd) \in Entries

\* The tree at s can be put at t: t is a new entry in an existing
\* directory, and not inside the tree at s itself.
CanCreateIn(f, s, t) ==
  t # NULL /\ t \notin DOMAIN f /\ Len(t) > 1 /\ IsDirIn(f, Front(t)) /\ ~IsPrefix(s, t)

\* ShellDeleteFileByName: removes a file or an empty directory; on a
\* non-empty directory or a volume root it fails, and Mv.c ignores the
\* failure.
DeleteByName(t) ==
  LET e == Resolve(t, cwd)
  IN  IF e \in Entries /\ Len(e) > 1 /\ BelowIn(fs, e) = {e} THEN Without(fs, e) ELSE fs

\* A node of a FileList.  "." and ".." are listed by the shell in every
\* directory but the root.
Node(e) == [path |-> e, name |-> Last(e), origin |-> fs[e]]
DotNode(e, n) == [path |-> e, name |-> n, origin |-> NULL]

Perms(S) == {p \in [1..Cardinality(S) -> S] : Range(p) = S}

\* ShellOpenFileMetaArg of a source argument: the entry it names, or the
\* children of the directory it names followed by '*', in any order.
Expansions(p) ==
  IF ~p.star
  THEN IF p.at \in Entries THEN {<<Node(p.at)>>} ELSE {<<>>}
  ELSE IF ~IsDir(p.at) THEN {<<>>}
  ELSE LET kids == {Node(e) : e \in {x \in Entries : Len(x) = Len(p.at) + 1 /\ Front(x) = p.at}}
           dots == IF Len(p.at) > 1 THEN <<DotNode(p.at, DOT), DotNode(p.at, DOTDOT)>> ELSE <<>>
       IN  {dots \o q : q \in Perms(kids)}

\* The EFI status a move returns, mapped to a SHELL_STATUS (Mv.c 580-593).
ShellStatusOf(efi) ==
  IF efi \in {"SECURITY_VIOLATION", "WRITE_PROTECTED", "OUT_OF_RESOURCES",
              "DEVICE_ERROR", "ACCESS_DENIED"}
  THEN efi ELSE "INVALID_PARAMETER"

-----------------------------------------------------------------------------
(* ShellCommandRunMv                                                        *)

Init ==
  /\ fs = [e \in InitFS.entries |-> e]
  /\ cwd \in CwdTexts
  /\ cmd \in Cmds
  /\ brk = FALSE
  /\ pc = "Args"
  /\ argi = 1
  /\ status = "SUCCESS"
  /\ resp = NULL
  /\ list = <<>>
  /\ i = 1
  /\ destPath = NULL
  /\ fullDestPath = NULL
  /\ destAttr = FALSE
  /\ response = NULL
  /\ callStatus = "SUCCESS"
  /\ result = NULL
  /\ prompts = 0
  /\ leaked = {}
  /\ dest0 = NULL
  /\ moved = NULL
  /\ consented = {}
  /\ cancelled = FALSE
  /\ setupFailed = FALSE
  /\ firstFail = NULL
  /\ brkNode = NULL

\* "mv src" moves to the current directory; otherwise the last argument.
SingleParam == cmd.dest = CWD
DestParameter == IF SingleParam THEN cwd ELSE cmd.dest

NoteFailure(s) ==
  firstFail' = IF firstFail = NULL /\ s # "SUCCESS" THEN s ELSE firstFail

\* A source argument may be taken up: the loop has one left and, in the
\* many-argument form, no break was requested (case 2 does not poll it).
ArgReady == /\ pc = "Args" /\ cmd.line = "OK"
            /\ argi <= Len(cmd.srcs)
            /\ ~(SingleParam /\ cwd = NULL)
            /\ SingleParam \/ ~brk

\* "mv src" without a current directory: STR_GEN_NO_CWD.
NoCwd ==
  /\ pc = "Args" /\ cmd.line = "OK" /\ argi <= Len(cmd.srcs)
  /\ SingleParam /\ cwd = NULL
  /\ status' = "INVALID_PARAMETER"
  /\ argi' = argi + 1
  /\ NoteFailure("INVALID_PARAMETER")
  /\ UNCHANGED <<fs, cwd, cmd, brk, pc, resp, list, i, destPath, fullDestPath, destAttr,
                 response, callStatus, result, prompts, leaked, dest0,
                 consented, cancelled, setupFailed>>
  /\ moved' = NULL
  /\ UNCHANGED brkNode

\* The argument matches nothing: STR_GEN_FILE_NF, ShellStatus overwritten.
NotFound ==
  /\ ArgReady
  /\ <<>> \in Expansions(cmd.srcs[argi])
  /\ status' = "NOT_FOUND"
  /\ argi' = argi + 1
  /\ NoteFailure("NOT_FOUND")
  /\ UNCHANGED <<fs, cwd, cmd, brk, pc, resp, list, i, destPath, fullDestPath, destAttr,
                 response, callStatus, result, prompts, leaked, dest0,
                 consented, cancelled, setupFailed>>
  /\ moved' = NULL
  /\ UNCHANGED brkNode

\* ShellCloseFileMetaArg on the FileList after a call, in the many-argument
\* form: its failure turns a SUCCESS ShellStatus into ACCESS_DENIED.  Case 2
\* closes at the end and ignores the result.
CloseStatus(s) ==
  IF ~SingleParam /\ CloseFails /\ s = "SUCCESS"
  THEN {"SUCCESS", "ACCESS_DENIED"} ELSE {s}

\* The failure one return adds: the call's own, else a failed close.
ReturnFailure(r) ==
  IF r = "SUCCESS" /\ status' = "ACCESS_DENIED" THEN "ACCESS_DENIED" ELSE r

\* Mutant: LoopCounter advanced twice on return.
ReturnToRunMvDoubleStep(r, lost) ==
  /\ status' \in CloseStatus(IF SingleParam \/ status = "SUCCESS" THEN r ELSE status)
  /\ argi' = argi + 2
  /\ pc' = "Args"
  /\ leaked' = leaked \cup lost
  /\ NoteFailure(ReturnFailure(r))

\* Mutant: ShellStatus = ValidateAndMoveFiles(...) without the SUCCESS guard.
ReturnToRunMvUnguarded(r, lost) ==
  /\ status' \in CloseStatus(r)
  /\ argi' = argi + 1
  /\ pc' = "Args"
  /\ leaked' = leaked \cup lost
  /\ NoteFailure(ReturnFailure(r))

\* ValidateAndMoveFiles returns r to ShellCommandRunMv, which keeps the
\* first status unless it is case 2, then closes the FileList and moves
\* on to the next argument.  The buffers in lost were not freed.
ReturnToRunMv(r, lost) ==
  /\ status' \in CloseStatus(IF SingleParam \/ status = "SUCCESS" THEN r ELSE status)
  /\ argi' = argi + 1
  /\ pc' = "Args"
  /\ leaked' = leaked \cup lost
  /\ NoteFailure(ReturnFailure(r))

\* The call starts: GetDestinationLocation on the destination argument.
\* SingleSource is FileList->Link.ForwardLink == FileList->Link.BackLink.
DestinationOf(lst) ==
  GetDestinationLocation(DestParameter, cwd, Len(lst) = 1, Entries,
                         {e \in Entries : IsDir(e)},
                         {e \in Entries : fs[e] \in RoOrigins})

\* GetDestinationLocation fails: the call returns its status.
DestinationFails ==
  /\ ArgReady
  /\ \E lst \in Expansions(cmd.srcs[argi]) \ {<<>>} : \E d \in {DestinationOf(lst)} :
        /\ d.status # "SUCCESS"
        /\ ReturnToRunMv(d.status, {})
  /\ UNCHANGED <<fs, cwd, cmd, brk, resp, list, i, destPath, fullDestPath, destAttr,
                 response, callStatus, result, prompts, dest0, consented, cancelled, setupFailed>>
  /\ moved' = NULL
  /\ UNCHANGED brkNode

\* The call cannot allocate what it needs before the loop: the unquoted
\* copy of DestParameter (ShellLevel2StripQuotes), DestPath in
\* GetDestinationLocation or PathCleanUpDirectories, or the two HII
\* strings.  It frees what it holds and returns SHELL_OUT_OF_RESOURCES.
SetupOutOfResources ==
  /\ AllocFails
  /\ ArgReady
  /\ Expansions(cmd.srcs[argi]) # {<<>>}
  /\ ReturnToRunMv("OUT_OF_RESOURCES", {})
  /\ setupFailed' = TRUE
  /\ UNCHANGED <<fs, cwd, cmd, brk, resp, list, i, destPath, fullDestPath, destAttr,
                 response, callStatus, result, prompts, dest0, consented, cancelled>>
  /\ moved' = NULL
  /\ UNCHANGED brkNode

\* Response = *Resp: the answer kept from the earlier calls.
\* Mutant: Response starts NULL in every call.
CallResponseFresh == NULL
CallResponse == resp

\* The call starts walking the FileList, with DestPath the resolved
\* destination passed through PathCleanUpDirectories.
BeginMove ==
  /\ ArgReady
  /\ \E lst \in Expansions(cmd.srcs[argi]) \ {<<>>} : \E d \in {DestinationOf(lst)} :
        /\ d.status = "SUCCESS"
        /\ pc' = "Entry"
        /\ list' = lst
        /\ i' = 1
        /\ destPath' = PathCleanUpDirectories(d.path)
        /\ destAttr' = d.attr
        /\ fullDestPath' = NULL
        /\ response' = CallResponse
        /\ callStatus' = "SUCCESS"
        /\ dest0' = [path |-> Resolve(d.path, cwd), isDir |-> IsDir(Resolve(d.path, cwd))]
  /\ UNCHANGED <<fs, cwd, cmd, brk, argi, status, resp, result, prompts,
                 leaked, consented, cancelled, setupFailed, firstFail>>
  /\ moved' = NULL
  /\ UNCHANGED brkNode

\* Mutant: the loop is only left once every argument is done.
FinishNoBreak ==
  /\ pc = "Args" /\ cmd.line = "OK" /\ cmd.srcs # <<>>
  /\ argi > Len(cmd.srcs)
  /\ pc' = "Done"
  /\ result' = IF brk THEN "ABORTED" ELSE status
  /\ UNCHANGED <<fs, cwd, cmd, brk, argi, status, resp, list, i, destPath,
                 fullDestPath, destAttr, response, callStatus, prompts, leaked, dest0,
                 consented, cancelled, setupFailed, firstFail>>
  /\ moved' = NULL
  /\ UNCHANGED brkNode

\* The argument loop ends, by exhaustion or by a break; a break turns the
\* result into SHELL_ABORTED.
\* ShellCommandLineParse fails, "-?" is given, or there are fewer than two
\* parameters: no argument is taken up.  A parse failure other than
\* EFI_VOLUME_CORRUPTED leaves ShellStatus as it was; "-?" returns at once,
\* before the break flag is polled.
CommandLineRejected ==
  /\ pc = "Args" /\ (cmd.line # "OK" \/ cmd.srcs = <<>>)
  /\ status' = IF cmd.line = "ERROR" THEN status ELSE "INVALID_PARAMETER"
  /\ result' = IF brk /\ cmd.line # "HELP" THEN "ABORTED" ELSE status'
  /\ pc' = "Done"
  \* The failed parse is a failure the command met (spec 7: bad arguments
  \* are InvalidParameter), whatever ShellStatus is left at.
  /\ NoteFailure(IF cmd.line = "ERROR" THEN "INVALID_PARAMETER" ELSE status')
  /\ UNCHANGED <<fs, cwd, cmd, brk, argi, resp, list, i, destPath, fullDestPath,
                 destAttr, response, callStatus, prompts, leaked, dest0,
                 consented, cancelled, setupFailed>>
  /\ moved' = NULL
  /\ UNCHANGED brkNode

Finish ==
  /\ pc = "Args" /\ cmd.line = "OK" /\ cmd.srcs # <<>>
  /\ argi > Len(cmd.srcs) \/ (~SingleParam /\ brk)
  /\ pc' = "Done"
  /\ result' = IF brk THEN "ABORTED" ELSE status
  /\ UNCHANGED <<fs, cwd, cmd, brk, argi, status, resp, list, i, destPath,
                 fullDestPath, destAttr, response, callStatus, prompts, leaked, dest0,
                 consented, cancelled, setupFailed, firstFail>>
  /\ moved' = NULL
  /\ UNCHANGED brkNode

\* The user requests a break (ShellGetExecutionBreakFlag becomes TRUE).
Break ==
  /\ pc # "Done" /\ ~brk
  /\ brk' = TRUE
  /\ UNCHANGED <<fs, cwd, cmd, pc, argi, status, resp, list, i, destPath,
                 fullDestPath, destAttr, response, callStatus, result, prompts, leaked,
                 dest0, consented, cancelled, setupFailed, firstFail>>
  /\ moved' = NULL
  /\ brkNode' = IF pc = "Node" THEN <<argi, i>> ELSE NULL

-----------------------------------------------------------------------------
(* ValidateAndMoveFiles: one iteration of the loop over the FileList.       *)

Cur == list[i]

\* FullDestPath?FullDestPath:DestPath
Target == IF fullDestPath # NULL THEN fullDestPath ELSE destPath

\* The buffers a return from inside the loop leaves allocated.
LoopBuffers == {"DestPath", "HiiOutput", "HiiResultOk"} \cup
               (IF fullDestPath # NULL THEN {"FullDestPath"} ELSE {})

\* Mutant: the node loop does not poll the break flag.
PrepareNodeIgnoresBreak ==
  /\ pc = "Entry" /\ i <= Len(list)
  /\ Cur.name \notin {DOT, DOTDOT}
  /\ fullDestPath' \in
       IF ShellIsDirectory(destPath)
       THEN {CreateFullDestPath(destPath, <<Cur.name>>)} \cup
            (IF AllocFails THEN {NULL} ELSE {})
       ELSE {NULL}
  /\ pc' = "Node"
  /\ UNCHANGED <<fs, cwd, cmd, brk, argi, status, resp, list, i, destPath,
                 destAttr, response, callStatus, result, prompts, leaked,
                 dest0, consented, cancelled, setupFailed, firstFail>>
  /\ moved' = NULL
  /\ UNCHANGED brkNode

\* The top of an iteration for a node to work on (within the list, no
\* break, not "." or ".."): the last FullDestPath is freed and, when
\* DestPath names a directory, CreateFullDestPath builds the new one.  Its
\* result is ignored: when its allocation fails FullDestPath stays NULL.
PrepareNode ==
  /\ pc = "Entry" /\ i <= Len(list) /\ ~brk
  /\ Cur.name \notin {DOT, DOTDOT}
  /\ fullDestPath' \in
       IF ShellIsDirectory(destPath)
       THEN {CreateFullDestPath(destPath, <<Cur.name>>)} \cup
            (IF AllocFails THEN {NULL} ELSE {})
       ELSE {NULL}
  /\ pc' = "Node"
  /\ UNCHANGED <<fs, cwd, cmd, brk, argi, status, resp, list, i, destPath,
                 destAttr, response, callStatus, result, prompts, leaked,
                 dest0, consented, cancelled, setupFailed, firstFail>>
  /\ moved' = NULL
  /\ UNCHANGED brkNode

\* The rest of the iteration works on the node Cur.
AtNode == pc = "Node"

ValidNode == IsValidMove(Text(Cur.path), cwd, Target, Cur.origin \in RoOrigins,
                         destAttr, "SUCCESS")

\* The loop ends, or sees the break flag: everything is freed and the
\* call returns its ShellStatus.
LeaveLoop ==
  /\ pc = "Entry"
  /\ i > Len(list) \/ brk
  /\ ReturnToRunMv(callStatus, {})
  /\ UNCHANGED <<fs, cwd, cmd, brk, resp, list, i, destPath, fullDestPath, destAttr,
                 response, callStatus, result, prompts, dest0, consented, cancelled, setupFailed>>
  /\ moved' = NULL
  /\ UNCHANGED brkNode

\* "." and ".." are skipped.
SkipDots ==
  /\ pc = "Entry" /\ i <= Len(list) /\ ~brk
  /\ Cur.name \in {DOT, DOTDOT}
  /\ i' = i + 1
  /\ UNCHANGED <<fs, cwd, cmd, brk, pc, argi, status, resp, list, destPath,
                 fullDestPath, destAttr, response, callStatus, result, prompts, leaked,
                 dest0, consented, cancelled, setupFailed, firstFail>>
  /\ moved' = NULL
  /\ UNCHANGED brkNode

\* IsValidMove refuses: ShellStatus becomes SHELL_INVALID_PARAMETER and
\* the loop goes on.
Reject ==
  /\ AtNode
  /\ ~ValidNode
  /\ callStatus' = "INVALID_PARAMETER"
  /\ i' = i + 1
  /\ pc' = "Entry"
  /\ NoteFailure("INVALID_PARAMETER")
  /\ UNCHANGED <<fs, cwd, cmd, brk, argi, status, resp, list, destPath,
                 fullDestPath, destAttr, response, result, prompts, leaked, dest0,
                 consented, cancelled, setupFailed>>
  /\ moved' = NULL
  /\ UNCHANGED brkNode

\* The answer to "destination exists, overwrite?": a Response kept from
\* before is used again, otherwise the user is prompted.
AnswerChoices == IF response = NULL THEN Answers ELSE {response}
Prompted == prompts' = prompts + (IF response = NULL THEN 1 ELSE 0)

\* The destination exists and the answer is No: the entry is skipped.
Decline ==
  /\ AtNode /\ ValidNode /\ ShellFileExists(Target)
  /\ "No" \in AnswerChoices
  /\ Prompted
  /\ response' = NULL
  /\ i' = i + 1
  /\ pc' = "Entry"
  /\ UNCHANGED <<fs, cwd, cmd, brk, argi, status, resp, list, destPath,
                 fullDestPath, destAttr, callStatus, result, leaked, dest0, consented,
                 cancelled, setupFailed, firstFail>>
  /\ moved' = NULL
  /\ UNCHANGED brkNode

\* The answer is Cancel: *Resp = Response and the call returns
\* SHELL_ABORTED at once.
Cancel ==
  /\ AtNode /\ ValidNode /\ ShellFileExists(Target)
  /\ "Cancel" \in AnswerChoices
  /\ Prompted
  /\ resp' = "Cancel"
  /\ cancelled' = TRUE
  /\ ReturnToRunMv("ABORTED", LoopBuffers)
  /\ UNCHANGED <<fs, cwd, cmd, brk, list, i, destPath, fullDestPath, destAttr, response,
                 callStatus, result, dest0, consented, setupFailed>>
  /\ moved' = NULL
  /\ UNCHANGED brkNode

\* IsBetweenFileSystem(Node->FullName, Cwd, DestPath)
Between == IsBetweenFileSystem(Text(Cur.path), cwd, destPath)

\* DestPath after the move: across volumes its trailing separators are cut
\* when there is no FullDestPath; within a volume MoveWithinFileSystems
\* chops the map name off it.  Both edits stay for the following nodes.
DestPathAfter ==
  IF Between
  THEN IF fullDestPath = NULL THEN StripTrailingSeps(destPath) ELSE destPath
  ELSE ChopMapInfo(destPath)

\* The entry the node is moved to: across volumes, where CopySingleFile
\* puts FullDestPath or the trimmed DestPath; within, where
\* ShellSetFileInfo renames the node's handle to on the node's volume.
MoveTarget ==
  IF Between
  THEN Resolve(IF fullDestPath # NULL THEN fullDestPath ELSE DestPathAfter, cwd)
  ELSE <<Cur.path[1]>> \o Comps(NewFileName(DestPathAfter, <<Cur.name>>))

\* The node is still where its FileList saw it, and its tree can be put at t.
CanMove(f, t) ==
  Cur.path \in DOMAIN f /\ f[Cur.path] = Cur.origin /\ CanCreateIn(f, Cur.path, t)

\* What CopySingleFile or ShellSetFileInfo return: success when the tree
\* can be put at t, else ACCESS_DENIED; either may fail on its own.
Results(f, t) == (IF CanMove(f, t) THEN {"SUCCESS"} ELSE {"ACCESS_DENIED"}) \cup MoveErrors

\* "Check our result": a failure becomes the call's ShellStatus.
Settle(efi) ==
  /\ callStatus' = IF efi = "SUCCESS" THEN callStatus ELSE ShellStatusOf(efi)
  /\ moved' = IF efi = "SUCCESS" THEN Cur ELSE NULL
  /\ UNCHANGED brkNode
  /\ NoteFailure(IF efi = "SUCCESS" THEN "SUCCESS" ELSE ShellStatusOf(efi))

\* What CopySingleFile leaves when it returns efi: the whole copy on
\* success; when it fails on its own after it began, whatever part of the
\* copy it had made (spec 1 and 4.4: partial copies are not rolled back);
\* nothing when it could not begin.
CopiesLeft(f, t, efi) ==
  CASE efi = "SUCCESS"                   -> {Graft(f, Cur.path, t)}
    [] efi \in MoveErrors /\ CanMove(f, t) -> {GraftOf(f, Cur.path, t, P) : P \in UpperParts(f, Cur.path)}
    [] OTHER                             -> {f}

\* What CascadeDelete of the node leaves: the source removed, or, when it
\* fails part way, whatever it had not yet removed.
CascadeDeletes(f) ==
  IF DeleteFails THEN {[x \in DOMAIN f \ D |-> f[x]] : D \in LowerParts(f, Cur.path)}
  ELSE {Without(f, Cur.path)}

\* Mutant: the source is deleted whether or not the copy succeeded.
MoveBetweenFileSystemsDeleteAlways(f, t) ==
  \E efi \in Results(f, t) :
    /\ fs' \in UNION {CascadeDeletes(g) : g \in CopiesLeft(f, t, efi)}
    /\ Settle(efi)

\* Mutant: the copy is made and the source is never deleted.
MoveBetweenFileSystemsNoCascade(f, t) ==
  \E efi \in Results(f, t) :
    /\ fs' \in CopiesLeft(f, t, efi)
    /\ Settle(efi)

\* MoveBetweenFileSystems: CopySingleFile of the node's tree to t, then,
\* only if the copy succeeded, CascadeDelete of the source, whose result
\* is ignored: the copy's status is returned.
MoveBetweenFileSystems(f, t) ==
  \E efi \in Results(f, t) :
    /\ fs' \in IF efi = "SUCCESS" THEN UNION {CascadeDeletes(g) : g \in CopiesLeft(f, t, efi)}
               ELSE CopiesLeft(f, t, efi)
    /\ Settle(efi)

\* MoveWithinFileSystems: the new EFI_FILE_INFO is allocated (which may
\* fail), then ShellSetFileInfo renames the node's handle to t.
MoveWithinFileSystems(f, t) ==
  \E efi \in Results(f, t) \cup (IF AllocFails THEN {"OUT_OF_RESOURCES"} ELSE {}) :
    /\ fs' = IF efi = "SUCCESS" THEN Without(Graft(f, Cur.path, t), Cur.path) ELSE f
    /\ Settle(efi)

\* The move of Cur to t, on the file system f left by the overwrite.
Execute(f, t) ==
  IF Between THEN MoveBetweenFileSystems(f, t) ELSE MoveWithinFileSystems(f, t)

\* A valid node whose destination is free, or which the user allows to be
\* overwritten (Yes, or All which is kept in *Resp): the existing target
\* is deleted by name, then the node is moved.
Move ==
  /\ AtNode /\ ValidNode
  /\ \E a \in IF ShellFileExists(Target) THEN AnswerChoices \cap {"Yes", "All"}
              ELSE {"Free"} :
       LET f == IF a = "Free" THEN fs ELSE DeleteByName(Target) IN
       /\ prompts' = IF a = "Free" THEN prompts ELSE prompts + (IF response = NULL THEN 1 ELSE 0)
       /\ resp' = IF a = "All" THEN "All" ELSE resp
       /\ response' = CASE a = "All" -> "All"
                        [] a = "Yes" -> NULL
                        [] OTHER     -> response
       /\ consented' = IF f = fs THEN consented
                       ELSE consented \cup {fs[Resolve(Target, cwd)]}
       /\ \E t \in {MoveTarget} : Execute(f, t)
  /\ destPath' = DestPathAfter
  /\ i' = i + 1
  /\ pc' = "Entry"
  /\ UNCHANGED <<cwd, cmd, brk, argi, status, list, fullDestPath, destAttr, result,
                 leaked, dest0, cancelled, setupFailed>>

Next ==
  \/ CommandLineRejected \/ NoCwd \/ NotFound \/ DestinationFails
  \/ SetupOutOfResources \/ BeginMove \/ Finish \/ Break
  \/ LeaveLoop \/ SkipDots \/ PrepareNode \/ Reject \/ Decline \/ Cancel \/ Move

\* The command runs to completion unless the user stops answering; the
\* break and the user's answers are the environment and get no fairness.
Spec == Init /\ [][Next]_vars /\ WF_vars(Next)

-----------------------------------------------------------------------------
TypeOK ==
  /\ fs \in [Entries -> InitFS.entries]
  /\ pc \in {"Args", "Entry", "Node", "Done"}
  /\ argi \in 1..Len(cmd.srcs) + 1
  /\ resp \in {NULL, "All", "Cancel"}
  /\ response \in {NULL, "All", "Cancel"}
  /\ brk \in BOOLEAN
  /\ prompts \in Nat
  /\ consented \subseteq InitFS.entries

-----------------------------------------------------------------------------
(* Properties.                                                              *)

\* ShellCommandRunMv: once the command has met a failure, its status never
\* goes back to SHELL_SUCCESS, however the later arguments fare (the
\* "if (ShellStatus == SHELL_SUCCESS)" guard around ValidateAndMoveFiles).
StatusNeverUpgraded ==
  [][status # "SUCCESS" => status' # "SUCCESS"]_vars

\* An "All" answer is sticky for the rest of the command: once it has been
\* given, in this or an earlier ValidateAndMoveFiles call, no prompt is
\* shown again (Response is carried in *Resp from call to call).
AllIsSticky ==
  [][resp = "All" => prompts' = prompts]_vars

\* No entry is lost: every entry that existed before the command still
\* exists somewhere (at its place, where it was renamed, or as a copy),
\* unless the user agreed to have it overwritten.  This rests on the
\* delete-only-after-copy order of MoveBetweenFileSystems and on the
\* overwrite deleting only the target.
NoLossWithoutConsent ==
  InitFS.entries \ consented \subseteq Range(fs)

\* The command finishes (the user answers every prompt it shows).
Termination == <>(pc = "Done")

\* The PerEntryTarget of spec 4.6 of a node n.
Intended(n) == IF dest0.isDir THEN dest0.path \o <<n.name>> ELSE dest0.path

\* Spec 4.6: a valid node is moved to its PerEntryTarget: the rename or
\* the copy is aimed at the destination directory plus the node's name.
MovesAimAtTarget ==
  AtNode /\ ValidNode /\ dest0.isDir => MoveTarget = Intended(Cur)

\* Spec 5: the break flag is polled at the top of every iteration of the
\* node loop (and of the argument loop); once it is up, the entry in
\* progress may still be moved, but no later entry of any argument is:
\* every change to the file store after a break is the move of the node
\* that was in progress when the break came.
BreakStopsBatch ==
  [][brk /\ fs' # fs => brkNode = <<argi, i>>]_vars

\* Spec 4.5 and 7: a Cancel answer, and an allocation failure while a
\* call sets up its destination, are fatal to the whole batch; nothing
\* is moved after either.
FatalEndsBatch ==
  [][cancelled \/ setupFailed => fs' = fs]_vars

\* Spec 4.6 and 7: the command returns the first failure it met (unless
\* it was stopped by a break or a Cancel, which return SHELL_ABORTED).
FirstFailureWins ==
  (pc = "Done" /\ ~brk /\ ~cancelled /\ firstFail # NULL) => result = firstFail

\* Spec 5: every buffer ValidateAndMoveFiles allocates is released on every
\* way out of it.
BuffersReleased ==
  pc = "Done" => leaked = {}

\* Spec 5 and 7: a failed allocation ends the command with
\* SHELL_OUT_OF_RESOURCES.  So the directory the destination named when
\* the call began stays a directory while the call runs: entries go into
\* it, and the overwrite deletes what is in it, never the directory itself
\* (CreateFullDestPath returning NULL must not make DestPath the target).
DestinationDirectoryKept ==
  [][(pc \in {"Entry", "Node"} /\ dest0.isDir) => IsDirIn(fs', dest0.path)]_vars

\* Spec 4.2, rule 2: a move into a read-only directory is refused.  So a
\* read-only directory holds only entries that were in it to begin with.
NothingLandsInReadOnly ==
  \A x \in Entries :
    Len(x) > 1 /\ fs[Front(x)] \in RoOrigins => Front(fs[x]) = fs[Front(x)]

\* Mv implements MvStore: a step after which the node is reported moved
\* (Settle sets moved) has moved its whole tree, and left nothing of it
\* at its old place; a step that reports no move leaves every existing
\* entry in place, at most with part of a failed copy added; either may
\* first remove one leaf (ShellDeleteFileByName of the target).  It rests
\* on MoveBetweenFileSystems deleting the source only after the copy
\* succeeded, and on CascadeDelete removing all of it.
Store == INSTANCE MvStore
           WITH store <- fs, reported <- moved # NULL,
                InitStore <- [e \in InitFS.entries |-> e], Dirs <- DirOrigins
StoreRefinement == Store!Spec
=============================================================================
