------------------------------- MODULE MvPaths -------------------------------
(***************************************************************************)
(* The path algebra of the UEFI shell "mv" command (Mv.c).                 *)
(*                                                                         *)
(* A CHAR16 string is a sequence of tokens.  A token is one character of   *)
(* the path syntax (SEP is '\', COLON is ':', STAR is '*'), a volume       *)
(* letter standing for a whole map name such as "fs0", or a name standing  *)
(* for a whole file name.  The code searches, cuts and concatenates only  *)
(* at separators and colons; the one character-level test, IsValidMove's  *)
(* StrStr prefix test, compares the spelling Chars gives each token.      *)
(*                                                                         *)
(* An entry of a file system is a sequence <<v, n1, ..., nk>>: the volume  *)
(* v followed by the lower-case names on the way from the root.            *)
(***************************************************************************)
EXTENDS Naturals, Sequences, FiniteSets, SequencesExt

CONSTANTS
  Vols,      \* volume tokens (map names such as fs0:, fs1:)
  Names,     \* name tokens, in every case the user may type them
  Lower(_),  \* case folding of a name token, as the FAT driver and StringNoCaseCompare do
  Chars(_),  \* the characters a token is spelt with
  NULL       \* a NULL CHAR16 pointer (no current directory)

SEP   == "\\"
COLON == ":"
STAR  == "*"
DOT    == "."     \* the path segments "." and ".."
DOTDOT == ".."

ASSUME Vols \cap Names = {} /\ {SEP, COLON, STAR, DOT, DOTDOT} \cap (Vols \cup Names) = {}

Tokens == Vols \cup Names \cup {SEP, COLON, STAR, DOT, DOTDOT}

-----------------------------------------------------------------------------
(* The shell around Mv.c: how a path text names an entry.                  *)

\* The FullName the shell gives an entry: "fs0:\n1\n2".
Text(e) ==
  <<e[1], COLON, SEP>> \o
    FlattenSeq([i \in 1..Len(e)-1 |-> IF i = 1 THEN <<e[2]>> ELSE <<SEP, e[i+1]>>])

\* The text after the first ':' of s (all of s when it has none).
AfterColon(s) ==
  SubSeq(s, SelectInSeq(s, LAMBDA t : t = COLON) + 1, Len(s))

\* The names of a path text, case-folded; empty components vanish.  Name
\* tokens written next to each other form one name (a one-token name is
\* the token itself), so "d" then "e" without a '\' is the name "de".
Gathered(cur) == IF cur = <<>> THEN <<>> ELSE <<IF Len(cur) = 1 THEN cur[1] ELSE cur>>

RECURSIVE Split(_, _)
Split(s, cur) ==
  IF s = <<>> THEN Gathered(cur)
  ELSE IF s[1] = SEP THEN Gathered(cur) \o Split(Tail(s), <<>>)
  ELSE IF s[1] \in Names THEN Split(Tail(s), Append(cur, Lower(s[1])))
  ELSE IF s[1] \in {DOT, DOTDOT} THEN Split(Tail(s), Append(cur, s[1]))
  ELSE Split(Tail(s), cur)
Comps(s) == Split(AfterColon(s), <<>>)

\* The entry reached from e by walking the names ns: "." stays, ".." goes
\* up (never above the volume root).
RECURSIVE Walk(_, _)
Walk(e, ns) ==
  IF ns = <<>> THEN e
  ELSE IF Head(ns) = DOT THEN Walk(e, Tail(ns))
  ELSE IF Head(ns) = DOTDOT THEN Walk(IF Len(e) > 1 THEN Front(e) ELSE e, Tail(ns))
  ELSE Walk(Append(e, Head(ns)), Tail(ns))

\* The entry a path text names, relative to the current directory Cwd.
\* A text with a map name is absolute, one starting with '\' is rooted at
\* the volume of Cwd, any other is relative to Cwd.
Resolve(s, Cwd) ==
  IF Contains(s, COLON) THEN Walk(<<s[1]>>, Comps(s))
  ELSE IF Cwd = NULL THEN NULL
  ELSE IF s # <<>> /\ s[1] = SEP THEN Walk(<<Cwd[1]>>, Comps(s))
  ELSE Walk(<<Cwd[1]>> \o Comps(Cwd), Comps(s))

\* Entries a destination argument matches (ShellOpenFileMetaArg): a
\* trailing '*' matches every child of the directory before it.
Matches(s, Cwd, Entries) ==
  IF Contains(s, STAR)
  THEN {e \in Entries : Len(e) > 1 /\ Front(e) = Resolve(Front(s), Cwd)}
  ELSE {Resolve(s, Cwd)} \cap Entries

\* while (PathRemoveLastItem(DestPath)) ; reduces "fs0:\a\b" to "fs0:\".
RootOf(Cwd) == <<Cwd[1], COLON, SEP>>

\* StringNoCaseCompare(...) == 0
NoCaseEq(s, t) ==
  Len(s) = Len(t) /\
  \A i \in 1..Len(s) : IF s[i] \in Names /\ t[i] \in Names
                       THEN Lower(s[i]) = Lower(t[i]) ELSE s[i] = t[i]

-----------------------------------------------------------------------------
(* Mv.c                                                                    *)

\* *Test = CHAR_NULL: the string cut at its first ':'.
UpToColon(s) == SubSeq(s, 1, SelectInSeq(s, LAMBDA t : t = COLON) - 1)

\* IsBetweenFileSystem: Test and Test1 point at the first ':' of FullName
\* and DestPath, or, when one has none, at the ':' of Cwd.  Only the
\* strings they point into are cut before the two are compared, so a
\* DestPath without a map name is compared whole with FullName's map name.
IsBetweenFileSystem(FullName, Cwd, DestPath) ==
  LET HasColon(s) == Contains(s, COLON)
      Test  == HasColon(FullName) \/ (Cwd # NULL /\ HasColon(Cwd))
      Test1 == HasColon(DestPath) \/ (Cwd # NULL /\ HasColon(Cwd))
      Cut(s) == IF HasColon(s) THEN UpToColon(s) ELSE s
  IN  Test /\ Test1 /\ ~NoCaseEq(Cut(FullName), Cut(DestPath))

RECURSIVE StripLeadingSeps(_), StripTrailingSeps(_)
StripLeadingSeps(s) ==
  IF s # <<>> /\ s[1] = SEP THEN StripLeadingSeps(Tail(s)) ELSE s
StripTrailingSeps(s) ==
  IF s # <<>> /\ Last(s) = SEP THEN StripTrailingSeps(Front(s)) ELSE s

\* The characters of a text, as StrCmp and StrStr see it.
Spelt(s) == FlattenSeq([k \in 1..Len(s) |-> Chars(s[k])])

\* Mutant: the sub-directory test (StrStr(...) == DestPathWalker) dropped.
IsValidMoveNoPrefix(SourcePath, Cwd, DestPath, Attribute, DestAttr, FileStatus) ==
  /\ ~(Cwd # NULL /\ Spelt(SourcePath) = Spelt(Cwd))
  /\ ~Attribute /\ FileStatus # "WRITE_PROTECTED" /\ ~DestAttr
  /\ Spelt(StripTrailingSeps(StripLeadingSeps(DestPath))) # Spelt(SourcePath)

\* IsValidMove: the working directory is not moved, nothing read-only is
\* moved or written, and the trimmed target neither equals the source nor
\* starts with it.  StrCmp and StrStr compare characters, case-sensitively,
\* so "fs0:\ab" starts with "fs0:\a" although it is not below it.
IsValidMove(SourcePath, Cwd, DestPath, Attribute, DestAttr, FileStatus) ==
  LET DestPathWalker == StripTrailingSeps(StripLeadingSeps(DestPath))
  IN  /\ ~(Cwd # NULL /\ Spelt(SourcePath) = Spelt(Cwd))
      /\ ~Attribute
      /\ FileStatus # "WRITE_PROTECTED"
      /\ ~DestAttr
      /\ Spelt(DestPathWalker) # Spelt(SourcePath)
      /\ ~IsPrefix(Spelt(SourcePath), Spelt(DestPathWalker))

\* The result of GetDestinationLocation.
Dest(status, path, attr) == [status |-> status, path |-> path, attr |-> attr]

JoinCwd(Cwd, DestParameter) ==
  CASE Last(Cwd) # SEP /\ DestParameter[1] # SEP -> Cwd \o <<SEP>> \o DestParameter
    [] Last(Cwd) = SEP /\ DestParameter[1] = SEP -> Front(Cwd) \o DestParameter
    [] OTHER                                     -> Cwd \o DestParameter

\* GetDestinationLocation: the destination path of a batch, with the
\* read-only attribute of the destination when it already exists.
GetDestinationLocation(DestParameter, Cwd, SingleSource, Entries, Dirs, ReadOnly) ==
  LET ms   == Matches(DestParameter, Cwd, Entries)
      Node == CHOOSE m \in ms : TRUE
  IN  CASE DestParameter[1] = SEP /\ Cwd = NULL -> Dest("INVALID_PARAMETER", NULL, FALSE)
        [] DestParameter[1] = SEP ->
             Dest("SUCCESS", RootOf(Cwd) \o Tail(DestParameter), FALSE)
        [] ms = {} /\ ~Contains(DestParameter, COLON) /\ Cwd = NULL ->
             Dest("INVALID_PARAMETER", NULL, FALSE)
        [] ms = {} /\ ~Contains(DestParameter, COLON) ->
             Dest("SUCCESS", JoinCwd(Cwd, DestParameter), FALSE)
        [] ms = {} -> Dest("SUCCESS", DestParameter, FALSE)
        [] Cardinality(ms) > 1 -> Dest("INVALID_PARAMETER", NULL, Node \in ReadOnly)
        [] Node \in Dirs \/ SingleSource ->
             Dest("SUCCESS", Text(Node) \o <<SEP>>, Node \in ReadOnly)
        [] OTHER -> Dest("INVALID_PARAMETER", NULL, Node \in ReadOnly)

\* CreateFullDestPath: DestPath and FileName joined, adding a separator
\* only when neither side has one.
CreateFullDestPath(DestPath, FileName) ==
  IF Last(DestPath) # SEP /\ FileName[1] # SEP
  THEN DestPath \o <<SEP>> \o FileName
  ELSE DestPath \o FileName

\* MoveWithinFileSystems, first step: the map name is chopped off DestPath
\* in place (CopyMem over the caller's buffer).
ChopMapInfo(DestPath) ==
  IF Contains(DestPath, COLON)
  THEN AfterColon(DestPath)
  ELSE DestPath

\* MoveWithinFileSystems, the FileName of the new EFI_FILE_INFO built from
\* the chopped DestPath: rooted with '\', and the node's own name appended
\* when DestPath ends with '\' (one '\' dropped if the name starts with one).
NewFileName(DestPath, FileName) ==
  LET Rooted == IF DestPath = <<>> \/ DestPath[1] # SEP THEN <<SEP>> \o DestPath
                ELSE DestPath
  IN  IF Last(Rooted) = SEP
      THEN (IF FileName[1] = SEP THEN Front(Rooted) ELSE Rooted) \o FileName
      ELSE Rooted

\* The segments of a text between its separators, as typed ("d\\" is
\* <<<<"d">>, <<>>>>: a trailing '\\' leaves an empty last segment).
RECURSIVE Segments(_, _)
Segments(s, cur) ==
  IF s = <<>> THEN <<cur>>
  ELSE IF s[1] = SEP THEN <<cur>> \o Segments(Tail(s), <<>>)
  ELSE Segments(Tail(s), Append(cur, s[1]))

\* Segments joined again with a separator between each two.
JoinSegments(gs) ==
  FlattenSeq([k \in 1..Len(gs) |-> IF k = 1 THEN gs[1] ELSE <<SEP>> \o gs[k]])

\* The text up to and including the '\' after the map name, and the rest.
PathHead(Path) == SubSeq(Path, 1, SelectInSeq(Path, LAMBDA t : t = COLON) + 1)
PathRest(Path) == SubSeq(Path, Len(PathHead(Path)) + 1, Len(Path))

\* The segments gs appended to acc, a "." segment dropped and a ".."
\* segment removing the one before it.
RECURSIVE Collapse(_, _)
Collapse(acc, gs) ==
  IF gs = <<>> THEN acc
  ELSE Collapse(CASE Head(gs) = <<DOT>>    -> acc
                  [] Head(gs) = <<DOTDOT>> -> IF acc = <<>> THEN acc ELSE Front(acc)
                  [] OTHER                 -> Append(acc, Head(gs)),
                Tail(gs))

\* PathCleanUpDirectories (a shell library routine, spec 4.1): the "."
\* and ".." segments of an absolute path text "fs0:\..." are collapsed, a
\* ".." removing the segment before it; the rest is kept as typed, the
\* trailing separator included.
PathCleanUpDirectories(Path) ==
  PathHead(Path) \o JoinSegments(Collapse(<<>>, Segments(PathRest(Path), <<>>)))
=============================================================================
