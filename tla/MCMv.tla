--------------------------------- MODULE MCMv ---------------------------------
(***************************************************************************)
(* Mv on two volumes F and G (fs0:, fs1:).  F holds the file a and the     *)
(* directory d with a file a in it; G holds a directory d.  The name e     *)
(* never exists, so it is a new name.                                      *)
(***************************************************************************)
EXTENDS Mv

MCLower(t) == IF t = "D" THEN "d" ELSE t

\* Every name is spelt with one character.
MCChars(t) == <<t>>

F == "F"
G == "G"

FSEntries == {<<F>>, <<G>>, <<F, "a">>, <<F, "d">>, <<F, "d", "a">>, <<G, "d">>}
MCInitFS == [entries |-> FSEntries,
             dirs    |-> {<<F>>, <<G>>, <<F, "d">>, <<G, "d">>},
             ro      |-> {}]

\* Path texts.
FRoot == <<F, ":", "\\">>
GRoot == <<G, ":", "\\">>
Txt(v, ns) == <<v, ":", "\\">> \o ns

One(e)  == [at |-> e, star |-> FALSE]
All(e)  == [at |-> e, star |-> TRUE]

MCCmds ==
  { \* mv fs0:\* fs0:\d
    [line |-> "OK", srcs |-> <<All(<<F>>)>>, dest |-> Txt(F, <<"d">>)],
    \* mv fs0:\d\* fs0:\
    [line |-> "OK", srcs |-> <<All(<<F, "d">>)>>, dest |-> FRoot],
    \* mv fs0:\a fs1:\d
    [line |-> "OK", srcs |-> <<One(<<F, "a">>)>>, dest |-> Txt(G, <<"d">>)],
    \* mv fs0:\a fs0:\d\a   (the destination exists)
    [line |-> "OK", srcs |-> <<One(<<F, "a">>)>>, dest |-> Txt(F, <<"d", "\\", "a">>)],
    \* mv fs0:\a fs0:\d fs0:\d  (fs0:\d cannot move into itself)
    [line |-> "OK", srcs |-> <<One(<<F, "a">>), One(<<F, "d">>)>>, dest |-> Txt(F, <<"d">>)],
    \* mv fs0:\a fs1:\d fs0:\d   (fs0:\d\a exists, fs0:\d\d does not)
    [line |-> "OK", srcs |-> <<One(<<F, "a">>), One(<<G, "d">>)>>, dest |-> Txt(F, <<"d">>)],
    \* mv fs0:\d\a fs0:\a e   (relative new name)
    [line |-> "OK", srcs |-> <<One(<<F, "d", "a">>), One(<<F, "a">>)>>, dest |-> <<"e">>],
    \* mv fs0:\d\a fs0:\d\a fs1:\d   (the second is gone when it is reached)
    [line |-> "OK", srcs |-> <<One(<<F, "d", "a">>), One(<<F, "d", "a">>)>>, dest |-> Txt(G, <<"d">>)],
    \* mv fs0:\d\a fs1:\d fs0:\   (fs0:\a, then fs0:\d, exist)
    [line |-> "OK", srcs |-> <<One(<<F, "d", "a">>), One(<<G, "d">>)>>, dest |-> FRoot],
    \* mv fs0:\d fs1:\   (a non-empty tree across volumes onto fs1:\d)
    [line |-> "OK", srcs |-> <<One(<<F, "d">>)>>, dest |-> GRoot],
    \* mv fs0:\a fs0:\   (onto the root it is already in)
    [line |-> "OK", srcs |-> <<One(<<F, "a">>)>>, dest |-> FRoot],
    \* mv fs0:\d\a ..\e   (a new name through "..")
    [line |-> "OK", srcs |-> <<One(<<F, "d", "a">>)>>, dest |-> <<"..", "\\", "e">>],
    \* mv fs0:\a   (to the current directory)
    [line |-> "OK", srcs |-> <<One(<<F, "a">>)>>, dest |-> CWD],
    \* mv   (too few parameters)
    [line |-> "OK", srcs |-> <<>>, dest |-> CWD],
    \* mv -? fs0:\a fs1:\d
    [line |-> "HELP", srcs |-> <<One(<<F, "a">>)>>, dest |-> Txt(G, <<"d">>)],
    \* mv -x fs0:\a fs1:\d   (an unknown flag: EFI_VOLUME_CORRUPTED)
    [line |-> "CORRUPT", srcs |-> <<One(<<F, "a">>)>>, dest |-> Txt(G, <<"d">>)],
    \* mv fs0:\a fs1:\d when ShellCommandLineParse fails on its own
    [line |-> "ERROR", srcs |-> <<One(<<F, "a">>)>>, dest |-> Txt(G, <<"d">>)] }

\* mv fs0:\a fs1:\d alone: the entry lands in the directory fs1:\d.
MCCmdsOom ==
  { [line |-> "OK", srcs |-> <<One(<<F, "a">>)>>, dest |-> Txt(G, <<"d">>)] }

\* fs1:\d is read-only; it is named with and without the volume (from
\* the current directory fs1:\, "\d" is fs1:\d).
MCInitFSRo == [MCInitFS EXCEPT !.ro = {<<G, "d">>}]
MCCmdsRooted ==
  { \* mv fs0:\a fs1:\d
    [line |-> "OK", srcs |-> <<One(<<F, "a">>)>>, dest |-> Txt(G, <<"d">>)],
    \* mv fs0:\a \d   (rooted: the volume of the current directory)
    [line |-> "OK", srcs |-> <<One(<<F, "a">>)>>, dest |-> <<"\\", "d">>] }

\* The commands of the target run: all of the above and the rooted ones.
MCCmdsTarget == MCCmds \cup MCCmdsRooted

MCCwdTexts == {NULL, FRoot, Txt(F, <<"d">>), GRoot}
=============================================================================
