------------------------------- MODULE MCMvPaths -------------------------------
(***************************************************************************)
(* Bounded inputs for MvPathsCheck: two volumes F and G (fs0:, fs1:), the  *)
(* names a, d and e (e never exists, so it is a new name), the upper-case  *)
(* D the user may type for d, and the new name ab, whose spelling starts   *)
(* with that of a.                                                         *)
(***************************************************************************)
EXTENDS MvPathsCheck

MCLower(t) == IF t = "D" THEN "d" ELSE t

\* "ab" is spelt a, b: its text starts with the text of "a".
MCChars(t) == IF t = "ab" THEN <<"a", "b">> ELSE <<t>>


F == "F"
G == "G"

\* F:\a (file), F:\d (directory), F:\d\a (file), G:\d (directory);
\* in the second one F:\d is read-only.
FS1 == [entries |-> {<<F>>, <<G>>, <<F,"a">>, <<F,"d">>, <<F,"d","a">>, <<G,"d">>},
        dirs    |-> {<<F>>, <<G>>, <<F,"d">>, <<G,"d">>},
        ro      |-> {}]
FS2 == [FS1 EXCEPT !.ro = {<<F,"d">>}]
MCFileSystems == {FS1, FS2}

MCCwds == {NULL, <<F, ":", "\\">>, <<F, ":", "\\", "d">>, <<G, ":", "\\">>}

MCSources == {Text(e) : e \in {<<F,"a">>, <<F,"d">>, <<F,"d","a">>, <<G,"d">>}}

\* Full texts of entries, with and without a trailing separator, in the
\* case the shell reports them: what GetDestinationLocation returns for an
\* existing or a new destination before anything is moved.
Canonical == {<<F>>, <<G>>, <<F,"a">>, <<F,"ab">>, <<F,"d">>, <<F,"e">>, <<F,"d","a">>,
              <<F,"d","e">>, <<G,"d">>, <<G,"d","a">>}
MCDestTexts == UNION {{Text(e), Text(e) \o <<"\\">>} : e \in Canonical}

\* The same with the map name chopped off, as MoveWithinFileSystems leaves
\* the caller's DestPath.
MCDestTextsChopped == MCDestTexts \cup {ChopMapInfo(t) : t \in MCDestTexts}

\* The same with D typed for d.
MCDestTextsCased == MCDestTexts \cup
  {<<F, ":", "\\", "D">>, <<F, ":", "\\", "D", "\\">>, <<F, ":", "\\", "D", "\\", "a">>}

\* The same, and the FullDestPath the loop builds from each directory
\* text for a node named a or d: what IsValidMove is handed when DestPath
\* names a directory.
MCDestTextsValidated == MCDestTextsCased \cup
  {CreateFullDestPath(t, <<n>>) : t \in {Text(e) \o <<"\\">> : e \in {<<F>>, <<G>>, <<F,"d">>, <<G,"d">>}},
                                  n \in {"a", "ab", "d"}}

MCDestParams ==
  {<<"\\", "d">>, <<"d">>, <<"e">>, <<"d", "\\", "a">>,
   <<F, ":", "\\", "d">>, <<F, ":", "\\", "a">>, <<F, ":", "\\", "e">>, <<F, ":", "\\", "ab">>,
   \* rooted, naming an existing file or holding a wildcard
   <<"\\", "a">>, <<"\\", "*">>, <<"\\", "d", "\\", "*">>,
   <<F, ":", "\\", "*">>, <<F, ":", "\\", "d", "\\", "*">>, <<G, ":", "\\", "d">>,
   \* with "." and ".." segments
   <<"..">>, <<"..", "\\", "e">>, <<".", "\\", "e">>, <<"e", "\\", "..", "\\", "d", "\\", "e">>,
   <<F, ":", "\\", "e", "\\", "..", "\\", "d", "\\", "e">>, <<"\\", "d", "\\", "..", "\\", "e">>}
=============================================================================
