----------------------------- MODULE MvPathsCheck -----------------------------
(***************************************************************************)
(* The path operators of Mv.c checked against the reference definitions    *)
(* of what they are for, over every combination of bounded inputs.  The    *)
(* single variable holds one combination, and every combination is an     *)
(* initial state, so an invariant is a claim about all of them.  Next only *)
(* moves between the one- and the many-source variant of a combination.    *)
(***************************************************************************)
EXTENDS MvPaths

CONSTANTS
  FileSystems,  \* set of [entries, dirs, ro] the destination may be looked up in
  Cwds,         \* current-directory texts, or NULL
  Sources,      \* FullName texts of entries being moved
  DestTexts,    \* destination path texts handed to the validator and the movers
  DestParams    \* raw destination arguments handed to GetDestinationLocation

VARIABLE in

Inputs == [fs : FileSystems, cwd : Cwds, src : Sources, dst : DestTexts,
           param : DestParams, single : BOOLEAN]

Init == in \in Inputs

\* The same inputs with one source more or one less.
Pick == in' = [in EXCEPT !.single = ~@]

Next == Pick

Spec == Init /\ [][Next]_in

-----------------------------------------------------------------------------
(* Reference definitions, from the spec of the move command.               *)

\* The entry a source FullName names.
SrcEntry == Resolve(in.src, NULL)
\* The entry the destination text names.
DstEntry == Resolve(in.dst, in.cwd)

\* Spec 4.3: the volume of a path, falling back to the volume of Cwd.
VolumeOf(s) == IF Contains(s, COLON) THEN s[1]
               ELSE IF in.cwd = NULL THEN NULL ELSE in.cwd[1]

-----------------------------------------------------------------------------
(* Properties.                                                              *)

\* IsValidMove (spec 8, the identity and the descendant move): a move whose
\* target is the source's own entry or an entry below it is refused,
\* however the destination text spells that entry.
NoMoveIntoItself ==
  IsPrefix(SrcEntry, DstEntry) => ~IsValidMove(in.src, in.cwd, in.dst, FALSE, FALSE, "SUCCESS")

\* IsBetweenFileSystem answers "cross-volume" exactly when the volume of
\* the source and the volume of the destination, each falling back to the
\* volume of Cwd, differ; with no volume on one side it answers FALSE.
VolumeClassification ==
  IsBetweenFileSystem(in.src, in.cwd, in.dst)
    <=> (VolumeOf(in.src) # NULL /\ VolumeOf(in.dst) # NULL
         /\ VolumeOf(in.src) # VolumeOf(in.dst))

=============================================================================
