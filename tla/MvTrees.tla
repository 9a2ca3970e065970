--------------------------------- MODULE MvTrees --------------------------------
(***************************************************************************)
(* Trees of a file store.  A store is a function from the entries that    *)
(* exist (a volume followed by names) to what each entry holds; an entry   *)
(* e is inside the tree at d when d is a prefix of e.                     *)
(***************************************************************************)
EXTENDS Sequences, SequencesExt

\* The entries of the tree at e, e itself included.
BelowIn(f, e) == {x \in DOMAIN f : IsPrefix(e, x)}

\* f with the tree at e removed (CascadeDelete, ShellDeleteFileByName).
Without(f, e) == [x \in DOMAIN f \ BelowIn(f, e) |-> f[x]]

\* f with the entries P of the tree at s copied to t.
GraftOf(f, s, t, P) ==
  LET New == {t \o SubSeq(x, Len(s) + 1, Len(x)) : x \in P}
  IN  [x \in DOMAIN f \cup New |->
         IF x \in New THEN f[s \o SubSeq(x, Len(t) + 1, Len(x))] ELSE f[x]]

\* f with the tree at s copied to t (CopySingleFile of every entry of it).
Graft(f, s, t) == GraftOf(f, s, t, BelowIn(f, s))

\* What a copy of the tree at s, which makes a directory before what goes
\* in it, may have made when it stops: sets of entries that hold, with
\* each entry, every directory between it and s.
UpperParts(f, s) ==
  {P \in SUBSET BelowIn(f, s) :
     \A x \in P : \A k \in Len(s)..Len(x) : SubSeq(x, 1, k) \in P}

\* What a delete of the tree at s, which removes what is in a directory
\* before the directory, may have removed when it stops: sets of entries
\* that hold, with each entry, everything below it.
LowerParts(f, s) ==
  {D \in SUBSET BelowIn(f, s) : \A x \in D : BelowIn(f, x) \subseteq D}
================================================================================
