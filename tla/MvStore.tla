-------------------------------- MODULE MvStore --------------------------------
(***************************************************************************)
(* What a mv command promises about the file store, whatever its          *)
(* arguments, the user's answers and the failures it meets.  A step that  *)
(* reports an entry moved has moved one whole tree to a new name in an    *)
(* existing directory (never into itself) and left nothing of it behind.  *)
(* A step that reports no move leaves every entry where it was, but may    *)
(* leave part of a copy at a new name (a copy across volumes that failed   *)
(* part way: spec 1 and 4.4).  Either may first remove one file or empty   *)
(* directory (the overwrite of a target).                                  *)
(*                                                                         *)
(* The store maps every entry to the entry it was at initially (its        *)
(* origin); an entry is a directory when its origin is one of Dirs.        *)
(***************************************************************************)
EXTENDS MvTrees, Sequences

CONSTANTS
  InitStore,  \* the store before the command
  Dirs        \* the origins that are directories

VARIABLES
  store,      \* [existing entry -> origin]
  reported    \* the last step reports an entry moved

IsDirectoryIn(f, e) == e \in DOMAIN f /\ f[e] \in Dirs

\* t is a new name in an existing directory of f.
FreeIn(f, t) == t \notin DOMAIN f /\ Len(t) > 1 /\ IsDirectoryIn(f, Front(t))

\* A file or an empty directory, not a volume root.
IsLeaf(f, e) == Len(e) > 1 /\ BelowIn(f, e) = {e}

\* A tree that may be put at t: not a volume root, and t not inside it.
Movable(f, s, t) == s \in DOMAIN f /\ Len(s) > 1 /\ FreeIn(f, t) /\ ~IsPrefix(s, t)

\* The tree at s is moved whole to t, and the move is reported.
Relocate(f) ==
  /\ \E s \in DOMAIN f, t \in DOMAIN store' :
       Movable(f, s, t) /\ store' = Without(Graft(f, s, t), s)
  /\ reported' = TRUE

\* Part of the tree at s is copied to t, the tree itself is left as it
\* was, and no move is reported.
Leftover(f) ==
  /\ \E s \in DOMAIN f, t \in DOMAIN store' \ DOMAIN f :
       /\ Movable(f, s, t)
       /\ \E P \in UpperParts(f, s) : store' = GraftOf(f, s, t, P)
  /\ reported' = FALSE

\* Nothing more changes, and no move is reported.
Unmoved(f) == store' = f /\ reported' = FALSE

Step(f) == Relocate(f) \/ Leftover(f) \/ Unmoved(f)

Init == store = InitStore /\ reported = FALSE

\* A step, on the store as it is or with one leaf removed first.
Next ==
  \/ Step(store)
  \/ \E e \in DOMAIN store : IsLeaf(store, e) /\ Step(Without(store, e))

Spec == Init /\ [][Next]_<<store, reported>>
================================================================================
