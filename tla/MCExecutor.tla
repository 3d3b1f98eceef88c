----------------------------- MODULE MCExecutor -----------------------------
(***************************************************************************)
(* Two videos of one directory, each paired with the poster beside it, as  *)
(* find_sidecars pairs an artwork file with every video of its directory.  *)
(***************************************************************************)
EXTENDS Executor, TLC

CONSTANTS v1, v2, poster, t1, t2, p1, p2
CONSTANTS stem, art

MCPath     == {v1, v2, poster, t1, t2, p1, p2}
MCSidecars == <<1, 1>>
MCSrc   == (<<1, 0>> :> v1) @@ (<<1, 1>> :> poster) @@ (<<2, 0>> :> v2) @@ (<<2, 1>> :> poster)
MCDst   == (<<1, 0>> :> t1) @@ (<<1, 1>> :> p1) @@ (<<2, 0>> :> t2) @@ (<<2, 1>> :> p2)
\* Both targets and both posters carry the same file name in two folders, so a
\* review folder has to tell them apart.
MCName  == [p \in MCPath |-> IF p \in {p1, p2, poster} THEN art ELSE stem]
\* Op 1 is a movie, op 2 an episode one folder deeper.
MCDepth == [p \in MCPath |-> IF p \in {t2, p2} THEN 2 ELSE 1]
=============================================================================
