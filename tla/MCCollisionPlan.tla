--------------------------- MODULE MCCollisionPlan --------------------------
(***************************************************************************)
(* Three files and two names, one of them what the other becomes with a    *)
(* suffix: see the .cfg files.                                             *)
(***************************************************************************)
EXTENDS CollisionPlan

MCRendered == { <<1>>, <<1, 2>> }

\* Drops of three files with one name, with both, and with less than a name.
MCDrops == { <<<<1>>, <<1>>, <<1>>>> } \cup
           { <<<<1>>, <<1>>, <<1, 2>>>>, <<Unresolved, <<1>>, Unplaced>> }
=============================================================================
