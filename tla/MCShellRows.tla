---------------------------- MODULE MCShellRows -----------------------------
(* Two files of one episode: one group and one target, so that they        *)
(* collide once the group has a candidate.  A drop of the first alone      *)
(* takes the second from the list.                                         *)
EXTENDS ShellRows

CONSTANTS show, ep

MCMaxFiles == 2
MCGroup == [f \in 1 .. MCMaxFiles |-> show]
MCShows == {show}
MCEpisode == [f \in 1 .. MCMaxFiles |-> ep]
MCDrops == { {1}, 1 .. MCMaxFiles }
=============================================================================
