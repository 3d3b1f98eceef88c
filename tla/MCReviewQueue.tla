--------------------------- MODULE MCReviewQueue ----------------------------
(* Two episodes of a show and a movie.  The movie and the second episode   *)
(* go across file systems (far, other); under TVDB's v the show's files     *)
(* meet at one path (near), and the table has no target for the first       *)
(* under a, though the planner does.                                        *)
EXTENDS ReviewQueue

CONSTANTS show, a, v, near, far, other

MCMaxFiles == 3
MCTv == {1, 2}
MCGroup == [f \in MCTv |-> show]
MCPairs == (1 .. MCMaxFiles) \X {a, v}
MCDest == [p \in MCPairs |-> IF p[1] = 3 THEN other ELSE IF p = <<2, a>> THEN far ELSE near]
MCShown == [p \in MCPairs |-> p # <<1, a>>]
=============================================================================
