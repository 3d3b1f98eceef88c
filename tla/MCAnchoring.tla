----------------------------- MODULE MCAnchoring ------------------------------
(* Two paths: a show of two seasons; and a show that only a cleaned query  *)
(* finds, with a movie that nothing finds and a file that is neither.      *)
EXTENDS Anchoring

CONSTANTS ep1, ep2, other, film, readme

MCRoots == {"Long Show", "Short Show_2"}
MCUnder == [r \in MCRoots |-> IF r = "Long Show" THEN {ep1, ep2} ELSE {other, film, readme}]
MCName == [r \in MCRoots |-> r]
MCKind == [f \in {ep1, ep2, other, film, readme} |->
             IF f = film THEN "movie" ELSE IF f = readme THEN "unknown" ELSE "tv"]
MCSeason == [f \in {ep1, ep2, other, film, readme} |->
               IF f = ep2 THEN 2 ELSE IF f \in {film, readme} THEN NoSeason ELSE 1]
MCShowDir == [f \in {ep1, ep2, other, film, readme} |-> NoName]

Long == Candidate("tmdb", "tv", "long")
Short == Candidate("tmdb", "tv", "short")
Film == Candidate("tmdb", "movie", "film")

MCAired == [i \in {"long", "short"} |-> IF i = "long" THEN {1, 2} ELSE {1}]
MCBest == [k \in {"Long Show"} |-> Long]
MCQuery == {"Short Show"}
MCVariants == [k \in MCRoots \cup {film} |->
                 CASE k = "Long Show" -> <<"Long Show">>
                   [] k = "Short Show_2" -> <<"Short Show_2", "Short Show">>
                   [] OTHER -> <<>>]
MCFound == [q \in {"Long Show", "Short Show"} |-> IF q = "Long Show" THEN {Long} ELSE {Short}]
MCFoundMovies == [q \in MCQuery |-> {Film}]
MCImdbHit == {NoCand, Long}
=============================================================================
