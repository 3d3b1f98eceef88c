------------------------------- MODULE MCPrune --------------------------------
(* A movie with a subtitle, an episode two directories down, and a video   *)
(* no candidate was found for.  Other programs write next to the sources   *)
(* and next to the movie in the library.  The folder dropped last holds    *)
(* all of it, or the last video alone.                                     *)
EXTENDS Prune

Input == <<"v", "d", "in">>
Library == <<"v", "d", "lib">>
Movie == Append(Library, "Movies") \o <<"M">>
Show == Append(Library, "TV") \o <<"S", "Season 01">>

MCEntry == 1 .. 3
MCSidecar == {2}
MCSource == << Input \o <<"a", "m.mkv">>, Input \o <<"a", "m.srt">>, Input \o <<"d", "f", "e.mkv">> >>
MCTarget == << Append(Movie, "M.mkv"), Append(Movie, "M.srt"), Append(Show, "e.mkv") >>
MCListed == { MCSource[1], MCSource[3], Input \o <<"c", "w.mkv">> }
MCInputRoots == { Input, Append(Input, "c") }
MCMoviesRoot == Append(Library, "Movies")
MCElsewhere == { MCMoviesRoot, Append(Library, "TV") }
MCDisallowed == { <<>>, <<"v">>, <<"v", "d">> }
MCOthers == { Input \o <<"a", "x">>, Input \o <<"d", "y">>, Append(Append(MCMoviesRoot, "M"), "z") }
=============================================================================
