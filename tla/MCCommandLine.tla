--------------------------- MODULE MCCommandLine ---------------------------
(* A small catalogue and the trees that make the parser and planner choose. *)
EXTENDS CommandLine

W(w) == Word(w)
A(kind, value) == [k |-> kind, v |-> value]
S(s, e) == A("se", <<s, e, None>>)
One(atoms) == <<atoms>>
In(dirs, name, x) == [root |-> "in", dirs |-> dirs, name |-> name, ext |-> x]
Rec(kind, id, title, year) == [kind |-> kind, id |-> id, title |-> title, year |-> year]
Ep(s, e, title) == [season |-> s, episode |-> e, title |-> title]

MCLangs == {"en", "eng", "fr", "hi", "sdh", "cc"}
MCCanon == [eng |-> "en"]
MCLowerOf == [MKV |-> "mkv"]
MCRootName == One(<<W("Downloads")>>)

Matrix == <<W("The"), W("Matrix")>>
Lazarus == One(<<W("Lazarus")>>)
Nobody == <<<<W("Mr")>>, <<W("Nobody")>>>>
MCCatalogue == <<
    Rec("movie", 1, One(Matrix), 1999), Rec("movie", 2, One(Matrix \o <<W("Reloaded")>>), 2003),
    Rec("movie", 3, Nobody, 2009), Rec("movie", 5, One(<<W("Open"), A("season", 3)>>), 2010),
    Rec("movie", 7, One(<<W("Hallows"), A("part", <<"part", 1>>)>>), 2010),
    Rec("movie", 8, One(<<W("Hallows"), A("part", <<"part", 2>>)>>), 2011),
    Rec("movie", 9, One(<<W("Blade"), A("year", 2049)>>), 2017),
    Rec("tv", 3, Lazarus, 2025), Rec("tv", 4, One(<<W("The"), W("Lazarus"), W("Project")>>), 2008)>>
MCEpisodes ==
    (<<3, 1>> :> <<Ep(1, 1, One(<<W("Pilot")>>)), Ep(1, 2, One(<<W("Arise")>>)), Ep(1, 3, <<<<W("Etc")>>, <<>>>>)>>)
    @@ (<<3, 2>> :> <<Ep(2, 1, One(<<W("Return")>>))>>)
MCOmdb == {[query |-> <<W("Obscure")>>, id |-> 9, kind |-> "movie", title |-> One(<<W("Obscure")>>), year |-> 2001, tmdb |-> None]}
MCRatio == (<<<<W("Arising")>>, <<W("Arise")>>>> :> 70) @@ (<<<<W("Pylot")>>, <<W("Pilot")>>>> :> 45)

Season(n) == One(<<A("season", n)>>)
Specials == One(<<W("Specials")>>)
Dotted == <<<<W("The")>>, <<W("Matrix")>>, <<A("year", 1999)>>>>
Spaced == One(Matrix \o <<A("year", 1999)>>)
Parted(n) == One(Matrix \o <<A("year", 1999), A("part", <<"cd", n>>)>>)
Shows(s, e, rest) == In(<<Lazarus, Season(s)>>, One(<<W("Lazarus"), S(s, e)>> \o rest), "mkv")

Trees == <<
    <<In(<<>>, Dotted \o <<<<A("quality", 0), A("dash", 0)>>>>, "mkv"), In(<<>>, Dotted \o <<<<W("en")>>>>, "srt"), In(<<>>, Dotted, "nfo")>>,
    <<In(<<>>, Parted(1), "mkv"), In(<<>>, Parted(2), "avi"), In(<<>>, Parted(1) \o <<<<W("en")>>, <<W("sdh")>>>>, "srt")>>,
    <<In(<<>>, Parted(1), "mkv"), In(<<>>, Parted(2), "mkv"), In(<<>>, One(Matrix \o <<A("year", 1999), A("part", <<"pt", 1>>)>>), "mkv")>>,
    <<In(<<>>, Spaced, "mkv"), In(<<>>, Spaced \o <<<<W("en")>>>>, "srt"), In(<<>>, Spaced \o <<<<W("eng")>>>>, "srt"), In(<<>>, One(<<W("poster")>>), "jpg")>>,
    <<Shows(1, 2, <<W("Pilot")>>), Shows(1, 3, <<>>), Shows(1, 4, <<W("Arising")>>)>>,
    <<Shows(1, 7, <<W("Pylot")>>), In(<<Lazarus, One(<<A("series", 2)>>)>>, One(<<W("Lazarus"), S(2, 1), W("Arise")>>), "mkv"), In(<<Lazarus, Season(1)>>, One(<<W("Pilot")>>), "mkv")>>,
    <<In(<<Lazarus, Specials>>, One(<<W("Lazarus"), S(1, 2), W("Pilot")>>), "mkv"), In(<<Lazarus, Specials>>, One(<<W("Bonus")>>), "mkv")>>,
    <<In(<<>>, One(<<W("Open"), A("season", 3), A("year", 2010)>>), "mkv"), In(<<>>, One(<<W("Zzz")>>), "txt"), In(<<>>, One(<<W("Zzz")>>), "part")>>,
    <<In(<<>>, Nobody \o <<<<A("edition", "Extended")>>>>, "MKV"), In(<<>>, Nobody, "mkv")>>,
    <<In(<<>>, One(<<W("Obscure"), A("year", 2001)>>), "mkv"), In(<<>>, One(<<W("Zzz")>>), "mkv")>>,
    <<In(<<>>, One(<<W("Lazarus"), A("cross", <<1, 2, None>>)>>), "mkv"), In(<<>>, One(<<W("Lazarus"), A("se", <<1, 1, 2>>)>>), "mkv")>>,
    <<In(<<>>, One(<<W("Hallows"), A("part", <<"part", 1>>)>>), "mkv"), In(<<>>, One(<<W("Hallows"), A("part", <<"part", 2>>)>>), "mkv")>>,
    <<In(<<>>, One(<<W("Hallows"), A("part", <<"part", 2>>), A("year", 2011)>>), "mkv"), In(<<>>, One(<<W("Blade"), A("year", 2049), A("year", 2017)>>), "mkv")>>,
    <<In(<<>>, One(<<A("bse", <<1, 3, None>>), W("Etc")>>), "mkv"), In(<<>>, One(<<W("Lazarus"), A("date", 2025)>>), "mkv")>>>>

World(fs, one, key, tmdb, omdb, up, eds, rev) ==
    [files |-> fs, single |-> one, key |-> key, tmdb |-> tmdb, omdb |-> omdb, up |-> up,
     editions |-> eds, reviewed |-> rev]
AllUp == DOMAIN MCEpisodes

MCScenes ==
    {World(Trees[i], single, TRUE, TRUE, omdb, up, editions, FALSE) :
        i \in DOMAIN Trees, single \in {FALSE}, omdb \in BOOLEAN, up \in {{}, AllUp}, editions \in BOOLEAN}
    \cup {World(SubSeq(Trees[i], 1, 1), TRUE, TRUE, TRUE, TRUE, AllUp, FALSE, FALSE) : i \in DOMAIN Trees}
    \cup {World(Trees[i], FALSE, key, ~key, FALSE, AllUp, FALSE, FALSE) : i \in DOMAIN Trees, key \in BOOLEAN}
    \cup {World(<<Shows(1, 2, <<W("Pilot")>>), In(<<>>, Spaced, "mkv")>>, FALSE, TRUE, TRUE, FALSE, AllUp, FALSE, TRUE)}

MCPicks == {ToCandidate(MCCatalogue[9], 1000), [ToCandidate(MCCatalogue[8], 1000) EXCEPT !.eps = MCEpisodes[<<3, 1>>]],
            [ToCandidate(MCCatalogue[3], 1000) EXCEPT !.anchor = "imdb"]}
MCTyped == {[kind |-> "tmdb", item |-> None, id |-> 3, season |-> None], [kind |-> "imdb", item |-> None, id |-> 8, season |-> None]}
MCQueries == {Matrix, <<W("Lazarus")>>}
MCOwn == [groups |-> (<<"tv", <<W("Lazarus")>>, None>> :> [kind |-> "tmdb", item |-> "tv", id |-> 4, season |-> None]),
          rows |-> (In(<<>>, Spaced, "mkv") :> [kind |-> "tmdb", item |-> "movie", id |-> 2, season |-> None])]
=============================================================================
