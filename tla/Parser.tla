------------------------------- MODULE Parser -------------------------------
(***************************************************************************)
(* From a file to a parse result: parser/tokens.py, parser/extract.py,     *)
(* parser/skip.py, parser/sidecars.py and parser/show_name.py.             *)
(*                                                                         *)
(* A file name is what the tokenizer distinguishes in it: a sequence of    *)
(* parts (the text between dots), a part being a sequence of atoms         *)
(* [k |-> kind, v |-> value].  The kinds are the shapes its patterns       *)
(* recognise:                                                              *)
(*   "bse" [S03.E12]   "se" S03E12   "cross" 3x12    values <<s, e, end>>  *)
(*   "season" Season 3   "series" Series 3   "sdir" s03                    *)
(*   "year" 2010   "byear" [2010]                                          *)
(*   "date" 2010-05-01 (its year)   "part" cd2, pt2 (<<word, number>>)           *)
(*   "quality", "bquality"   "edition", "bedition", "cedition" (bare,      *)
(*   bracketed, {edition-...})   "anchor" {tmdb-...} (<<kind, id>>)            *)
(*   "group" [RG]   "dash" -RG at the end   "word", "num", "paren" text    *)
(* A 3x12 without a dash, dot or underscore next to it is a "word", and so *)
(* is a bracket whose content reads like a title.  A title is a sequence   *)
(* of atoms, <<>> when there is none.                                      *)
(***************************************************************************)
EXTENDS Lists, SequencesExt

CONSTANTS
    None,           \* Python's None
    Langs,          \* the words of two or three letters the language pattern takes
    Canon,          \* language tag -> canonical tag, for the tags it changes
    LowerOf,        \* extension -> lower case, for the extensions it changes
    RootName        \* the name of the dropped directory

VIDEO_EXTS == {"mkv", "mp4", "avi"}
SUBTITLE_EXTS == {"srt", "ass"}
METADATA_EXTS == {"nfo", "jpg"}
ALL_MEDIA_EXTS == VIDEO_EXTS \cup SUBTITLE_EXTS \cup METADATA_EXTS
SHARD_EXTS == {"part", "download"}
PLEX_ARTWORK_NAMES == {"poster", "fanart", "logo"}
SUBTITLE_MODIFIERS == {"forced", "sdh", "cc", "hi", "default"}

ASSUME LowerAssumption == \A ext \in DOMAIN LowerOf : LowerOf[ext] \notin DOMAIN LowerOf

Lower(ext) == IF ext \in DOMAIN LowerOf THEN LowerOf[ext] ELSE ext
is_video(f) == Lower(f.ext) \in VIDEO_EXTS
is_subtitle(f) == Lower(f.ext) \in SUBTITLE_EXTS
is_metadata(f) == Lower(f.ext) \in METADATA_EXTS

\* What a name is: a list of parts, each a list of atoms.
IsName(name) ==
  /\ name \in Seq(ToSet(name))
  /\ \A part \in ToSet(name) : part \in Seq(ToSet(part))

Word(w) == [k |-> "word", v |-> w]
Atoms(name) == FlattenSeq(name)
HasKind(name, k) == \E i \in DOMAIN Atoms(name) : Atoms(name)[i].k = k

-----------------------------------------------------------------------------
(* parser/skip.py: the reason a file is not media, or None.                *)
classify_skip(f) ==
    IF f.ext = "DS_Store" THEN "system_file"
    ELSE IF f.ext \in SHARD_EXTS \/ \E i \in DOMAIN f.dirs : HasKind(f.dirs[i], "temp")
         THEN "in_progress_download"
    ELSE IF Lower(f.ext) \notin ALL_MEDIA_EXTS THEN "non_media_extension"
    ELSE None

-----------------------------------------------------------------------------
(* parser/tokens.py.  Each peeling takes a state                           *)
(*   [text, season, episode, end, year, dated, editions, part, quality]    *)
(* and returns the state without the atom it recognised.                   *)
Sentinel == [k |-> "SE", v |-> None]

First(s, kind) == SelectInSeq(s, LAMBDA a : a.k = kind)
Final(s, kind) == SelectLastInSeq(s, LAMBDA a : a.k = kind)
Only(s, kinds) == Kept(s, {i \in DOMAIN s : s[i].k \in kinds})
Without(s, kinds) == Kept(s, {i \in DOMAIN s : s[i].k \notin kinds})

WithEditions(t, labels) ==
    [t EXCEPT !.editions = @ \o Kept(labels, {i \in DOMAIN labels : labels[i] \notin ToSet(t.editions)})]

Labels(atoms) == [i \in DOMAIN atoms |-> atoms[i].v]

\* Mutant: the editions this program writes are not read back.
StripBracesBlind(t) == [t EXCEPT !.text = Without(@, {"cedition", "anchor"})]

StripBraces(t) ==
    LET tag(a) == a.k = "anchor" /\ a.v[1] \in {"tmdb", "imdb"}
        u == Kept(t.text, {i \in DOMAIN t.text : ~tag(t.text[i])})
    IN [WithEditions(t, Labels(Only(u, {"cedition"}))) EXCEPT !.text = Without(u, {"cedition"})]

_consume_bracket_groups(t) ==
    LET ses == Only(t.text, {"bse"})
        years == Only(t.text, {"byear"})
        u == WithEditions(t, Labels(Only(t.text, {"bedition"})))
        marked == IF ses = <<>> THEN u
                  ELSE [u EXCEPT !.season = Last(ses).v[1], !.episode = Last(ses).v[2], !.end = Last(ses).v[3]]
        dropped == Without(t.text, {"byear", "bquality", "bedition", "group"})
    IN [marked EXCEPT !.year = IF years = <<>> THEN @ ELSE Last(years).v,
                      !.quality = @ \/ Only(t.text, {"bquality"}) # <<>>,
                      !.text = [i \in DOMAIN dropped |-> IF dropped[i].k = "bse" THEN Sentinel ELSE dropped[i]]]

Marked(text, i) == SubSeq(text, 1, i - 1) \o <<Sentinel>> \o SubSeq(text, i + 1, Len(text))

TakeMarker(t, i) ==
    [t EXCEPT !.text = Marked(@, i),
              !.season = t.text[i].v[1], !.episode = t.text[i].v[2], !.end = t.text[i].v[3]]

_consume_plain_se(t) ==
    LET i == First(t.text, "se")
    IN IF i = 0 THEN t
       ELSE IF t.season = None THEN TakeMarker(t, i) ELSE [t EXCEPT !.text = Marked(@, i)]

_consume_cross_se(t) ==
    LET i == First(t.text, "cross")
    IN IF t.season # None \/ i = 0 THEN t ELSE TakeMarker(t, i)

_consume_season_word(t) ==
    LET i == First(t.text, "season")
    IN IF t.season # None \/ i = 0 THEN t
       ELSE [t EXCEPT !.season = t.text[i].v, !.text = RemoveAt(@, i)]

_consume_date(t) ==
    LET i == First(t.text, "date")
    IN IF i = 0 THEN t
       ELSE [t EXCEPT !.dated = TRUE, !.year = IF @ = None THEN t.text[i].v ELSE @, !.text = RemoveAt(@, i)]

\* The last year of the name wins, over a bracketed one too.
_consume_year(t) ==
    LET i == Final(t.text, "year")
    IN IF i = 0 THEN t ELSE [t EXCEPT !.year = t.text[i].v, !.text = RemoveAt(@, i)]

_consume_part_marker(t) ==
    LET i == First(t.text, "part")
    IN IF i = 0 THEN t ELSE [t EXCEPT !.part = t.text[i].v, !.text = RemoveAt(@, i)]

_consume_quality_and_edition(t) ==
    [WithEditions(t, Labels(Only(t.text, {"edition"})))
        EXCEPT !.quality = @ \/ Only(t.text, {"quality"}) # <<>>,
               !.text = Without(@, {"quality", "edition"})]

_consume_trailing_group_suffix(t) ==
    IF t.quality /\ t.text # <<>> /\ Last(t.text).k = "dash" THEN [t EXCEPT !.text = Front(@)] ELSE t

tokenize(name) ==
    LET raw == [text |-> Atoms(name), season |-> None, episode |-> None, end |-> None, year |-> None,
                dated |-> FALSE, editions |-> <<>>, part |-> None, quality |-> FALSE]
        marked == _consume_season_word(_consume_cross_se(_consume_plain_se(
                      _consume_bracket_groups(StripBraces(raw)))))
    IN _consume_trailing_group_suffix(_consume_quality_and_edition(_consume_part_marker(
           _consume_year(_consume_date(marked)))))

year_at_stem_start(name) == Atoms(name) # <<>> /\ Atoms(name)[1].k \in {"year", "date"}

-----------------------------------------------------------------------------
(* parser/extract.py.                                                      *)
_year_from_dir(dir) ==
    LET years == Only(Atoms(dir), {"year", "byear", "date"})
    IN IF years = <<>> THEN None ELSE years[1].v

_season_from_dir(dir) ==
    LET a == Atoms(dir) IN IF Len(a) = 1 /\ a[1].k \in {"season", "sdir"} THEN a[1].v ELSE None

IsSpecials(dir) == dir = <<<<Word("Specials")>>>>

\* What the name does not say, its own directory may.
_apply_parent_hints(t, dirs) ==
    IF dirs = <<>> THEN t
    ELSE [t EXCEPT !.year = IF @ = None THEN _year_from_dir(Last(dirs)) ELSE @,
                   !.season = IF @ # None THEN @ ELSE IF IsSpecials(Last(dirs)) THEN 0 ELSE _season_from_dir(Last(dirs))]

_classify_kind(t) == IF t.season # None \/ t.dated THEN "tv" ELSE "movie"

\* <<title, episode title>>: the text before and after the first marker.
_split_title(t, kind) ==
    LET i == First(t.text, "SE")
    IN IF kind = "tv" /\ i # 0
       THEN <<SubSeq(t.text, 1, i - 1), Without(SubSeq(t.text, i + 1, Len(t.text)), {"SE"})>>
       ELSE <<Without(t.text, {"SE"}), <<>>>>

NotVideo(f, dirs, reason) ==
    [file |-> f, kind |-> "unknown", title |-> <<>>, year |-> None, season |-> None, episode |-> None,
     end |-> None, eptitle |-> <<>>, editions |-> <<>>, part |-> None, dirs |-> dirs,
     skip |-> reason, sidecars |-> <<>>]

\* A name that is only a year is a title.
Video(f, dirs, t, kind, titles) ==
    LET bare == kind = "movie" /\ t.year # None /\ year_at_stem_start(f.name) /\ titles[1] = <<>>
    IN [file |-> f, kind |-> kind,
        title |-> IF bare THEN <<[k |-> "year", v |-> t.year]>> ELSE titles[1],
        year |-> IF bare THEN None ELSE t.year,
        season |-> t.season, episode |-> t.episode, end |-> t.end, eptitle |-> titles[2],
        editions |-> t.editions, part |-> t.part, dirs |-> dirs, skip |-> None, sidecars |-> <<>>]

Classified(f, dirs, t) == Video(f, dirs, t, _classify_kind(t), _split_title(t, _classify_kind(t)))

\* dirs is the chain of directories between the dropped root and the file.
parse_file(f, dirs) ==
    IF classify_skip(f) # None \/ ~is_video(f) THEN NotVideo(f, dirs, classify_skip(f))
    ELSE Classified(f, dirs, _apply_parent_hints(tokenize(f.name), dirs))

-----------------------------------------------------------------------------
(* parser/sidecars.py.                                                     *)
Token(part) == IF Len(part) = 1 /\ part[1].k = "word" THEN part[1].v ELSE "-"

_canonicalize_language(tag) == IF tag \in DOMAIN Canon THEN Canon[tag] ELSE tag

\* The walk of parse_sidecar_name over the parts of a subtitle's name, from
\* the second part on; it stops at the first part that is neither a language
\* nor a modifier.  "end" is the number of parts that make the stem.
SubtitleName(name) ==
    LET n == Len(name)
        walk[i \in 1..n] ==
            IF i = 1 THEN [lang |-> None, mods |-> <<>>, end |-> n, go |-> TRUE]
            ELSE LET w == walk[i - 1]
                     tok == Token(name[i])
                 IN IF ~w.go THEN w
                    ELSE IF w.lang = None /\ tok \in Langs
                         THEN IF tok \in SUBTITLE_MODIFIERS
                              THEN [w EXCEPT !.mods = Append(@, tok), !.end = i - 1]
                              ELSE [w EXCEPT !.lang = _canonicalize_language(tok), !.end = i - 1]
                    ELSE IF tok \in SUBTITLE_MODIFIERS
                         THEN [w EXCEPT !.mods = Append(@, tok), !.end = IF @ = n THEN i - 1 ELSE @]
                    ELSE [w EXCEPT !.go = FALSE]
    IN walk[n]

parse_sidecar_name(f) ==
    IF is_metadata(f) THEN [stem |-> f.name, lang |-> None, mods |-> <<>>]
    ELSE LET w == SubtitleName(f.name)
         IN [stem |-> SubSeq(f.name, 1, w.end), lang |-> w.lang, mods |-> w.mods]

IsArtworkName(name) == Len(name) = 1 /\ Token(name[1]) \in PLEX_ARTWORK_NAMES

_kind_for_ext(f) ==
    IF is_subtitle(f) THEN "subtitle" ELSE IF Lower(f.ext) = "nfo" THEN "nfo" ELSE "artwork"

\* The sidecars of one video among the files of its directory: those whose
\* stem is the video's, and the artwork Plex knows by name.
find_sidecars(video, files) ==
    LET named(f) == parse_sidecar_name(f).stem = video.name
        pairs(f) == /\ f # video
                    /\ is_subtitle(f) \/ is_metadata(f)
                    /\ named(f) \/ (is_metadata(f) /\ IsArtworkName(f.name))
        found == Kept(files, {i \in DOMAIN files : pairs(files[i])})
    IN [i \in DOMAIN found |->
          LET p == parse_sidecar_name(found[i])
          IN [file |-> found[i], lang |-> p.lang, mods |-> p.mods,
              kind |-> IF named(found[i]) THEN _kind_for_ext(found[i]) ELSE "artwork"]]

\* The dropped input is a directory (a sequence of files in walk order) or
\* one file, whose neighbours are not looked at.
parse_tree(files, single) ==
    [i \in DOMAIN files |->
        LET f == files[i]
        IN [parse_file(f, IF single THEN <<>> ELSE f.dirs) EXCEPT !.sidecars =
              IF single \/ ~is_video(f) THEN @
              ELSE find_sidecars(f, Kept(files, {j \in DOMAIN files : files[j].dirs = f.dirs}))]]

-----------------------------------------------------------------------------
(* parser/show_name.py.                                                    *)
looks_like_season_folder(dir) ==
    \/ IsSpecials(dir)
    \/ LET a == Atoms(dir) IN Len(a) = 1 /\ a[1].k \in {"season", "series", "sdir"} /\ a[1].v < 100

derive_show_name(dirs) ==
    LET i == SelectInSeq(dirs, LAMBDA d : ~looks_like_season_folder(d))
    IN IF i = 0 THEN RootName ELSE dirs[i]
=============================================================================
