---------------------------- MODULE Diagnostics ----------------------------
(***************************************************************************)
(* The batch report and its overrides: diagnostics/report.py,              *)
(* diagnostics/overrides.py and tmdb/anchor_parse.py.                      *)
(*                                                                         *)
(* An anchor as the user writes it is a record                             *)
(* [kind, item, id, season]: tmdb or imdb, movie or tv or None for a bare  *)
(* id, and a season or None.  Overrides are [groups, rows], functions from *)
(* group keys and from files to such records.                              *)
(***************************************************************************)
EXTENDS Planner

HIGH_CONFIDENCE == 850
TOP_N == 5

NoOverrides == [groups |-> <<>>, rows |-> <<>>]

\* Later sets win on a key both have.
merge_overrides(a, b) ==
    LET over(f, g) == [x \in DOMAIN f \cup DOMAIN g |-> IF x \in DOMAIN g THEN g[x] ELSE f[x]]
    IN [groups |-> over(a.groups, b.groups), rows |-> over(a.rows, b.rows)]

is_empty(o) == DOMAIN o.groups = {} /\ DOMAIN o.rows = {}

\* get_movie and get_tv: the record of an id, if TMDB has one.
Lookup(kind, id) == Kept(Catalogue, {i \in DOMAIN Catalogue : Catalogue[i].kind = kind /\ Catalogue[i].id = id})

\* The candidate an anchor stands for; None when the lookup raises.
resolve_anchor_to_candidate(ref, parsed, up) ==
    LET item == IF ref.item # None THEN ref.item ELSE IF parsed = "movie" THEN "movie" ELSE "tv"
        hits == Lookup(item, ref.id)
        key == <<ref.id, ref.season>>
    IN IF ref.kind = "imdb"
       THEN [anchor |-> "imdb", id |-> ref.id, kind |-> IF parsed = "movie" THEN "movie" ELSE "tv",
             title |-> <<<<Word("imdb")>>>>, year |-> None, conf |-> 1000, eps |-> <<>>]
       ELSE IF hits = <<>> THEN None
       ELSE [ToCandidate(hits[1], 1000)
               EXCEPT !.eps = IF item = "tv" /\ key \in up /\ key \in DOMAIN Episodes THEN Episodes[key] ELSE <<>>]

-----------------------------------------------------------------------------
(* report.py.                                                              *)
_group_key(p) ==
    IF p.kind = "tv" THEN <<"tv", Atoms(derive_show_name(p.dirs)), None>>
    ELSE <<"movie", IF p.title # <<>> THEN p.title ELSE <<[k |-> "file", v |-> <<p.file.name, p.file.ext>>]>>, p.year>>

\* What a row asks TMDB for: a show by the name of its directory.
QueryTitle(p) == IF p.kind = "tv" THEN Atoms(derive_show_name(p.dirs)) ELSE p.title

Apart(a, b, d) == a # None /\ b # None /\ (a - b > d \/ b - a > d)

RowReport(p, ranked) ==
    LET top == IF ranked = <<>> THEN None ELSE ranked[1]
    IN [p |-> p, key |-> _group_key(p), top |-> top, ep |-> None,
        alts |-> SubSeq(ranked, 2, IF Len(ranked) > TOP_N THEN TOP_N + 1 ELSE Len(ranked)),
        flags |-> IF p.kind = "unknown" THEN {"unknown"}
                  ELSE IF top = None THEN {"no-anchor", "empty-search"}
                  ELSE {f \in {"low-confidence", "year-mismatch", "ambiguous"} :
                          \/ f = "low-confidence" /\ top.conf < HIGH_CONFIDENCE
                          \/ f = "year-mismatch" /\ Apart(p.year, top.year, 1)
                          \/ f = "ambiguous" /\ Len(ranked) >= 2 /\ ~Apart(top.conf, ranked[2].conf, 49)}]

_report_one_row(p) ==
    RowReport(p, IF p.kind = "unknown" THEN <<>> ELSE search_pooled(p.kind, QueryTitle(p), p.year))

_loose_title_score(a, b) == token_set_ratio(a, b)

EpisodeFlags(p, show, e) ==
    LET known == \E i \in DOMAIN show.eps : show.eps[i].season = e.season /\ show.eps[i].episode = e.episode
    IN {f \in {"episode-synthesized", "episode-renumbered", "episode-title-mismatch"} :
          \/ /\ f = "episode-synthesized"
             /\ p.eptitle # <<>> /\ Title(e) = p.eptitle /\ At(e, p) /\ show.eps # <<>> /\ ~known
          \/ f = "episode-renumbered" /\ HasNumbers(p) /\ ~At(e, p)
          \/ /\ f = "episode-title-mismatch"
             /\ p.eptitle # <<>> /\ Title(e) # <<>> /\ _loose_title_score(p.eptitle, Title(e)) < 60}

_attach_episode_matches(row, up) ==
    IF row.p.kind # "tv" \/ row.top = None THEN row
    ELSE IF row.top.anchor # "tmdb" THEN row
    ELSE LET with(e) == [row EXCEPT !.ep = e,
                           !.flags = @ \cup (IF e = None THEN {"episode-unknown"} ELSE EpisodeFlags(row.p, row.top, e))]
         IN with(match_episode(row.p, row.top, up))

\* The override of a row, its own before its group's.
RefOf(row, o) ==
    IF row.p.file \in DOMAIN o.rows THEN o.rows[row.p.file]
    ELSE IF row.key \in DOMAIN o.groups THEN o.groups[row.key] ELSE None

\* Candidates are kept by <<kind, id>>: the first row that an anchor resolved
\* for settles it for those after it.
_apply_overrides(rows, o, up) ==
    LET own(i) == IF RefOf(rows[i], o) = None THEN None
                  ELSE resolve_anchor_to_candidate(RefOf(rows[i], o), rows[i].p.kind, up)
        sameKey(i, j) == /\ RefOf(rows[j], o) # None
                         /\ RefOf(rows[j], o).kind = RefOf(rows[i], o).kind
                         /\ RefOf(rows[j], o).id = RefOf(rows[i], o).id
        cached(i) == Kept([j \in 1..i |-> j], {j \in 1..i : sameKey(i, j) /\ own(j) # None})
    IN [i \in DOMAIN rows |->
          IF RefOf(rows[i], o) = None \/ cached(i) = <<>> THEN rows[i]
          ELSE [rows[i] EXCEPT !.top = own(cached(i)[1]), !.ep = None,
                  !.flags = (@ \ {"no-anchor", "low-confidence", "ambiguous", "empty-search", "year-mismatch"})
                            \cup {"anchor-override"}]]

\* A group stands in the order of its first row and takes its kind; its
\* anchor is that of the first of its rows that has one.
_group_report(key, rows) ==
    LET its == Kept(rows, {i \in DOMAIN rows : rows[i].key = key})
        anchored == Kept(its, {i \in DOMAIN its : its[i].top # None})
    IN [key |-> key, kind |-> its[1].p.kind, rows |-> its,
        anchor |-> IF anchored = <<>> THEN None ELSE render_anchor(anchored[1].top)]

build_report(parsed, overrides, up) ==
    LET media == Kept(parsed, {i \in DOMAIN parsed : parsed[i].skip = None})
        asked == [i \in DOMAIN media |-> _attach_episode_matches(_report_one_row(media[i]), up)]
        overridden(rows) == IF is_empty(overrides) THEN rows ELSE _apply_overrides(rows, overrides, up)
        report(rows) ==
            LET keys == Distinct([i \in DOMAIN rows |-> rows[i].key])
            IN [rows |-> rows, groups |-> [i \in DOMAIN keys |-> _group_report(keys[i], rows)],
                ignored |-> Kept(parsed, {i \in DOMAIN parsed : parsed[i].skip # None})]
    IN report(overridden(asked))
=============================================================================
