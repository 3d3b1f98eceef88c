------------------------------ MODULE Resolver ------------------------------
(***************************************************************************)
(* From a parsed title to a candidate and from a candidate to an episode:  *)
(* tmdb/fallback.py, tmdb/ranking.py and planner/show_anchor.py.           *)
(*                                                                         *)
(* Scores are integers: percent for a comparison, thousandths for a        *)
(* confidence.  What rapidfuzz says of two unrelated strings is the        *)
(* constant Ratio; what it says of equal, contained and subset strings     *)
(* follows from its definition.                                            *)
(***************************************************************************)
EXTENDS Parser

CONSTANTS
    Catalogue,      \* TMDB: a sequence of [kind, id, title, year], popular ones first
    Episodes,       \* <<show id, season>> -> the sequence of its episodes
    OmdbEntries,    \* OMDB: a set of [query, id, kind, title, year, tmdb]
    Ratio           \* [pairs of titles -> 0..100], for the pairs that are not unrelated

ASSUME CatalogueAssumption ==
  /\ Catalogue \in Seq(ToSet(Catalogue))
  /\ \A r, s \in ToSet(Catalogue) : r.kind = s.kind /\ r.id = s.id => r = s
  /\ \A r \in ToSet(Catalogue) : r.kind # None /\ IsName(r.title)

ASSUME EpisodesAssumption ==
  \A key \in DOMAIN Episodes :
    /\ Episodes[key] \in Seq(ToSet(Episodes[key]))
    /\ \A e \in ToSet(Episodes[key]) :
          e = [season |-> e.season, episode |-> e.episode, title |-> e.title] /\ IsName(e.title)

ASSUME OmdbAssumption ==
  \A o \in OmdbEntries : IsName(o.title) /\ (o.tmdb # None => IsName(o.tmdb.title))

ASSUME RatioAssumption == \A pair \in DOMAIN Ratio : Ratio[pair] \in 0..100

MIN_TMDB_CONFIDENCE == 600
TITLE_TIEBREAK_THRESHOLD == 5
SE_TITLE_CONSISTENCY_THRESHOLD == 60
MIN_TITLE_SCORE_FOR_MATCH == 50
UNRELATED == 30

Title(r) == Atoms(r.title)
Within(a, b) == a # <<>> /\ \E i \in 1..(Len(b) - Len(a) + 1) : SubSeq(b, i, i + Len(a) - 1) = a

Likeness(a, b) == IF <<a, b>> \in DOMAIN Ratio THEN Ratio[<<a, b>>] ELSE UNRELATED
token_set_ratio(a, b) ==
    IF ToSet(a) \subseteq ToSet(b) \/ ToSet(b) \subseteq ToSet(a) THEN 100 ELSE Likeness(a, b)
partial_ratio(a, b) == IF Within(a, b) \/ Within(b, a) THEN 100 ELSE Likeness(a, b)
WRatio(a, b) == IF a = b THEN 100 ELSE IF token_set_ratio(a, b) = 100 THEN 90 ELSE Likeness(a, b)

-----------------------------------------------------------------------------
(* tmdb/ranking.py.                                                        *)
Score(query, title) ==
    IF query = <<>> \/ title = <<>> THEN 0
    ELSE WRatio(query, title) + (IF title = query THEN 28
                                 ELSE IF IsPrefix(query, title) THEN 20
                                 ELSE IF Within(query, title) THEN 8 ELSE 0)

rank_candidates(query, cands) == ByScore(cands, [c \in ToSet(cands) |-> Score(query, Title(c))])

WithoutNumber(q) == IF Len(q) > 1 /\ Last(q).k = "num" THEN Front(q) ELSE q
WithoutParen(q) == IF q # <<>> /\ Last(q).k = "paren" THEN Front(q) ELSE q
WithoutThe(q) == IF Len(q) > 1 /\ q[1] = Word("The") THEN Tail(q) ELSE q

cleaned_query_variants(q) ==
    LET all == <<q, WithoutNumber(q), WithoutParen(q), WithoutThe(q),
                 WithoutThe(WithoutNumber(q)), WithoutThe(WithoutParen(q))>>
    IN Distinct(Kept(all, {i \in DOMAIN all : all[i] # <<>>}))

\* The query without its last one, two or three words, never under two.
aggressive_query_variants(q) ==
    Kept([n \in 1..3 |-> SubSeq(q, 1, Len(q) - n)], {n \in 1..3 : Len(q) - n >= 2})

-----------------------------------------------------------------------------
(* tmdb/fallback.py.                                                       *)
\* TMDB's search: titles with every word of the query, of that year if given.
TmdbSearch(kind, q, year) ==
    LET hit(r) == r.kind = kind /\ ToSet(q) \subseteq ToSet(Title(r)) /\ year \in {None, r.year}
    IN Kept(Catalogue, {i \in DOMAIN Catalogue : hit(Catalogue[i])})

_title_score(parsed, title) ==
    IF parsed = <<>> \/ title = <<>> THEN 0
    ELSE IF parsed = title THEN 100
    ELSE IF Within(parsed, title) \/ Within(title, parsed) THEN 80
    ELSE token_set_ratio(parsed, title)

_year_score(parsed, year) ==
    IF parsed = None \/ year = None THEN 70
    ELSE IF parsed = year THEN 100
    ELSE IF parsed - year \in {1, -1} THEN 50 ELSE 20

_blend(titleScore, yearScore) == 7 * titleScore + 3 * yearScore

\* A TMDB record as a candidate; searches and details carry no episodes.
ToCandidate(r, confidence) ==
    [anchor |-> "tmdb", id |-> r.id, kind |-> r.kind, title |-> r.title, year |-> r.year,
     conf |-> confidence, eps |-> <<>>]

_pooled(kind, title, year, variants) ==
    LET pool == Distinct(FlattenSeq([i \in DOMAIN variants |-> TmdbSearch(kind, variants[i], year)]))
        conf(r) == _blend(_title_score(title, Title(r)), _year_score(year, r.year))
        scored == ByScore(pool, [r \in ToSet(pool) |-> conf(r)])
    IN rank_candidates(title, [i \in DOMAIN scored |-> ToCandidate(scored[i], conf(scored[i]))])

OrElse(first, second) == IF first # <<>> THEN first ELSE second

search_pooled(kind, title, year) ==
    IF title = <<>> THEN <<>>
    ELSE OrElse(_pooled(kind, title, year, cleaned_query_variants(title)),
                _pooled(kind, title, year, aggressive_query_variants(title)))

\* OMDB by title and year, then TMDB by the IMDb id OMDB gave, then OMDB's own
\* record.  omdb is whether a key is configured and the service answers.
_imdb_fallback(kind, title, year, omdb) ==
    LET hits == {o \in OmdbEntries : o.query = title /\ year \in {None, o.year}}
    IN IF ~omdb \/ hits = {} THEN None
       ELSE LET o == CHOOSE x \in hits : TRUE
            IN IF o.tmdb # None /\ o.tmdb.kind = kind THEN ToCandidate(o.tmdb, 700)
               ELSE [anchor |-> "imdb", id |-> o.id, kind |-> kind, title |-> o.title, year |-> o.year,
                     conf |-> 550, eps |-> <<>>]

\* resolve_movie and resolve_tv: only the head of the ranked pool is asked for
\* its confidence.
HeadOr(pooled, fallback) ==
    IF pooled # <<>> /\ pooled[1].conf >= MIN_TMDB_CONFIDENCE THEN pooled[1] ELSE fallback

resolve(kind, title, year, omdb) ==
    HeadOr(search_pooled(kind, title, year), _imdb_fallback(kind, title, year, omdb))

-----------------------------------------------------------------------------
(* planner/show_anchor.py.  up is the set of seasons TMDB answers for, as  *)
(* <<show id, season>>; asking for another raises.                         *)
Synthetic(p) == [season |-> p.season, episode |-> p.episode, title |-> <<p.eptitle>>]
HasNumbers(p) == p.season # None /\ p.episode # None
At(e, p) == e.season = p.season /\ e.episode = p.episode

_ensure_episodes(p, show, up) ==
    LET key == <<show.id, IF p.season = None THEN 1 ELSE p.season>>
    IN IF show.eps # <<>> THEN show.eps
       ELSE IF show.anchor = "tmdb" /\ key \in up /\ key \in DOMAIN Episodes THEN Episodes[key] ELSE <<>>

_score_episodes(title, eps) ==
    LET score(e) == IF Title(e) = <<>> THEN 0 ELSE token_set_ratio(title, Title(e))
        order == ByScore(eps, [e \in ToSet(eps) |-> score(e)])
    IN [i \in DOMAIN order |-> [ep |-> order[i], score |-> score(order[i])]]

\* The slot the name gives, unless its title contradicts the one there.
Direct(p, eps) ==
    LET fits(e) == /\ HasNumbers(p) /\ At(e, p)
                   /\ p.eptitle = <<>> \/ partial_ratio(p.eptitle, Title(e)) >= SE_TITLE_CONSISTENCY_THRESHOLD
    IN Kept(eps, {i \in DOMAIN eps : fits(eps[i])})

\* Mutant: the best title counts however bad it is.
NearTopAny(p, scored) ==
    IF p.eptitle = <<>> \/ scored = <<>> THEN <<>>
    ELSE Kept(scored, {i \in DOMAIN scored : scored[1].score - scored[i].score <= TITLE_TIEBREAK_THRESHOLD})

\* The episodes within five points of the best title, if that is good enough.
NearTop(p, scored) ==
    IF p.eptitle = <<>> \/ scored = <<>> \/ scored[1].score < MIN_TITLE_SCORE_FOR_MATCH THEN <<>>
    ELSE Kept(scored, {i \in DOMAIN scored : scored[1].score - scored[i].score <= TITLE_TIEBREAK_THRESHOLD})

\* The slot, or a near title, that of the numbers first, or the numbers alone.
Pick(p, direct, near) ==
    LET hinted == Kept(near, {i \in DOMAIN near : HasNumbers(p) /\ At(near[i].ep, p)})
    IN IF direct # <<>> THEN direct[1]
       ELSE IF near # <<>> THEN OrElse(hinted, near)[1].ep
       ELSE IF HasNumbers(p) THEN Synthetic(p) ELSE None

Matched(p, eps) == Pick(p, Direct(p, eps), NearTop(p, _score_episodes(p.eptitle, eps)))
match_episode(p, show, up) == Matched(p, _ensure_episodes(p, show, up))
=============================================================================
