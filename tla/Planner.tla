------------------------------ MODULE Planner ------------------------------
(***************************************************************************)
(* From parse results and candidates to a rename plan: planner/build.py,   *)
(* movie_path.py, tv_path.py, multi_part.py, specials.py, collision.py and *)
(* path_safety.sanitize_component.                                         *)
(*                                                                         *)
(* A target is a file record like a source, so that a library can be       *)
(* dropped again.  A rendered name is made of the atoms the tokenizer      *)
(* would find in it; the " - " between its pieces is the place where two   *)
(* names are glued.                                                        *)
(***************************************************************************)
EXTENDS Resolver

CONSTANT Raised     \* what a resolver that raised an exception returned

Glue(a, b) ==
    IF a = <<>> THEN b ELSE IF b = <<>> THEN a ELSE Front(a) \o <<Last(a) \o b[1]>> \o Tail(b)

Segment(kind, value) == IF value = None THEN <<>> ELSE <<<<[k |-> kind, v |-> value]>>>>

\* Trailing dots go; nothing left is an underscore.
sanitize_component(name) ==
    LET kept == SelectLastInSeq(name, LAMBDA part : part # <<>>)
    IN IF kept = 0 THEN <<<<Word("_")>>>> ELSE SubSeq(name, 1, kept)

-----------------------------------------------------------------------------
(* planner/movie_path.py.                                                  *)
render_anchor(c) == <<c.anchor, c.id>>

movie_folder_name(c, edition) ==
    sanitize_component(Glue(Glue(Glue(c.title, Segment("year", c.year)), Segment("cedition", edition)),
                            Segment("anchor", render_anchor(c))))

_normalize_part_marker(part) == IF part = None THEN None ELSE <<"pt", part[2]>>

movie_base_stem(c, edition, part) ==
    Glue(movie_folder_name(c, edition), Segment("part", _normalize_part_marker(part)))

movie_target_path(c, edition, part, ext) ==
    [root |-> "Movies", dirs |-> <<movie_folder_name(c, edition)>>,
     name |-> movie_base_stem(c, edition, part), ext |-> Lower(ext)]

-----------------------------------------------------------------------------
(* planner/tv_path.py.                                                     *)
tv_show_folder_name(show) ==
    sanitize_component(Glue(Glue(show.title, Segment("year", show.year)), Segment("anchor", render_anchor(show))))

tv_season_folder_name(season) == Segment("season", season)

tv_episode_basename(show, season, episode, title, end) ==
    LET last == IF end # None /\ end > episode THEN end ELSE None
    IN sanitize_component(Glue(Glue(Glue(show.title, Segment("year", show.year)),
                                    Segment("se", <<season, episode, last>>)), title))

tv_target_path(show, season, episode, title, end, ext) ==
    [root |-> "TV Shows", dirs |-> <<tv_show_folder_name(show), tv_season_folder_name(season)>>,
     name |-> tv_episode_basename(show, season, episode, title, end), ext |-> Lower(ext)]

-----------------------------------------------------------------------------
(* planner/build.py.                                                       *)
\* The name of a sidecar next to a video named stem.
_sidecar_suffix(stem, sc) ==
    LET tail == (IF sc.lang = None THEN <<>> ELSE <<sc.lang>>) \o sc.mods
    IN CASE sc.kind = "subtitle" -> stem \o [i \in DOMAIN tail |-> <<Word(tail[i])>>]
         [] sc.kind = "artwork" /\ IsArtworkName(sc.file.name) -> Glue(stem, sc.file.name)
         [] OTHER -> stem

\* movie_sidecar_target and tv_sidecar_target: beside the video's target.
SidecarPairs(p, target) ==
    [i \in DOMAIN p.sidecars |->
        [source |-> p.sidecars[i].file,
         target |-> [target EXCEPT !.name = sanitize_component(_sidecar_suffix(@, p.sidecars[i])),
                                   !.ext = Lower(p.sidecars[i].file.ext)]]]

Op(p, c, target, edition) ==
    [source |-> p.file, target |-> target, kind |-> p.kind, anchor |-> render_anchor(c), edition |-> edition,
     conf |-> c.conf, sidecars |-> SidecarPairs(p, target)]

\* Mutant: only parts whose year is known make a group.
group_multi_part_Dated(rows) ==
    {i \in DOMAIN rows : rows[i].part # None /\ rows[i].year # None
        /\ \E j \in DOMAIN rows \ {i} : rows[j].part # None /\ rows[i].title = rows[j].title /\ rows[i].year = rows[j].year}

\* multi_part.py: the marked files of a title and year, if there are two.
group_multi_part(rows) ==
    LET marked(p) == p.kind = "movie" /\ p.title # <<>> /\ p.part # None
        same(p, q) == p.title = q.title /\ p.year = q.year
    IN {i \in DOMAIN rows : marked(rows[i]) /\ \E j \in DOMAIN rows \ {i} : marked(rows[j]) /\ same(rows[i], rows[j])}

_edition_to_apply(p, apply_editions) == IF apply_editions /\ p.editions # <<>> THEN p.editions[1] ELSE None

\* pairs is a sequence of <<parse result, candidate>>.
_build_movie_ops(pairs, apply_editions) ==
    LET parts == group_multi_part([i \in DOMAIN pairs |-> pairs[i][1]])
    IN [i \in DOMAIN pairs |->
          LET p == pairs[i][1]
              c == pairs[i][2]
              edition == _edition_to_apply(p, apply_editions)
          IN Op(p, c, movie_target_path(c, edition, IF i \in parts THEN p.part ELSE None, p.file.ext), edition)]

\* specials.py.
is_special(p) == p.season = 0 \/ \E i \in DOMAIN p.dirs : IsSpecials(p.dirs[i])

\* A row is passed over when it has no season or no episode to go to.
HasIndices(p, show, up) == is_special(p) \/ match_episode(p, show, up) # None

_resolve_tv_indices(p, show, up) ==
    LET of(e) == <<e.season, e.episode>>
    IN IF is_special(p) THEN <<0, IF p.episode = None THEN 1 ELSE p.episode>>
       ELSE of(match_episode(p, show, up))

_episode_title(p, show, season, episode, up) ==
    LET titled(eps) == Kept(eps, {i \in DOMAIN eps : eps[i].season = season /\ eps[i].episode = episode})
        key == <<show.id, season>>
        fetched == IF season # 0 /\ show.anchor = "tmdb" /\ key \in up /\ key \in DOMAIN Episodes
                   THEN titled(Episodes[key]) ELSE <<>>
    IN IF titled(show.eps) # <<>> THEN titled(show.eps)[1].title
       ELSE IF fetched # <<>> THEN fetched[1].title
       ELSE IF p.eptitle = <<>> THEN <<>> ELSE <<p.eptitle>>

TvOp(p, show, n, up) ==
    Op(p, show, tv_target_path(show, n[1], n[2], _episode_title(p, show, n[1], n[2], up), p.end, p.file.ext), None)

_build_tv_ops(pairs, up) ==
    LET placed == Kept(pairs, {i \in DOMAIN pairs : HasIndices(pairs[i][1], pairs[i][2], up)})
    IN [i \in DOMAIN placed |->
          TvOp(placed[i][1], placed[i][2], _resolve_tv_indices(placed[i][1], placed[i][2], up), up)]

\* The places of ops that share their target.
Clashing(ops) == {i \in DOMAIN ops : \E j \in DOMAIN ops \ {i} : ops[j].target = ops[i].target}

\* Mutant: the ops of a collision stay in the plan.
detect_collisions_Keeps(ops) == [ops |-> ops, collisions |-> Kept(ops, Clashing(ops))]

\* collision.py: ops of one target are all taken out.
detect_collisions(ops) ==
    [ops |-> Kept(ops, DOMAIN ops \ Clashing(ops)), collisions |-> Kept(ops, Clashing(ops))]

build_plan_from_pairs(pairs, skipped, up, apply_editions) ==
    LET resolved(kind) == Kept(pairs, {i \in DOMAIN pairs : pairs[i][2] # None /\ pairs[i][1].kind = kind})
        unresolved == Kept(pairs, {i \in DOMAIN pairs : pairs[i][2] = None})
        plan(parted) == [ops |-> parted.ops, collisions |-> parted.collisions,
                         skipped |-> skipped \o [i \in DOMAIN unresolved |-> <<unresolved[i][1].file, "unresolved">>]]
    IN plan(detect_collisions(_build_movie_ops(resolved("movie"), apply_editions)
                              \o _build_tv_ops(resolved("tv"), up)))

\* resolver(p) is a candidate, None, or Raised.
Planned(answers, refused, up, apply_editions) ==
    LET raised == Kept(answers, {i \in DOMAIN answers : answers[i][2] = Raised})
        skipped == [i \in DOMAIN refused |-> <<refused[i].file, refused[i].skip>>]
                   \o [i \in DOMAIN raised |-> <<raised[i][1].file, "resolve_error">>]
    IN build_plan_from_pairs(Kept(answers, {i \in DOMAIN answers : answers[i][2] # Raised}), skipped, up, apply_editions)

\* The rows a plan asks about.
Media(rows) == Kept(rows, {i \in DOMAIN rows : rows[i].skip = None /\ rows[i].kind # "unknown"})

build_plan(rows, resolver(_), up, apply_editions) ==
    LET media == Media(rows)
    IN Planned([i \in DOMAIN media |-> <<media[i], resolver(media[i])>>],
               Kept(rows, {i \in DOMAIN rows : rows[i].skip # None}), up, apply_editions)
=============================================================================
