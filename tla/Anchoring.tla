------------------------------ MODULE Anchoring -------------------------------
(***************************************************************************)
(* How the rows of the Qt review window get their candidates: a drop, the  *)
(* resolve pass behind it, the show picker of a group, and the edit pane   *)
(* (gui/orchestrator.py, gui/models.py, gui/main_window.py,                *)
(* gui/edit_pane.py, gui/show_anchor_picker.py).                           *)
(*                                                                         *)
(* All of it runs on the window's thread, so a handler is one step; what   *)
(* it can meet is TMDB failing at any of its calls, and handlers coming in *)
(* any order.  TMDB's answers are constants, and a call that fails is in   *)
(* the set `down` of its handler.  How a resolver ranks what it finds is   *)
(* in Resolver, what becomes of the candidates in CollisionPlan.  A        *)
(* candidate carries the seasons whose episodes are in its episode list.   *)
(* No two paths of a drop hold the same file.                              *)
(***************************************************************************)
EXTENDS Naturals, SequencesExt

CONSTANTS
  Roots,        \* paths that can be dropped
  Under,        \* [Roots -> sets of files], disjoint
  Name,         \* [Roots -> names]: the last component of the path
  Kind,         \* [files -> {"movie", "tv", "unknown"}]
  Season,       \* [files -> Nat or NoSeason]: what the parser found
  ShowDir,      \* [files -> names or NoName]: the first directory below the
                \* root that does not look like a season's
  Best,         \* what the resolvers find: [some files and names -> candidates]
  Query,        \* what a user can type
  Variants,     \* cleaned_query_variants: [names and files -> Seq(Query)]
  Found,        \* what search_tv finds: [some queries -> sets of candidates]
  FoundMovies,  \* what search_movie finds
  Aired,        \* [show ids -> sets of seasons that have episodes]
  ImdbHit,      \* what an IMDb id can resolve to: a set of candidates and NoCand
  MaxClicks,    \* bound: handlers run
  NoCand, NoName, NoSeason, NoFile,
  OfApply       \* stands for the errors an apply reported

Files == UNION { Under[r] : r \in Roots }
Ids == DOMAIN Aired

ASSUME AnchoringAssumption ==
  /\ \A q, r \in Roots : q # r => Under[q] \cap Under[r] = {}
  /\ Files \subseteq DOMAIN Kind \cap DOMAIN Season \cap DOMAIN ShowDir
  /\ NoCand \in ImdbHit
  /\ MaxClicks \in Nat

\* What the resolvers and TMDB can offer: only TVDB's come with episodes.
Offered ==
  (Range(Best) \cup (UNION Range(Found)) \cup (UNION Range(FoundMovies)) \cup ImdbHit)
    \ {NoCand}

ASSUME CandidatesAssumption ==
  /\ \A q \in DOMAIN Found : NoCand \notin Found[q]
  /\ \A q \in DOMAIN FoundMovies : NoCand \notin FoundMovies[q]
  /\ \A c \in Offered :
       /\ c = [anchor |-> c.anchor, kind |-> c.kind, id |-> c.id, seasons |-> c.seasons]
       /\ c.anchor = "tmdb" => c.seasons = {}
       /\ c.anchor = "tmdb" /\ c.kind = "tv" => c.id \in Ids /\ NoSeason \notin Aired[c.id]
       /\ \A s \in SUBSET ({1} \cup { Season[f] : f \in Files }) : [c EXCEPT !.seasons = s] # NoCand
  /\ \A f \in Files : \A kind \in {"movie", Kind[f]} :
       NoCand # [anchor |-> "imdb", kind |-> kind, id |-> f, seasons |-> {}]

VARIABLES
  rows,       \* ItemModel: from the files listed to their rows
  errors,     \* _resolve_errors_by_path
  shown,      \* the run report's errors: the last emitted `errors`, or an apply's
  inputRoot,  \* the path parsed last
  picker,     \* the open ShowAnchorPicker, a modal
  pane,       \* the edit pane: its row, its search results
  edited,     \* rows given a candidate of their own since their group got one (history)
  clicks,     \* bound: handlers run
  asked       \* rows whose errors the picker cleared since they were recorded (history)

vars == <<rows, errors, shown, inputRoot, picker, pane, edited, asked, clicks>>

Candidate(anchor, kind, id) == [anchor |-> anchor, kind |-> kind, id |-> id, seasons |-> {}]

Closed == [key |-> NoName, results |-> {}]
Empty == [f \in {} |-> NoFile]

Listed == DOMAIN rows
root(f) == CHOOSE r \in Roots : f \in Under[r]

resolve(key) == IF key \in DOMAIN Best THEN Best[key] ELSE NoCand
search_tv(q) == IF q \in DOMAIN Found THEN Found[q] ELSE {}
search_movie(q) == IF q \in DOMAIN FoundMovies THEN FoundMovies[q] ELSE {}

-----------------------------------------------------------------------------
\* A show's rows are a group by its hint, a movie is one by its path.
group_key(rs, f) == IF Kind[f] = "tv" THEN rs[f].hint ELSE f
_rows_in_group(rs, key) == { f \in DOMAIN rs : group_key(rs, f) = key }

Without(e, F) == [f \in DOMAIN e \ F |-> e[f]]
With(e, F, message) == [f \in DOMAIN e \cup F |-> IF f \in F THEN message ELSE e[f]]

\* The show's own directory, or the input root when there is none.
derive_show_name(f, r) == IF ShowDir[f] # NoName THEN ShowDir[f] ELSE Name[r]

SeasonsOf(F) == { Season[f] : f \in F } \ {NoSeason}
Wanted(seasons) == IF seasons = {} THEN {1} ELSE seasons

\* A season TMDB fails on, or has no episodes of, adds nothing.
_hydrate_seasons(c, seasons, down) ==
  [c EXCEPT !.seasons = { n \in Wanted(seasons) : <<c.id, n>> \notin down /\ n \in Aired[c.id] }]

HydrationFails(c, seasons, down) == \E n \in Wanted(seasons) : <<c.id, n>> \in down

\* The rows a key stands for in a resolve pass, their candidate and their error.
Resolution(key, F, down) ==
  LET best == resolve(key)
      hydrates == Kind[CHOOSE f \in F : TRUE] = "tv" /\ best # NoCand /\ best.anchor = "tmdb"
  IN IF <<"resolve", key>> \in down THEN [cand |-> NoCand, error |-> {"resolve failed"}]
     ELSE IF best = NoCand THEN [cand |-> NoCand, error |-> {"no candidate matched"}]
     ELSE IF ~hydrates THEN [cand |-> best, error |-> {}]
     ELSE [cand |-> _hydrate_seasons(best, SeasonsOf(F), down),
           error |-> IF HydrationFails(best, SeasonsOf(F), down) THEN {"get_season failed"} ELSE {}]

\* Mutant: a row at a time, with the episodes of its own season only.
resolve_rows_Alone(rs, errs, down) ==
  LET of(f) == Resolution(group_key(rs, f), {f}, down)
  IN [rows |-> [f \in DOMAIN rs |-> [rs[f] EXCEPT !.cand = IF of(f).cand = NoCand THEN @ ELSE of(f).cand]],
      errors |-> [f \in DOMAIN rs |-> of(f).error]]

resolve_rows(rs, errs, down) ==
  LET of(f) == Resolution(group_key(rs, f), _rows_in_group(rs, group_key(rs, f)), down)
      failed == { f \in DOMAIN rs : of(f).error # {} }
      kept == Without(errs, DOMAIN rs)
  IN [rows |-> [f \in DOMAIN rs |-> [rs[f] EXCEPT !.cand = IF of(f).cand = NoCand THEN @ ELSE of(f).cand]],
      errors |-> [f \in DOMAIN kept \cup failed |-> IF f \in failed THEN of(f).error ELSE kept[f]]]

\* Calls a resolve pass over F can make.
ResolveCalls(rs) ==
  LET keys == { group_key(rs, f) : f \in DOMAIN rs }
      shows == { Best[k].id : k \in keys \cap DOMAIN Best } \cap Ids
  IN ({"resolve"} \X keys) \cup (shows \X Wanted(SeasonsOf(DOMAIN rs)))

-----------------------------------------------------------------------------
Init ==
  /\ rows = Empty /\ errors = Empty /\ shown = Empty
  /\ inputRoot = NoName
  /\ picker = Closed
  /\ pane = [file |-> NoFile, results |-> {}, for |-> NoFile]
  /\ edited = {} /\ asked = {} /\ clicks = 0

\* Mutant: the hints are filled in before the input root is known.
Drop_Stale(S, last) ==
  LET files == { f \in UNION { Under[r] : r \in S } : Kind[f] # "unknown" }
      hint(f) == IF Kind[f] = "tv" THEN derive_show_name(f, IF inputRoot = NoName THEN last ELSE inputRoot) ELSE NoName
      seated == [f \in files |-> [hint |-> hint(f), cand |-> NoCand]]
  IN /\ picker = Closed
     /\ inputRoot' = last
     /\ \E down \in SUBSET ResolveCalls(seated) :
          LET pass == resolve_rows(seated, errors, down)
          IN rows' = pass.rows /\ errors' = pass.errors /\ shown' = pass.errors
     /\ edited' = {} /\ asked' = {}
     /\ UNCHANGED <<picker, pane>>

\* Paths are parsed one by one, each becoming the input root; then the rows are
\* seated, their hints filled in from the input root, and the pass runs.
Drop(S, last) ==
  LET files == { f \in UNION { Under[r] : r \in S } : Kind[f] # "unknown" }
      hint(f) == IF Kind[f] = "tv" THEN derive_show_name(f, last) ELSE NoName
      seated == [f \in files |-> [hint |-> hint(f), cand |-> NoCand]]
  IN /\ picker = Closed
     /\ inputRoot' = last
     /\ \E down \in SUBSET ResolveCalls(seated) :
          LET pass == resolve_rows(seated, errors, down)
          IN rows' = pass.rows /\ errors' = pass.errors /\ shown' = pass.errors
     /\ edited' = {} /\ asked' = {}
     /\ UNCHANGED <<picker, pane>>

\* The seeded search, then the cleaned variants until one finds something.
on_group_clicked(key) ==
  LET group == _rows_in_group(rows, key)
      queries == Variants[key]
      cleared == Without(errors, group)
  IN /\ picker = Closed
     /\ group # {}
     /\ \E down \in SUBSET Range(queries) :
          LET hits == { i \in DOMAIN queries : queries[i] \notin down /\ search_tv(queries[i]) # {} }
              told == IF queries # <<>> /\ queries[1] \in down THEN With(cleared, group, {"search_tv failed"})
                      ELSE cleared
          IN /\ \/ hits = {} /\ picker' = [key |-> key, results |-> {}]
                \/ \E hit \in hits : /\ \A other \in hits : hit <= other
                                    /\ picker' = [key |-> key, results |-> search_tv(queries[hit])]
             /\ errors' = told /\ shown' = told
     /\ asked' = asked \cup group
     /\ UNCHANGED <<rows, inputRoot, pane, edited>>

on_picker_search(q) ==
  LET group == _rows_in_group(rows, picker.key)
      cleared == Without(errors, group)
  IN /\ picker # Closed
     /\ \/ picker' = [picker EXCEPT !.results = search_tv(q)] /\ errors' = cleared
        \/ picker' = [picker EXCEPT !.results = {}] /\ errors' = With(cleared, group, {"search_tv failed"})
     /\ shown' = errors'
     /\ asked' = asked \cup group
     /\ UNCHANGED <<rows, inputRoot, pane, edited>>

\* Mutant: the errors of the group are cleared after the seasons are fetched.
on_show_chosen_Late(c) ==
  LET group == _rows_in_group(rows, picker.key)
      seasons == SeasonsOf(group)
  IN /\ picker # Closed
     /\ c \in picker.results
     /\ \E down \in SUBSET ({c.id} \X Wanted(seasons)) :
          rows' = [f \in Listed |-> IF f \in group THEN [rows[f] EXCEPT !.cand = _hydrate_seasons(c, seasons, down)]
                                    ELSE rows[f]]
     /\ errors' = Without(errors, group) /\ shown' = errors'
     /\ picker' = Closed
     /\ edited' = edited \ group /\ asked' = asked \ group
     /\ UNCHANGED <<inputRoot, pane>>

on_show_chosen(c) ==
  LET group == _rows_in_group(rows, picker.key)
      seasons == SeasonsOf(group)
      cleared == Without(errors, group)
  IN /\ picker # Closed
     /\ c \in picker.results
     /\ \E down \in SUBSET ({c.id} \X Wanted(seasons)) :
          /\ rows' = [f \in Listed |-> IF f \in group THEN [rows[f] EXCEPT !.cand = _hydrate_seasons(c, seasons, down)]
                                       ELSE rows[f]]
          /\ errors' = IF HydrationFails(c, seasons, down) THEN With(cleared, group, {"get_season failed"})
                       ELSE cleared
     /\ shown' = errors'
     /\ picker' = Closed
     /\ edited' = edited \ group /\ asked' = asked \ group
     /\ UNCHANGED <<inputRoot, pane>>

\* The group keeps what it had; its errors are gone from the list.
PickerCancelled ==
  /\ picker # Closed
  /\ picker' = Closed
  /\ UNCHANGED <<rows, errors, shown, inputRoot, pane, edited, asked>>

-----------------------------------------------------------------------------
\* Mutant: the results of the row shown before stay in the list.
load_row_Keeps(f) ==
  /\ picker = Closed
  /\ f \in Listed
  /\ pane' = [pane EXCEPT !.file = f]
  /\ UNCHANGED <<rows, errors, shown, inputRoot, picker, edited, asked>>

load_row(f) ==
  /\ picker = Closed
  /\ f \in Listed
  /\ pane' = [file |-> f, results |-> {}, for |-> NoFile]
  /\ UNCHANGED <<rows, errors, shown, inputRoot, picker, edited, asked>>

\* Movies and shows; a search that fails finds nothing and tells nobody.  The
\* pane may show a file that the last drop took from the list.
on_tmdb_search(q) ==
  /\ picker = Closed
  /\ pane.file \in Listed
  /\ \E down \in SUBSET {"movie", "tv"} :
       pane' = [pane EXCEPT !.results = (IF "movie" \in down THEN {} ELSE search_movie(q))
                                        \cup (IF "tv" \in down THEN {} ELSE search_tv(q)),
                            !.for = pane.file]
  /\ UNCHANGED <<rows, errors, shown, inputRoot, picker, edited, asked>>

\* The row takes the result as it is, without episodes; its error stays.
_on_candidate_chosen(c) ==
  /\ picker = Closed
  /\ c \in pane.results
  /\ pane.file \in Listed
  /\ rows' = [rows EXCEPT ![pane.file].cand = c]
  /\ edited' = edited \cup {pane.file}
  /\ UNCHANGED <<errors, shown, inputRoot, picker, pane, asked>>

\* From the pane or from the row's menu.  What is not found is an anchor of its own.
on_imdb_resolve(f) ==
  LET kind == IF Kind[f] = "unknown" THEN "movie" ELSE Kind[f]
      season == {Season[f]} \ {NoSeason}
      cleared == Without(errors, {f})
      settle(c, e) == rows' = [rows EXCEPT ![f].cand = c] /\ errors' = e
  IN /\ picker = Closed
     /\ f \in Listed
     /\ \E hit \in ImdbHit :
          \/ hit = NoCand /\ settle(Candidate("imdb", kind, f), cleared)
          \/ hit # NoCand /\ hit.kind = "movie" /\ settle(hit, cleared)
          \/ /\ hit # NoCand /\ hit.kind = "tv"
             /\ \E down \in SUBSET ({hit.id} \X Wanted(season)) :
                  settle(_hydrate_seasons(hit, season, down),
                         IF HydrationFails(hit, season, down) THEN With(cleared, {f}, {"get_season failed"})
                         ELSE cleared)
     /\ shown' = errors'
     /\ edited' = edited \cup {f} /\ asked' = asked \ {f}
     /\ UNCHANGED <<inputRoot, picker, pane>>

\* An apply's report takes the place of the errors shown.
set_report ==
  /\ picker = Closed
  /\ Listed # {}
  /\ shown' = OfApply
  /\ UNCHANGED <<rows, errors, inputRoot, picker, pane, edited, asked>>

Handler ==
  \/ \E S \in (SUBSET Roots) \ {{}} : \E last \in S : Drop(S, last)
  \/ \E f \in Listed : on_group_clicked(group_key(rows, f))
  \/ \E q \in Query : on_picker_search(q) \/ on_tmdb_search(q)
  \/ \E c \in picker.results : on_show_chosen(c)
  \/ PickerCancelled
  \/ \E f \in Files : load_row(f) \/ on_imdb_resolve(f)
  \/ \E c \in pane.results : _on_candidate_chosen(c)
  \/ set_report

Next == clicks < MaxClicks /\ clicks' = clicks + 1 /\ Handler

Spec == Init /\ [][Next]_vars

-----------------------------------------------------------------------------
\* A row that will not be matched as it should be: it has no candidate, or its
\* show carries episodes and those of its season, which TMDB has, are missing,
\* so that the planner matches its title against other seasons.
Troubled(f) ==
  LET c == rows[f].cand IN
  \/ c = NoCand
  \/ /\ c.kind = "tv" /\ c.anchor = "tmdb"
     /\ c.seasons # {}
     /\ Season[f] \in Aired[c.id] \ c.seasons

\* The errors pane names every row that a resolver left in trouble, whichever
\* handler did and whatever failed, until the user opens the picker of its
\* group, which clears them, or an apply puts its own report there: no miss is
\* silent (orchestrator.py:226-234, 332-350).
NoSilentMiss ==
  shown # OfApply => \A f \in Listed \ asked : Troubled(f) => f \in DOMAIN shown

\* All rows of a show carry the one candidate, with the same episodes, unless
\* the user has given a row another since (orchestrator.py:262-280, 669-676).
OneShowPerGroup ==
  \A f, g \in Listed \ edited : group_key(rows, f) = group_key(rows, g) => rows[f].cand = rows[g].cand

\* What the edit pane lists, and would put on the row it shows, was searched
\* for that row, across clicks, drops and searches (edit_pane.py:187-221).
PaneShowsItsRow == pane.results # {} => pane.for = pane.file

\* The episodes of the path dropped last are named after that path, or after
\* the directory they are in below it, whatever was dropped before: hints come
\* from a root that each parse overwrites (orchestrator.py:729-740, app.py:152-157).
\* The other paths of a drop have only their directories to be told apart by.
HintIsOwn ==
  \A f \in Listed : Kind[f] = "tv" /\ (root(f) = inputRoot \/ ShowDir[f] # NoName) =>
    rows[f].hint = derive_show_name(f, root(f))
=============================================================================
