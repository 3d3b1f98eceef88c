------------------------- MODULE OrchestratorProofs -------------------------
(***************************************************************************)
(* Theorems about the Qt window's orchestrator: how the rows get their     *)
(* candidates (Anchoring), for any files, any paths dropped, any answers   *)
(* of TMDB and any failures of it; and the plans made of them              *)
(* (CollisionPlan), for any number of rows, any names and any edits.       *)
(***************************************************************************)
EXTENDS Anchoring, CollisionPlan, FiniteSetTheorems, TLAPS

\* Rows and the pane are records of their own, and a drop's hints are its own.
Shape ==
  /\ rows = [f \in Listed |-> [hint |-> rows[f].hint, cand |-> rows[f].cand]]
  /\ pane = [file |-> pane.file, results |-> pane.results, for |-> pane.for]

\* Rows of one group have one candidate.
PerGroup(rs) ==
  \A f, g \in DOMAIN rs : group_key(rs, f) = group_key(rs, g) => rs[f].cand = rs[g].cand

IInv == Shape /\ OneShowPerGroup /\ PaneShowsItsRow /\ HintIsOwn

-----------------------------------------------------------------------------
\* A resolve pass gives rows of one group one candidate, and leaves their hints.
LEMMA PassIsPerGroup ==
  ASSUME NEW F, NEW H, NEW errs, NEW down,
         NEW seated, seated = [f \in F |-> [hint |-> H[f], cand |-> NoCand]],
         NEW new, new = resolve_rows(seated, errs, down).rows
  PROVE  /\ new = [f \in F |-> [hint |-> H[f], cand |-> new[f].cand]]
         /\ PerGroup(new)
<1> DEFINE of(f) == Resolution(group_key(seated, f), _rows_in_group(seated, group_key(seated, f)), down)
<1>1. new = [f \in DOMAIN seated |->
               [seated[f] EXCEPT !.cand = IF of(f).cand = NoCand THEN @ ELSE of(f).cand]]
  BY DEF resolve_rows
<1>2. new = [f \in F |-> [hint |-> H[f], cand |-> of(f).cand]]
  <2> HIDE DEF of
  <2> QED BY <1>1
<1>3. \A f \in F : group_key(new, f) = group_key(seated, f)
  BY <1>2 DEF group_key
<1>4. ASSUME NEW f \in F, NEW g \in F, group_key(new, f) = group_key(new, g)
      PROVE  new[f].cand = new[g].cand
  <2>1. of(f) = of(g)
    BY <1>3, <1>4
  <2> HIDE DEF of
  <2> QED BY <1>2, <2>1
<1> HIDE DEF of
<1> QED BY <1>2, <1>4 DEF PerGroup

\* Rows that are given a candidate keep their hints, and so their groups.
LEMMA HintsStay ==
  ASSUME Shape, NEW G, NEW c,
         rows' = [f \in Listed |-> IF f \in G THEN [rows[f] EXCEPT !.cand = c] ELSE rows[f]]
  PROVE  /\ Listed' = Listed
         /\ \A f \in Listed : rows'[f] = [hint |-> rows[f].hint, cand |-> rows'[f].cand]
         /\ \A f \in Listed : rows'[f].cand = IF f \in G THEN c ELSE rows[f].cand
         /\ \A f \in Listed : group_key(rows', f) = group_key(rows, f)
<1>1. Listed' = Listed /\ DOMAIN rows' = Listed
  BY DEF Listed
<1>2. \A f \in Listed : rows[f] = [hint |-> rows[f].hint, cand |-> rows[f].cand]
  BY DEF Shape
<1>3. \A f \in Listed : rows'[f] = [hint |-> rows[f].hint, cand |-> IF f \in G THEN c ELSE rows[f].cand]
  <2> SUFFICES ASSUME NEW f \in Listed
               PROVE  rows'[f] = [hint |-> rows[f].hint, cand |-> IF f \in G THEN c ELSE rows[f].cand]
    OBVIOUS
  <2>1. rows'[f] = IF f \in G THEN [rows[f] EXCEPT !.cand = c] ELSE rows[f]
    OBVIOUS
  <2>2. PICK h, k : rows[f] = [hint |-> h, cand |-> k]
    BY <1>2
  <2>3. [rows[f] EXCEPT !.cand = c] = [hint |-> h, cand |-> c]
    BY <2>2
  <2> QED BY <2>1, <2>2, <2>3
<1> QED BY <1>1, <1>3 DEF group_key

\* Giving a candidate to a whole group, or to one row the user meant alone.
LEMMA GivesCandidate ==
  ASSUME IInv, NEW G, NEW c,
         rows' = [f \in Listed |-> IF f \in G THEN [rows[f] EXCEPT !.cand = c] ELSE rows[f]],
         UNCHANGED <<inputRoot, pane>>,
         \/ edited' = edited \cup G
         \/ edited' = edited \ G /\ \E key : G = _rows_in_group(rows, key)
  PROVE  IInv'
<1> USE DEF IInv
<1>1. Listed' = Listed
  BY HintsStay
<1>2. \A f \in Listed : rows'[f] = [hint |-> rows[f].hint, cand |-> rows'[f].cand]
  BY HintsStay
<1>3. \A f \in Listed : rows'[f].cand = IF f \in G THEN c ELSE rows[f].cand
  BY HintsStay
<1>4. \A f \in Listed : group_key(rows', f) = group_key(rows, f)
  BY HintsStay
<1>5. Shape'
  BY <1>1, <1>2 DEF Shape
<1>6. OneShowPerGroup'
  <2> SUFFICES ASSUME NEW f \in Listed, NEW g \in Listed, f \notin edited', g \notin edited',
                      group_key(rows, f) = group_key(rows, g)
               PROVE  rows'[f].cand = rows'[g].cand
    BY <1>1, <1>4 DEF OneShowPerGroup
  <2>1. CASE edited' = edited \cup G
    BY <1>3, <2>1 DEF OneShowPerGroup
  <2>2. CASE edited' = edited \ G /\ \E key : G = _rows_in_group(rows, key)
    <3>1. f \in G <=> g \in G
      BY <2>2 DEF _rows_in_group, Listed
    <3> QED BY <1>3, <2>2, <3>1 DEF OneShowPerGroup
  <2> QED BY <2>1, <2>2
<1>7. PaneShowsItsRow'
  BY DEF PaneShowsItsRow
<1>8. HintIsOwn'
  BY <1>1, <1>2 DEF HintIsOwn
<1> QED BY <1>5, <1>6, <1>7, <1>8

\* A drop: the rows are new, their hints are of the path parsed last.
LEMMA DropIsOwn ==
  ASSUME IInv, NEW S, NEW last, Drop(S, last)
  PROVE  IInv'
<1> DEFINE F == { f \in UNION { Under[r] : r \in S } : Kind[f] # "unknown" }
           H == [f \in F |-> IF Kind[f] = "tv" THEN derive_show_name(f, last) ELSE NoName]
           seated == [f \in F |-> [hint |-> H[f], cand |-> NoCand]]
<1>1. PICK down : rows' = resolve_rows(seated, errors, down).rows
  BY DEF Drop
<1> HIDE DEF H
<1>0. seated = [f \in F |-> [hint |-> H[f], cand |-> NoCand]]
  OBVIOUS
<1> HIDE DEF F, seated
<1>2. rows' = [f \in F |-> [hint |-> H[f], cand |-> rows'[f].cand]]
  BY <1>0, <1>1, PassIsPerGroup
<1>3. PerGroup(rows')
  BY <1>0, <1>1, PassIsPerGroup
<1>4. Listed' = F /\ \A f \in F : rows'[f].hint = H[f]
  BY <1>2 DEF Listed
<1>5. inputRoot' = last /\ pane' = pane
  BY DEF Drop
<1>6. Shape'
  BY <1>2, <1>4, <1>5 DEF IInv, Shape
<1>7. OneShowPerGroup'
  BY <1>3 DEF PerGroup, OneShowPerGroup, Listed
<1>8. PaneShowsItsRow'
  BY <1>5 DEF IInv, PaneShowsItsRow
<1>9. HintIsOwn'
  BY <1>4, <1>5 DEF H, HintIsOwn, derive_show_name
<1> QED BY <1>6, <1>7, <1>8, <1>9 DEF IInv

-----------------------------------------------------------------------------
LEMMA InitIInv == Init => IInv
BY DEF Init, IInv, Shape, OneShowPerGroup, PaneShowsItsRow, HintIsOwn, Listed, Empty

\* One row is given a candidate, from the pane or by an IMDb id.
LEMMA GivesOne ==
  ASSUME IInv, NEW f \in Listed, NEW c,
         rows' = [rows EXCEPT ![f].cand = c],
         edited' = edited \cup {f},
         UNCHANGED <<inputRoot, pane>>
  PROVE  IInv'
<1>1. rows' = [g \in Listed |-> IF g \in {f} THEN [rows[g] EXCEPT !.cand = c] ELSE rows[g]]
  BY DEF IInv, Shape, Listed
<1> QED BY <1>1, GivesCandidate

LEMMA StepIInv == IInv /\ [Next]_vars => IInv'
<1> SUFFICES ASSUME IInv, [Next]_vars PROVE IInv'
  OBVIOUS
<1>1. ASSUME NEW S, NEW last, Drop(S, last) PROVE IInv'
  BY <1>1, DropIsOwn
<1>2. ASSUME UNCHANGED <<rows, inputRoot, pane, edited>> PROVE IInv'
  BY <1>2 DEF IInv, Shape, OneShowPerGroup, PaneShowsItsRow, HintIsOwn, Listed
<1>3. ASSUME NEW key, on_group_clicked(key) PROVE IInv'
  BY <1>2, <1>3 DEF on_group_clicked
<1>4. ASSUME NEW q, on_picker_search(q) PROVE IInv'
  BY <1>2, <1>4 DEF on_picker_search
<1>5. PickerCancelled \/ set_report \/ UNCHANGED vars => IInv'
  BY <1>2 DEF PickerCancelled, set_report, vars
<1>6. ASSUME UNCHANGED <<rows, inputRoot, edited>>,
             pane' = [file |-> pane'.file, results |-> pane'.results, for |-> pane'.for],
             pane'.results # {} => pane'.for = pane'.file
      PROVE  IInv'
  BY <1>6 DEF IInv, Shape, OneShowPerGroup, PaneShowsItsRow, HintIsOwn, Listed
<1>7. ASSUME NEW f, load_row(f) PROVE IInv'
  BY <1>6, <1>7 DEF load_row
<1>8. ASSUME NEW q, on_tmdb_search(q) PROVE IInv'
  BY <1>6, <1>8 DEF on_tmdb_search, IInv, Shape
<1>9. ASSUME NEW c, on_show_chosen(c) PROVE IInv'
  <2> DEFINE group == _rows_in_group(rows, picker.key)
  <2>1. PICK d : rows' = [f \in Listed |-> IF f \in group THEN [rows[f] EXCEPT !.cand = d] ELSE rows[f]]
    BY <1>9 DEF on_show_chosen
  <2>2. edited' = edited \ group /\ UNCHANGED <<inputRoot, pane>>
    BY <1>9 DEF on_show_chosen
  <2> QED BY <2>1, <2>2, GivesCandidate
<1>10. ASSUME NEW c, _on_candidate_chosen(c) PROVE IInv'
  BY <1>10, GivesOne DEF _on_candidate_chosen
<1>11. ASSUME NEW f, on_imdb_resolve(f) PROVE IInv'
  <2>1. f \in Listed /\ edited' = edited \cup {f} /\ UNCHANGED <<inputRoot, pane>>
    BY <1>11 DEF on_imdb_resolve
  <2>2. PICK c : rows' = [rows EXCEPT ![f].cand = c]
    BY <1>11 DEF on_imdb_resolve
  <2> QED BY <2>1, <2>2, GivesOne
<1> QED
  BY <1>1, <1>3, <1>4, <1>5, <1>7, <1>8, <1>9, <1>10, <1>11 DEF Next, Handler

LEMMA Inductive == Spec => []IInv
BY InitIInv, StepIInv, PTL DEF Spec

\* Whatever fails and in whatever order the handlers come, the rows of a show
\* carry one candidate, except those the user gave another since.
THEOREM GroupsHaveOneShow == Spec => []OneShowPerGroup
<1>1. IInv => OneShowPerGroup
  BY DEF IInv
<1> QED BY Inductive, <1>1, PTL

\* The results in the edit pane were searched for the row it shows.
THEOREM PaneIsOfItsRow == Spec => []PaneShowsItsRow
<1>1. IInv => PaneShowsItsRow
  BY DEF IInv
<1> QED BY Inductive, <1>1, PTL

\* The path dropped last names its own episodes, and a directory of their own
\* those of the others.
THEOREM HintsAreOwn == Spec => []HintIsOwn
<1>1. IInv => HintIsOwn
  BY DEF IInv
<1> QED BY Inductive, <1>1, PTL

-----------------------------------------------------------------------------
(* No silent miss                                                          *)

\* What is in trouble with candidate c.
Trouble(c, f) ==
  \/ c = NoCand
  \/ /\ c.kind = "tv" /\ c.anchor = "tmdb"
     /\ c.seasons # {}
     /\ Season[f] \in Aired[c.id] \ c.seasons

\* The list of errors is complete, what is shown is that list or an apply's, and
\* the picker and the edit pane list only what can be offered.
MissInv ==
  /\ Listed \subseteq Files
  /\ picker = [key |-> picker.key, results |-> picker.results]
  /\ picker.results \subseteq Offered /\ pane.results \subseteq Offered
  /\ shown # OfApply => shown = errors
  /\ \A f \in Listed \ asked : Trouble(rows[f].cand, f) => f \in DOMAIN errors

\* Fetching the seasons of a group leaves a row of it in trouble only by failing.
LEMMA Hydrates ==
  ASSUME NEW F \in SUBSET Files, NEW c \in Offered, NEW down, NEW f \in F,
         Trouble(_hydrate_seasons(c, SeasonsOf(F), down), f)
  PROVE  HydrationFails(c, SeasonsOf(F), down)
<1> DEFINE W == Wanted(SeasonsOf(F))
           s == { n \in W : <<c.id, n>> \notin down /\ n \in Aired[c.id] }
           h == [c EXCEPT !.seasons = s]
<1>1. h = _hydrate_seasons(c, SeasonsOf(F), down)
  BY DEF _hydrate_seasons
<1>2. s \in SUBSET ({1} \cup { Season[g] : g \in Files })
  BY DEF Wanted, SeasonsOf
<1> HIDE DEF s
<1>3. h # NoCand
  BY <1>2, CandidatesAssumption
<1>4. h.kind = c.kind /\ h.anchor = c.anchor /\ h.id = c.id /\ h.seasons = s
  <2>1. c = [anchor |-> c.anchor, kind |-> c.kind, id |-> c.id, seasons |-> c.seasons]
    BY CandidatesAssumption
  <2>2. PICK a, k, i, n : c = [anchor |-> a, kind |-> k, id |-> i, seasons |-> n]
    BY <2>1
  <2> QED BY <2>2
<1> HIDE DEF h
<1>5. c.kind = "tv" /\ c.anchor = "tmdb" /\ Season[f] \in Aired[c.id] \ s
  BY <1>1, <1>3, <1>4 DEF Trouble
<1>6. Season[f] # NoSeason
  BY <1>5, CandidatesAssumption
<1>7. Season[f] \in W
  BY <1>6 DEF SeasonsOf, Wanted
<1> HIDE DEF W
<1>8. <<c.id, Season[f]>> \in down
  BY <1>5, <1>7 DEF s
<1> QED BY <1>7, <1>8 DEF HydrationFails, W

\* What is offered has no episodes of TMDB's, and so is in no trouble as it is.
LEMMA OfferedIsFine ==
  ASSUME NEW c \in Offered, NEW f
  PROVE  ~Trouble(c, f)
<1>1. c # NoCand /\ (c.anchor = "tmdb" => c.seasons = {})
  BY CandidatesAssumption DEF Offered
<1> QED BY <1>1 DEF Trouble

\* A resolution that leaves a row in trouble says so.
LEMMA ResolutionTells ==
  ASSUME NEW F \in SUBSET Files, NEW f \in F, NEW key, NEW down,
         Trouble(Resolution(key, F, down).cand, f)
  PROVE  Resolution(key, F, down).error # {}
<1> DEFINE best == resolve(key)
           hydrates == Kind[CHOOSE g \in F : TRUE] = "tv" /\ best # NoCand /\ best.anchor = "tmdb"
<1>1. CASE <<"resolve", key>> \in down \/ best = NoCand
  BY <1>1 DEF Resolution
<1>2. CASE ~(<<"resolve", key>> \in down) /\ best # NoCand
  <2>1. best \in Offered
    BY <1>2 DEF resolve, Offered, Range
  <2>2. CASE ~hydrates
    <3>1. Resolution(key, F, down).cand = best
      BY <1>2, <2>2 DEF Resolution
    <3> QED BY <2>1, <3>1, OfferedIsFine
  <2>3. CASE hydrates
    <3>1. /\ Resolution(key, F, down).cand = _hydrate_seasons(best, SeasonsOf(F), down)
          /\ Resolution(key, F, down).error =
               IF HydrationFails(best, SeasonsOf(F), down) THEN {"get_season failed"} ELSE {}
      BY <1>2, <2>3 DEF Resolution
    <3> HIDE DEF best
    <3>2. HydrationFails(best, SeasonsOf(F), down)
      BY <2>1, <3>1, Hydrates
    <3> QED BY <3>1, <3>2
  <2> QED BY <2>2, <2>3
<1> QED BY <1>1, <1>2

\* Clearing a set of rows' errors, and giving them one.
LEMMA Clearing ==
  ASSUME NEW e, NEW F, NEW message
  PROVE  /\ DOMAIN Without(e, F) = DOMAIN e \ F
         /\ DOMAIN With(e, F, message) = DOMAIN e \cup F
BY DEF Without, With

\* Rows that are not asked about and are in trouble were recorded by the pass.
LEMMA DropTells ==
  ASSUME IInv, MissInv, NEW S \in SUBSET Roots, NEW last, Drop(S, last)
  PROVE  MissInv'
<1> DEFINE F == { f \in UNION { Under[r] : r \in S } : Kind[f] # "unknown" }
           H == [f \in F |-> IF Kind[f] = "tv" THEN derive_show_name(f, last) ELSE NoName]
           seated == [f \in F |-> [hint |-> H[f], cand |-> NoCand]]
<1>1. PICK down : /\ rows' = resolve_rows(seated, errors, down).rows
                  /\ errors' = resolve_rows(seated, errors, down).errors
                  /\ shown' = errors'
  BY DEF Drop
<1> DEFINE group(f) == _rows_in_group(seated, group_key(seated, f))
           of(f) == Resolution(group_key(seated, f), group(f), down)
<1>2. F \in SUBSET Files
  BY DEF Files
<1> HIDE DEF H
<1>3. DOMAIN seated = F /\ \A f \in F : seated[f] = [hint |-> H[f], cand |-> NoCand]
  OBVIOUS
<1> HIDE DEF F, seated
<1>4. \A f \in F : group(f) \in SUBSET Files /\ f \in group(f)
  BY <1>2, <1>3 DEF _rows_in_group
<1>5. \A f \in F : Trouble(of(f).cand, f) => of(f).error # {}
  BY <1>4, ResolutionTells
<1>6. /\ rows' = [f \in DOMAIN seated |-> [seated[f] EXCEPT !.cand = IF of(f).cand = NoCand THEN @ ELSE of(f).cand]]
      /\ DOMAIN errors' = (DOMAIN Without(errors, DOMAIN seated)) \cup { f \in DOMAIN seated : of(f).error # {} }
  BY <1>1 DEF resolve_rows
<1> HIDE DEF of
<1>7. Listed' = F /\ \A f \in F : rows'[f].cand = of(f).cand
  <2>1. Listed' = F
    BY <1>3, <1>6 DEF Listed
  <2>2. ASSUME NEW f \in F PROVE rows'[f].cand = of(f).cand
    BY <1>3, <1>6
  <2> QED BY <2>1, <2>2
<1>8. \A f \in Listed' : Trouble(rows'[f].cand, f) => f \in DOMAIN errors'
  BY <1>3, <1>5, <1>6, <1>7
<1>9. picker' = picker /\ pane' = pane
  BY DEF Drop
<1> QED BY <1>1, <1>2, <1>7, <1>8, <1>9 DEF MissInv, Trouble

\* Clicks in the picker clear and set the errors of the group they ask about.
LEMMA AsksTell ==
  ASSUME MissInv, NEW group,
         DOMAIN errors \ group \subseteq DOMAIN errors',
         shown' = errors', asked' = asked \cup group, UNCHANGED <<rows, pane>>,
         picker' = [key |-> picker'.key, results |-> picker'.results],
         picker'.results \subseteq Offered
  PROVE  MissInv'
BY DEF MissInv, Listed, Trouble

LEMMA HitsAreOffered == \A c \in ImdbHit : c # NoCand => c \in Offered
BY DEF Offered

LEMMA SearchesOffer ==
  ASSUME NEW q
  PROVE  search_tv(q) \subseteq Offered /\ search_movie(q) \subseteq Offered
<1>1. search_tv(q) \subseteq UNION Range(Found) /\ NoCand \notin search_tv(q)
  BY CandidatesAssumption DEF search_tv, Range
<1>2. search_movie(q) \subseteq UNION Range(FoundMovies) /\ NoCand \notin search_movie(q)
  BY CandidatesAssumption DEF search_movie, Range
<1> QED BY <1>1, <1>2 DEF Offered

\* A show chosen for a group.
LEMMA ChoiceTells ==
  ASSUME IInv, MissInv, NEW c \in picker.results, on_show_chosen(c)
  PROVE  MissInv'
<1> DEFINE group == _rows_in_group(rows, picker.key)
           cleared == Without(errors, group)
<1>1. PICK down :
        /\ rows' = [f \in Listed |-> IF f \in group
                                     THEN [rows[f] EXCEPT !.cand = _hydrate_seasons(c, SeasonsOf(group), down)]
                                     ELSE rows[f]]
        /\ errors' = IF HydrationFails(c, SeasonsOf(group), down)
                     THEN With(cleared, group, {"get_season failed"}) ELSE cleared
  BY DEF on_show_chosen
<1>2. shown' = errors' /\ picker' = Closed /\ asked' = asked \ group /\ pane' = pane
  BY DEF on_show_chosen
<1>3. group \in SUBSET Files /\ c \in Offered
  BY DEF MissInv, _rows_in_group, Listed
<1> HIDE DEF group
<1>4. /\ Listed' = Listed
      /\ \A f \in Listed : rows'[f].cand = IF f \in group THEN _hydrate_seasons(c, SeasonsOf(group), down)
                                           ELSE rows[f].cand
  <2>2. PICK d, G : d = _hydrate_seasons(c, SeasonsOf(group), down) /\ G = group
    OBVIOUS
  <2>3. rows' = [f \in Listed |-> IF f \in G THEN [rows[f] EXCEPT !.cand = d] ELSE rows[f]]
    BY <1>1, <2>2
  <2>4. Shape
    BY DEF IInv
  <2>5. Listed' = Listed
    BY <2>3, <2>4, HintsStay
  <2>6. \A f \in Listed : rows'[f].cand = IF f \in G THEN d ELSE rows[f].cand
    BY <2>3, <2>4, HintsStay
  <2> QED BY <2>2, <2>5, <2>6
<1>d. /\ DOMAIN cleared = DOMAIN errors \ group
      /\ DOMAIN With(cleared, group, {"get_season failed"}) = DOMAIN cleared \cup group
  BY Clearing
<1> HIDE DEF cleared
<1>5. ASSUME NEW f \in Listed, f \notin asked', Trouble(rows'[f].cand, f)
      PROVE  f \in DOMAIN errors'
  <2>1. CASE f \in group
    <3>1. HydrationFails(c, SeasonsOf(group), down)
      BY <1>3, <1>4, <1>5, <2>1, Hydrates
    <3> QED BY <1>1, <1>d, <2>1, <3>1
  <2>2. CASE f \notin group
    <3>1. f \in DOMAIN errors
      BY <1>2, <1>4, <1>5, <2>2 DEF MissInv
    <3> QED BY <1>1, <1>d, <2>2, <3>1
  <2> QED BY <2>1, <2>2
<1> QED BY <1>2, <1>4, <1>5 DEF MissInv, Closed, Trouble

\* One row that is given a candidate.
LEMMA OneTells ==
  ASSUME IInv, MissInv, NEW f \in Listed, NEW c,
         rows' = [rows EXCEPT ![f].cand = c],
         Trouble(c, f) => f \in DOMAIN errors',
         DOMAIN errors \ {f} \subseteq DOMAIN errors',
         shown' # OfApply => shown' = errors',
         asked' \in {asked, asked \ {f}}, UNCHANGED <<picker, pane>>
  PROVE  MissInv'
<1>1. rows' = [g \in Listed |-> IF g \in {f} THEN [rows[g] EXCEPT !.cand = c] ELSE rows[g]]
  BY DEF IInv, Shape, Listed
<1>2. /\ Listed' = Listed
      /\ \A g \in Listed : rows'[g].cand = IF g \in {f} THEN c ELSE rows[g].cand
  BY <1>1, HintsStay DEF IInv
<1>3. \A g \in Listed : g \notin asked' /\ Trouble(rows'[g].cand, g) => g \in DOMAIN errors'
  BY <1>2 DEF MissInv
<1> QED BY <1>2, <1>3 DEF MissInv, Trouble

LEMMA MissInit == Init => MissInv
BY DEF Init, MissInv, Listed, Empty, Closed

LEMMA MissStep == IInv /\ MissInv /\ [Next]_vars => MissInv'
<1> SUFFICES ASSUME IInv, MissInv, [Next]_vars PROVE MissInv'
  OBVIOUS
<1>1. ASSUME NEW key, on_group_clicked(key) PROVE MissInv'
  <2> DEFINE group == _rows_in_group(rows, key)
             cleared == Without(errors, group)
  <2>1. /\ shown' = errors' /\ asked' = asked \cup group /\ UNCHANGED <<rows, pane>>
        /\ errors' = cleared \/ errors' = With(cleared, group, {"search_tv failed"})
        /\ \/ picker' = [key |-> key, results |-> {}]
           \/ \E q : picker' = [key |-> key, results |-> search_tv(q)]
    BY <1>1 DEF on_group_clicked
  <2> HIDE DEF group
  <2>d. /\ DOMAIN cleared = DOMAIN errors \ group
        /\ DOMAIN With(cleared, group, {"search_tv failed"}) = DOMAIN cleared \cup group
    BY Clearing
  <2>2. DOMAIN errors \ group \subseteq DOMAIN errors'
    <3> HIDE DEF cleared
    <3> QED BY <2>1, <2>d
  <2>3. picker' = [key |-> picker'.key, results |-> picker'.results] /\ picker'.results \subseteq Offered
    <3>1. CASE picker' = [key |-> key, results |-> {}]
      BY <3>1
    <3>2. ASSUME NEW q, picker' = [key |-> key, results |-> search_tv(q)]
          PROVE  /\ picker' = [key |-> picker'.key, results |-> picker'.results]
                 /\ picker'.results \subseteq Offered
      BY <3>2, SearchesOffer
    <3> QED BY <2>1, <3>1, <3>2
  <2> QED BY <2>1, <2>2, <2>3, AsksTell
<1>2. ASSUME NEW q, on_picker_search(q) PROVE MissInv'
  <2> DEFINE group == _rows_in_group(rows, picker.key)
             cleared == Without(errors, group)
  <2>1. /\ shown' = errors' /\ asked' = asked \cup group /\ UNCHANGED <<rows, pane>>
        /\ errors' = cleared \/ errors' = With(cleared, group, {"search_tv failed"})
        /\ \/ picker' = [picker EXCEPT !.results = {}]
           \/ picker' = [picker EXCEPT !.results = search_tv(q)]
    BY <1>2 DEF on_picker_search
  <2> HIDE DEF group
  <2>d. /\ DOMAIN cleared = DOMAIN errors \ group
        /\ DOMAIN With(cleared, group, {"search_tv failed"}) = DOMAIN cleared \cup group
    BY Clearing
  <2>2. DOMAIN errors \ group \subseteq DOMAIN errors'
    <3> HIDE DEF cleared
    <3> QED BY <2>1, <2>d
  <2>3. picker' = [key |-> picker'.key, results |-> picker'.results] /\ picker'.results \subseteq Offered
    <3>1. PICK k, r : picker = [key |-> k, results |-> r]
      BY DEF MissInv
    <3> QED BY <2>1, <3>1, SearchesOffer
  <2> QED BY <2>1, <2>2, <2>3, AsksTell
<1>3. ASSUME UNCHANGED <<rows, errors, asked>>, shown' \in {shown, OfApply},
             picker' \in {picker, Closed}, pane'.results \subseteq Offered
      PROVE  MissInv'
  BY <1>3 DEF MissInv, Listed, Closed, Trouble
<1>4. PickerCancelled \/ set_report \/ UNCHANGED vars => MissInv'
  BY <1>3 DEF PickerCancelled, set_report, vars, MissInv
<1>5. ASSUME NEW f, load_row(f) PROVE MissInv'
  BY <1>3, <1>5 DEF load_row
<1>6. ASSUME NEW q, on_tmdb_search(q) PROVE MissInv'
  <2>1. pane'.results \subseteq Offered
    <3>1. PICK a, b, d : pane = [file |-> a, results |-> b, for |-> d]
      BY DEF IInv, Shape
    <3>2. PICK found : /\ found \subseteq search_movie(q) \cup search_tv(q)
                       /\ pane' = [pane EXCEPT !.results = found, !.for = pane.file]
      BY <1>6 DEF on_tmdb_search
    <3> QED BY <3>1, <3>2, SearchesOffer
  <2> QED BY <1>3, <1>6, <2>1 DEF on_tmdb_search
<1>7. ASSUME NEW c, _on_candidate_chosen(c) PROVE MissInv'
  <2>1. c \in Offered /\ pane.file \in Listed
    BY <1>7 DEF _on_candidate_chosen, MissInv
  <2>2. ~Trouble(c, pane.file)
    BY <2>1, OfferedIsFine
  <2> QED BY <1>7, <2>1, <2>2, OneTells DEF _on_candidate_chosen, MissInv
<1>8. ASSUME NEW f, on_imdb_resolve(f) PROVE MissInv'
  <2> DEFINE season == {Season[f]} \ {NoSeason}
             cleared == Without(errors, {f})
  <2>1. f \in Listed /\ f \in Files /\ shown' = errors' /\ asked' = asked \ {f} /\ UNCHANGED <<picker, pane>>
    BY <1>8 DEF on_imdb_resolve, MissInv
  <2>2. season = SeasonsOf({f})
    BY DEF SeasonsOf
  <2>3. PICK c, e : /\ rows' = [rows EXCEPT ![f].cand = c] /\ errors' = e
                    /\ DOMAIN errors \ {f} \subseteq DOMAIN e
                    /\ Trouble(c, f) => f \in DOMAIN e
    <3>d. /\ DOMAIN cleared = DOMAIN errors \ {f}
          /\ DOMAIN With(cleared, {f}, {"get_season failed"}) = DOMAIN cleared \cup {f}
      BY Clearing
    <3> DEFINE kind == IF Kind[f] = "unknown" THEN "movie" ELSE Kind[f]
    <3>1. PICK hit \in ImdbHit :
            \/ /\ hit = NoCand /\ rows' = [rows EXCEPT ![f].cand = Candidate("imdb", kind, f)]
               /\ errors' = cleared
            \/ hit # NoCand /\ hit.kind = "movie" /\ rows' = [rows EXCEPT ![f].cand = hit] /\ errors' = cleared
            \/ /\ hit # NoCand /\ hit.kind = "tv"
               /\ \E down \in SUBSET ({hit.id} \X Wanted(season)) :
                    /\ rows' = [rows EXCEPT ![f].cand = _hydrate_seasons(hit, season, down)]
                    /\ errors' = IF HydrationFails(hit, season, down) THEN With(cleared, {f}, {"get_season failed"})
                                 ELSE cleared
      BY <1>8 DEF on_imdb_resolve
    <3>2. CASE hit = NoCand
      <4>1. Candidate("imdb", kind, f) # NoCand /\ Candidate("imdb", kind, f).anchor = "imdb"
        BY <2>1, CandidatesAssumption DEF Candidate
      <4>2. ~Trouble(Candidate("imdb", kind, f), f)
        BY <4>1 DEF Trouble
      <4> HIDE DEF cleared, kind
      <4> QED BY <3>1, <3>2, <3>d, <4>2
    <3>3. CASE hit # NoCand /\ errors' = cleared /\ rows' = [rows EXCEPT ![f].cand = hit]
      <4>1. ~Trouble(hit, f)
        <5>1. hit \in Offered
          BY <3>3, HitsAreOffered
        <5> QED BY <5>1, OfferedIsFine
      <4> HIDE DEF cleared
      <4> QED BY <3>3, <3>d, <4>1
    <3>4. ASSUME hit # NoCand, NEW down,
                 rows' = [rows EXCEPT ![f].cand = _hydrate_seasons(hit, season, down)],
                 errors' = IF HydrationFails(hit, season, down) THEN With(cleared, {f}, {"get_season failed"})
                           ELSE cleared
          PROVE  /\ DOMAIN errors \ {f} \subseteq DOMAIN errors'
                 /\ Trouble(_hydrate_seasons(hit, season, down), f) => f \in DOMAIN errors'
      <4>1. Trouble(_hydrate_seasons(hit, season, down), f) => HydrationFails(hit, season, down)
        <5>1. hit \in Offered
          BY <3>4, HitsAreOffered
        <5>2. {f} \in SUBSET Files /\ f \in {f}
          BY <2>1
        <5> HIDE DEF season
        <5> QED BY <2>2, <5>1, <5>2, Hydrates
      <4> HIDE DEF season, cleared
      <4> QED BY <3>4, <3>d, <4>1
    <3> HIDE DEF season, cleared, kind
    <3> QED BY <3>1, <3>2, <3>3, <3>4
  <2> QED BY <2>1, <2>3, OneTells
<1> QED
  BY <1>1, <1>2, <1>4, <1>5, <1>6, <1>7, <1>8, DropTells, ChoiceTells DEF Next, Handler

\* Whatever fails and in whatever order the handlers come, a row left without
\* the candidate or the season it should have is in the errors shown, until the
\* user asks about its group or an apply reports.
THEOREM MissesAreTold == Spec => []NoSilentMiss
<1>1. MissInv => NoSilentMiss
  BY DEF MissInv, NoSilentMiss, Troubled, Trouble
<1> QED BY InitIInv, StepIInv, MissInit, MissStep, <1>1, PTL DEF Spec

-----------------------------------------------------------------------------
(* Collision detection                                                     *)

\* The clean half of a plan is part of it.
LEMMA CleanPart ==
  ASSUME NEW ops
  PROVE  /\ DOMAIN Clean(ops) = Alone(ops)
         /\ Alone(ops) \subseteq DOMAIN ops
         /\ \A r \in Alone(ops) : Clean(ops)[r] = ops[r]
BY DEF Clean, Alone, Restrict

\* detect_collisions leaves no two ops with one target.
LEMMA CleanInjective ==
  ASSUME NEW ops, NEW r \in DOMAIN Clean(ops), NEW s \in DOMAIN Clean(ops),
         Clean(ops)[r] = Clean(ops)[s]
  PROVE  r = s
<1>1. r \in Alone(ops) /\ s \in DOMAIN ops /\ ops[s] = ops[r]
  BY CleanPart
<1> QED BY <1>1 DEF Alone

\* The targets that collide are targets of the plan.
LEMMA CollisionsRendered == Collisions(RawOps) \subseteq Rendered
BY DEF Collisions, RawOps, Placed

\* A place counts rows, so it is one of their numbers.
LEMMA PlaceInRows ==
  ASSUME NEW ops, DOMAIN ops \subseteq Rows, NEW r \in DOMAIN ops
  PROVE  Place(ops, r) \in Rows
<1> DEFINE S == { s \in Sources(ops, ops[r]) : s <= r }
<1>1. IsFiniteSet(Rows) /\ Cardinality(Rows) = MaxRows
  BY CollisionAssumption, FS_Interval DEF Rows
<1>2. S \subseteq Rows
  BY DEF Sources
<1>3. IsFiniteSet(S) /\ Cardinality(S) <= MaxRows
  BY <1>1, <1>2, FS_Subset
<1>4. Cardinality(S) \in Nat
  BY <1>3, FS_CardinalityType
<1>5. r \in S
  BY DEF Sources, Rows
<1>6. Cardinality(S) # 0
  BY <1>3, <1>5, FS_EmptySet
<1>7. Place(ops, r) = Cardinality(S)
  BY DEF Place
<1> HIDE DEF S
<1> QED BY CollisionAssumption, <1>3, <1>4, <1>6, <1>7 DEF Rows

\* A row that keeps an op goes to its candidate's target, or to that suffixed.
LEMMA ResolvedTargets ==
  ASSUME TypeOK, NEW r \in Kept(RawOps)
  PROVE  /\ r \in Placed
         /\ DOMAIN Resolved(RawOps) = Kept(RawOps)
         /\ Resolved(RawOps)[r] \in {candidate[r]} \cup
                                    { Suffixed(candidate[r], k) : k \in 2 .. MaxRows }
         /\ Resolved(RawOps)[r] \in Target
<1>1. r \in Placed /\ DOMAIN RawOps \subseteq Rows /\ RawOps[r] = candidate[r]
  BY DEF Kept, RawOps, Placed
<1>2. Place(RawOps, r) \in Rows
  BY <1>1, PlaceInRows DEF RawOps
<1>3. candidate[r] \in Rendered
  BY <1>1 DEF Placed
<1>4. Place(RawOps, r) = 1 \/ Place(RawOps, r) \in 2 .. MaxRows
  BY CollisionAssumption, <1>2 DEF Rows
<1>5. CASE Place(RawOps, r) = 1
  BY <1>1, <1>3, <1>5 DEF Resolved, Target
<1>6. CASE Place(RawOps, r) \in 2 .. MaxRows
  BY <1>1, <1>2, <1>3, <1>6 DEF Resolved, Target
<1> QED BY <1>4, <1>5, <1>6

-----------------------------------------------------------------------------
(* Types                                                                   *)

LEMMA TypeInit == ReviewInit => TypeOK
BY CollisionAssumption, DropsAssumption DEF ReviewInit, TypeOK

\* Stamping a plan over the proposals keeps them targets.
LEMMA StampedType ==
  ASSUME TypeOK, NEW ops, \A r \in DOMAIN ops : ops[r] \in Target
  PROVE  Stamped(ops) \in [Rows -> Target \cup {NoTarget}]
BY DEF Stamped, TypeOK

LEMMA FreshType ==
  Fresh(RawOps) \subseteq [target : Rendered, sources : SUBSET Rows, action : Action \cup {"none"}]
<1> SUFFICES ASSUME NEW t \in Collisions(RawOps)
             PROVE  [target |-> t, sources |-> Sources(RawOps, t), action |-> "none"]
                      \in [target : Rendered, sources : SUBSET Rows, action : Action \cup {"none"}]
  BY DEF Fresh
<1>1. t \in Rendered
  BY CollisionsRendered
<1>2. Sources(RawOps, t) \in SUBSET Rows
  BY DEF Sources, RawOps, Placed
<1> QED BY <1>1, <1>2

LEMMA RawType ==
  /\ \A r \in DOMAIN Clean(RawOps) : Clean(RawOps)[r] \in Target
  /\ TypeOK => \A r \in DOMAIN Clean(Resolved(RawOps)) :
                 r \in Rows /\ Clean(Resolved(RawOps))[r] \in Target
<1>1. ASSUME NEW r \in DOMAIN Clean(RawOps)
      PROVE  Clean(RawOps)[r] \in Target
  BY <1>1, CleanPart DEF RawOps, Placed, Target
<1>2. ASSUME TypeOK, NEW r \in DOMAIN Clean(Resolved(RawOps))
      PROVE  r \in Rows /\ Clean(Resolved(RawOps))[r] \in Target
  <2>1. r \in Kept(RawOps) /\ Clean(Resolved(RawOps))[r] = Resolved(RawOps)[r]
    BY CleanPart DEF Resolved
  <2> QED BY <1>2, <2>1, ResolvedTargets DEF Placed
<1> QED BY <1>1, <1>2

LEMMA TypeStep == TypeOK /\ [ReviewNext]_reviewVars => TypeOK'
<1> SUFFICES ASSUME TypeOK, [ReviewNext]_reviewVars PROVE TypeOK'
  OBVIOUS
<1> USE CollisionAssumption, DropsAssumption
<1>1. ASSUME NEW r \in Rows, NEW c \in RowCandidate, Edit(r, c) PROVE TypeOK'
  BY <1>1 DEF Edit, Edits, TypeOK
<1>2. ASSUME NEW r \in Rows, ToggleSkip(r) PROVE TypeOK'
  BY <1>2 DEF ToggleSkip, Edits, TypeOK
<1>3. ASSUME NEW cs \in Drops, DropPaths(cs) PROVE TypeOK'
  BY <1>3 DEF DropPaths, Edits, TypeOK
<1>4. CASE Preview
  <2>1. proposed' \in [Rows -> Target \cup {NoTarget}]
    BY <1>4, RawType, StampedType DEF Preview
  <2> QED BY <1>4, <2>1, FreshType DEF Preview, Edits, TypeOK
<1>5. ASSUME NEW it \in items, NEW action \in Action, Pick(it, action) PROVE TypeOK'
  <2>1. it.target \in Rendered
        /\ [it EXCEPT !.action = action] \in
             [target : Rendered, sources : SUBSET Rows, action : Action \cup {"none"}]
    BY DEF TypeOK
  <2> QED BY <1>5, <2>1 DEF Pick, TypeOK
<1>6. ASSUME NEW it \in items, RequestReanchor(it) PROVE TypeOK'
  <2>1. it.sources \subseteq Rows
    BY DEF TypeOK
  <2> QED BY <1>6, <2>1 DEF RequestReanchor, TypeOK
<1>7. CASE ApplyBlocked
  <2>1. proposed' \in [Rows -> Target \cup {NoTarget}]
    BY <1>7, RawType, StampedType DEF ApplyBlocked
  <2> QED BY <1>7, <2>1, FreshType DEF ApplyBlocked, TypeOK
<1>8. CASE ApplyHandsOver
  <2>1. /\ plan' = Clean(Resolved(RawOps))
        /\ \A r \in DOMAIN plan' : r \in Rows /\ plan'[r] \in Target
    BY <1>8, RawType DEF ApplyHandsOver
  <2>2. proposed' \in [Rows -> Target \cup {NoTarget}]
    BY <1>8, <2>1, StampedType DEF ApplyHandsOver
  <2>3. plan' \in [DOMAIN plan' -> Target]
    BY <2>1 DEF Clean, Restrict
  <2> QED BY <1>8, <2>1, <2>2, <2>3 DEF ApplyHandsOver, TypeOK
<1>9. CASE UNCHANGED reviewVars
  BY <1>9 DEF reviewVars, TypeOK
<1> QED BY <1>1, <1>2, <1>3, <1>4, <1>5, <1>6, <1>7, <1>8, <1>9 DEF ReviewNext

\* Rows, proposals, review list and plan keep their types, for any drops.
THEOREM TypeCorrect == ReviewSpec => []TypeOK
<1>1. ReviewInit => TypeOK
  BY TypeInit
<1>2. TypeOK /\ [ReviewNext]_reviewVars => TypeOK'
  BY TypeStep
<1> QED BY <1>1, <1>2, PTL DEF ReviewSpec

-----------------------------------------------------------------------------
(* Plans                                                                   *)

\* No plan ever handed over has two files for one path, whatever suffixes the
\* picks gave and whatever names the other rows have.
THEOREM Injective == ReviewSpec => []PlanIsInjective
<1>1. ReviewInit => PlanIsInjective
  BY DEF ReviewInit, PlanIsInjective
<1>2. PlanIsInjective /\ [ReviewNext]_reviewVars => PlanIsInjective'
  <2> SUFFICES ASSUME PlanIsInjective, [ReviewNext]_reviewVars PROVE PlanIsInjective'
    OBVIOUS
  <2>1. CASE ApplyHandsOver
    BY <2>1, CleanInjective DEF ApplyHandsOver, PlanIsInjective
  <2>2. CASE UNCHANGED plan
    BY <2>2 DEF PlanIsInjective
  <2> QED BY <2>1, <2>2 DEF ReviewNext, reviewVars, Edit, ToggleSkip, DropPaths, Preview, Pick,
                            RequestReanchor, ApplyBlocked
<1> QED BY <1>1, <1>2, PTL DEF ReviewSpec

\* Every plan is made from the rows as they are at the apply: none is skipped,
\* and each goes to its candidate's target or to that with a suffix.
THEOREM FollowsRows == ReviewSpec => PlanFollowsRows
<1>1. TypeOK /\ [ReviewNext]_reviewVars =>
        [ApplyHandsOver =>
           \A r \in DOMAIN plan' :
             /\ r \notin skip
             /\ plan'[r] \in {candidate[r]} \cup
                             { Suffixed(candidate[r], k) : k \in 2 .. MaxRows }]_reviewVars
  <2> SUFFICES ASSUME TypeOK, ApplyHandsOver, NEW r \in DOMAIN plan'
               PROVE  /\ r \notin skip
                      /\ plan'[r] \in {candidate[r]} \cup
                                      { Suffixed(candidate[r], k) : k \in 2 .. MaxRows }
    OBVIOUS
  <2>1. r \in Kept(RawOps) /\ plan'[r] = Resolved(RawOps)[r]
    BY CleanPart DEF ApplyHandsOver, Resolved
  <2> QED BY <2>1, ResolvedTargets DEF Placed
<1>2. ReviewSpec => []TypeOK
  BY TypeCorrect
<1> QED BY <1>1, <1>2, PTL DEF ReviewSpec, PlanFollowsRows

\* What the review list says was picked is what the user has answered since it
\* was filled.
Answers == { it.target : it \in { i \in items : i.action # "none" } } \subseteq answered

\* An item of the list shows every row that would go to its target, but those
\* changed since it was made.
Shown ==
  \A it \in items, r \in Placed \ changed : candidate[r] = it.target => r \in it.sources

\* Rows left alone are placed as they were, and a list filled anew shows them.
LEMMA ShownStays ==
  ASSUME TypeOK, Shown, [ReviewNext]_reviewVars
  PROVE  Shown'
<1> SUFFICES ASSUME NEW it \in items', NEW r \in (Placed \ changed)', candidate'[r] = it.target
             PROVE  r \in it.sources
  BY DEF Shown
<1>1. r \in Rows
  BY DEF Placed
<1>2. CASE \/ \E q \in Rows, c \in RowCandidate : Edit(q, c)
           \/ \E q \in Rows : ToggleSkip(q)
           \/ \E cs \in Drops : DropPaths(cs)
           \/ UNCHANGED <<candidate, skip, changed, items>>
  <2>1. it \in items /\ r \in Placed \ changed /\ candidate[r] = candidate'[r]
    <3>1. CASE \E q \in Rows, c \in RowCandidate : Edit(q, c)
      BY <1>1, <3>1 DEF Edit, Placed, TypeOK
    <3>2. CASE \E q \in Rows : ToggleSkip(q)
      BY <1>1, <3>2 DEF ToggleSkip, Placed
    <3>3. CASE \E cs \in Drops : DropPaths(cs)
      BY <1>1, <3>3 DEF DropPaths
    <3>4. CASE UNCHANGED <<candidate, skip, changed, items>>
      BY <3>4 DEF Placed
    <3> QED BY <1>2, <3>1, <3>2, <3>3, <3>4
  <2> QED BY <2>1 DEF Shown
<1>3. CASE Preview \/ ApplyBlocked
  <2>1. it \in Fresh(RawOps) /\ r \in Placed /\ candidate[r] = it.target
    BY <1>3 DEF Preview, ApplyBlocked, Placed
  <2>2. it.sources = Sources(RawOps, it.target)
    BY <2>1 DEF Fresh
  <2> QED BY <2>1, <2>2 DEF Sources, RawOps
<1>4. CASE \E i \in items, action \in Action : Pick(i, action)
  <2>1. PICK i \in items, action \in Action : Pick(i, action)
    BY <1>4
  <2>2. r \in Placed \ changed /\ candidate'[r] = candidate[r]
    BY <2>1 DEF Pick, Placed
  <2>3. it \in items \/ it = [i EXCEPT !.action = action]
    BY <2>1 DEF Pick
  <2>4. [i EXCEPT !.action = action].target = i.target
    BY DEF TypeOK
  <2>5. [i EXCEPT !.action = action].sources = i.sources
    BY DEF TypeOK
  <2> QED BY <2>1, <2>2, <2>3, <2>4, <2>5 DEF Shown
<1>5. CASE ApplyHandsOver
  BY <1>5 DEF ApplyHandsOver
<1> QED BY <1>2, <1>3, <1>4, <1>5 DEF ReviewNext, reviewVars, RequestReanchor

\* A plan is handed over only once the user has answered every target that
\* collides, in the list as it was last filled, whose item showed every source
\* but those changed since.
THEOREM PicksFirst == ReviewSpec => PicksComeFirst
<1>1. ReviewInit => Answers /\ Shown
  BY DEF ReviewInit, Answers, Shown
<1>2. Answers /\ [ReviewNext]_reviewVars => Answers'
  <2> SUFFICES ASSUME Answers, [ReviewNext]_reviewVars PROVE Answers'
    OBVIOUS
  <2>1. ASSUME NEW it \in items, NEW action \in Action, Pick(it, action) PROVE Answers'
    <3> SUFFICES ASSUME NEW i \in items', i.action # "none" PROVE i.target \in answered'
      BY DEF Answers
    <3>1. CASE i \in items
      BY <2>1, <3>1 DEF Pick, Answers
    <3>2. CASE i = [it EXCEPT !.action = action]
      <4>1. i.target = it.target
        BY <3>2
      <4> QED BY <2>1, <4>1 DEF Pick
    <3> QED BY <2>1, <3>1, <3>2 DEF Pick
  <2>2. CASE Preview \/ ApplyBlocked
    BY <2>2 DEF Preview, ApplyBlocked, Fresh, Answers
  <2>3. CASE ApplyHandsOver
    BY <2>3 DEF ApplyHandsOver, Answers
  <2>4. CASE UNCHANGED <<items, answered>>
    BY <2>4 DEF Answers
  <2> QED BY <2>1, <2>2, <2>3, <2>4 DEF ReviewNext, reviewVars, Edit, ToggleSkip, DropPaths, RequestReanchor
<1>3. Answers /\ Shown /\ [ReviewNext]_reviewVars =>
        [ApplyHandsOver =>
           \A t \in Collisions(RawOps) :
             /\ t \in answered
             /\ \E it \in items : /\ it.target = t /\ it.action # "none"
                                  /\ Sources(RawOps, t) \subseteq it.sources \cup changed]_reviewVars
  <2> SUFFICES ASSUME Answers, Shown, ApplyHandsOver, NEW t \in Collisions(RawOps)
               PROVE  /\ t \in answered
                      /\ \E it \in items : /\ it.target = t /\ it.action # "none"
                                           /\ Sources(RawOps, t) \subseteq it.sources \cup changed
    OBVIOUS
  <2>1. ActionFor(t) # "none"
    BY DEF ApplyHandsOver, Unreviewed
  <2>2. PICK it \in items : it.target = t /\ it.action # "none"
    BY <2>1 DEF ActionFor
  <2>3. Sources(RawOps, t) \subseteq it.sources \cup changed
    BY <2>2 DEF Shown, Sources, RawOps
  <2> QED BY <2>2, <2>3 DEF Answers
<1>4. ReviewSpec => []TypeOK
  BY TypeCorrect
<1> QED BY <1>1, <1>2, <1>3, <1>4, ShownStays, PTL DEF ReviewSpec, PicksComeFirst
=============================================================================
