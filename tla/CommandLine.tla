---------------------------- MODULE CommandLine ----------------------------
(***************************************************************************)
(* The commands plan, apply, report and the line-based review              *)
(* (cli/plan_cmd.py, cli/apply_cmd.py, cli/report_cmd.py,                  *)
(* cli/review_cmd.py) over one dropped tree.                               *)
(*                                                                         *)
(* A scene is the tree and the world it is planned in:                     *)
(*   files (in walk order), single (one file was dropped), key and omdb    *)
(*   (configured), tmdb (answers), up (the seasons TMDB answers for),      *)
(*   editions (--apply-editions), reviewed (whether the user reviews it).  *)
(* An apply whose every copy succeeded leaves the library the plan         *)
(* describes, and one of its roots may be dropped in turn.                 *)
(***************************************************************************)
EXTENDS Diagnostics

CONSTANTS
    Scenes,
    Picks,          \* the candidates a user anchors all rows of a kind to
    TypedAnchors,   \* what is typed at the "TMDB id or URL" prompt
    Queries,        \* what is typed at the search prompt
    OwnAnchors      \* the user's own anchors file

ASSUME ScenesAssumption ==
    \A s \in Scenes : s.files \in Seq(ToSet(s.files)) /\ \A f \in ToSet(s.files) : IsName(f.name)

ASSUME PicksAssumption ==
    \A c \in Picks : IsName(c.title) /\ (c.eps = <<>> \/ \E key \in DOMAIN Episodes : c.eps = Episodes[key])

VARIABLES
    scene,
    tree,       \* [files, single]: what is dropped now
    plan,       \* the plan file, or None
    applied,    \* the ops of the plan that was applied, or None
    files,      \* the anchors files there are: the user's own, and those a review saves
    session,    \* the running review, or None
    choice,     \* group key -> the candidate picked for it, and the file it went to
    report      \* the last report, the file and the flags it used, or None

vars == <<scene, tree, plan, applied, files, session, choice, report>>

Paths == {"own", "saved"}
Empty == <<>>
Put(f, x, y) == [z \in DOMAIN f \cup {x} |-> IF z = x THEN y ELSE f[z]]
Drop(f, x) == [z \in DOMAIN f \ {x} |-> f[z]]

Init ==
    /\ scene \in Scenes
    /\ tree = [files |-> scene.files, single |-> scene.single]
    /\ plan = None /\ applied = None
    /\ files = [path \in {"own"} |-> OwnAnchors]
    /\ session = None /\ choice = Empty /\ report = None

Rows == parse_tree(tree.files, tree.single)

-----------------------------------------------------------------------------
(* plan and apply.                                                         *)
\* Without a key nothing is asked; a search TMDB does not answer raises.
Resolver(p) ==
    IF ~scene.key THEN None
    ELSE IF ~scene.tmdb /\ p.title # <<>> THEN Raised
    ELSE resolve(p.kind, p.title, p.year, scene.omdb)

Up == IF scene.key /\ scene.tmdb THEN scene.up ELSE {}

run_plan ==
    /\ session = None /\ plan = None
    /\ plan' = build_plan(Rows, Resolver, Up, scene.editions)
    /\ UNCHANGED <<scene, tree, applied, files, session, choice, report>>

\* The review queues plan the rows with the anchors the user gave them.
PlanPicked(c) ==
    LET media == Media(Rows)
        answer(p) == IF p.kind = c.kind THEN c ELSE IF Resolver(p) = Raised THEN None ELSE Resolver(p)
    IN /\ session = None /\ plan = None /\ applied = None
       /\ plan' = build_plan_from_pairs([i \in DOMAIN media |-> <<media[i], answer(media[i])>>], <<>>, Up, scene.editions)
       /\ UNCHANGED <<scene, tree, applied, files, session, choice, report>>

Targets(ops) ==
    UNION {{ops[i].target} \cup {ops[i].sidecars[j].target : j \in DOMAIN ops[i].sidecars} : i \in DOMAIN ops}

\* run_apply, and then one of the two roots is dropped.
run_apply(root) ==
    LET there == {f \in Targets(plan.ops) : f.root = root}
    IN /\ session = None /\ plan # None /\ applied = None
       /\ there # {}
       /\ tree' = [files |-> SetToSeq(there), single |-> FALSE]
       /\ applied' = plan.ops /\ plan' = None /\ report' = None
       /\ UNCHANGED <<scene, files, session, choice>>

-----------------------------------------------------------------------------
(* report.                                                                 *)
\* --anchors FILE, with --anchor flags over it.
_collect_overrides(path, flags) ==
    merge_overrides(IF path = None THEN NoOverrides ELSE files[path], flags)

run_report(path, flags) ==
    /\ session = None /\ report = None
    /\ scene.key /\ scene.tmdb
    /\ path # None => path \in DOMAIN files
    /\ report' = [of |-> build_report(Rows, _collect_overrides(path, flags), Up), path |-> path, flags |-> flags]
    /\ UNCHANGED <<scene, tree, plan, applied, files, session, choice>>

-----------------------------------------------------------------------------
(* review --simple.                                                        *)
_filter_groups(groups, show) ==
    LET unsure(g) == \E i \in DOMAIN g.rows : g.rows[i].top # None /\ g.rows[i].top.conf < HIGH_CONFIDENCE
    IN Kept(groups, {i \in DOMAIN groups :
               show = "all" \/ groups[i].anchor = None \/ (show = "low-conf" /\ unsure(groups[i]))})

\* --load takes the groups of a file, and leaves its rows where they are.
_preload_state(load) == IF load \in DOMAIN files THEN files[load].groups ELSE Empty

run_review_simple(show, load, save) ==
    LET groups == _filter_groups(build_report(Rows, NoOverrides, Up).groups, show)
    IN /\ session = None /\ scene.key /\ scene.tmdb
       /\ scene.reviewed /\ applied = None /\ plan = None /\ choice = Empty
       /\ groups # <<>>
       /\ session' = [groups |-> groups, at |-> 1, acc |-> _preload_state(load), save |-> save, made |-> {}]
       /\ report' = None
       /\ UNCHANGED <<scene, tree, plan, applied, files, choice>>

Group == session.groups[session.at]

_persist_state(acc) == files' = Put(files, session.save, [groups |-> acc, rows |-> Empty])

\* The end of the queue and q save what has accumulated, if anything has.
Leave ==
    /\ session' = None
    /\ IF session.acc # Empty THEN _persist_state(session.acc) ELSE UNCHANGED files

Stays == <<scene, tree, plan, applied, report>>

\* Enter or a.
Accept ==
    /\ session # None
    /\ IF session.at = Len(session.groups) THEN Leave
       ELSE session' = [session EXCEPT !.at = @ + 1] /\ UNCHANGED files
    /\ UNCHANGED <<Stays, choice>>

Back ==
    /\ session # None /\ session.at > 1
    /\ session' = [session EXCEPT !.at = @ - 1]
    /\ UNCHANGED <<Stays, files, choice>>

Quit == session # None /\ Leave /\ UNCHANGED <<Stays, choice>>

\* k takes back the override of the group; the file is not written.
Skip ==
    LET acc == Drop(session.acc, Group.key)
    IN /\ session # None
       /\ IF session.at < Len(session.groups)
          THEN /\ session' = [session EXCEPT !.at = @ + 1, !.acc = acc, !.made = @ \ {Group.key}]
               /\ UNCHANGED files
          ELSE /\ session' = None
               /\ IF acc # Empty THEN _persist_state(acc) ELSE UNCHANGED files
       /\ choice' = Drop(choice, Group.key)
       /\ UNCHANGED Stays

\* Mutant: every anchor a review gives stays in memory until the end.
AnchoredUnsaved(ref, c) ==
    LET acc == Put(session.acc, Group.key, ref)
    IN /\ UNCHANGED files
       /\ session' = IF session.at = Len(session.groups) THEN None
                     ELSE [session EXCEPT !.at = @ + 1, !.acc = acc, !.made = @ \cup {Group.key}]
       /\ choice' = IF c = None THEN Drop(choice, Group.key) ELSE Put(choice, Group.key, [c |-> c, path |-> session.save])
       /\ UNCHANGED Stays

\* A decision is kept and saved before the next group is shown.
Anchored(ref, c) ==
    LET acc == Put(session.acc, Group.key, ref)
    IN /\ _persist_state(acc)
       /\ session' = IF session.at = Len(session.groups) THEN None
                     ELSE [session EXCEPT !.at = @ + 1, !.acc = acc, !.made = @ \cup {Group.key}]
       /\ choice' = IF c = None THEN Drop(choice, Group.key) ELSE Put(choice, Group.key, [c |-> c, path |-> session.save])
       /\ UNCHANGED Stays

_candidate_to_anchor(c) ==
    [kind |-> c.anchor, item |-> IF c.anchor = "imdb" THEN None ELSE c.kind, id |-> c.id, season |-> None]

\* Mutant: the n-th of the list that starts with the current match.
PickOffByOne(n) ==
    /\ session # None /\ n \in DOMAIN Group.rows[1].alts
    /\ Anchored(_candidate_to_anchor((<<Group.rows[1].top>> \o Group.rows[1].alts)[n]), Group.rows[1].alts[n])

PickAlternative(n) ==
    /\ session # None /\ n \in DOMAIN Group.rows[1].alts
    /\ Anchored(_candidate_to_anchor(Group.rows[1].alts[n]), Group.rows[1].alts[n])

_prompt_for_id(ref) == session # None /\ Anchored(ref, None)

_prompt_for_search(query, n) ==
    LET results == search_pooled(IF Group.kind = "movie" THEN "movie" ELSE "tv", query, None)
    IN /\ session # None /\ n \in DOMAIN results /\ n <= 9
       /\ Anchored(_candidate_to_anchor(results[n]), results[n])

\* The terminal is closed, or a search raises: what was not saved is gone.
Killed ==
    /\ session # None
    /\ session' = None
    /\ UNCHANGED <<Stays, files, choice>>

\* The same inside a write: write_text empties the file before it fills it,
\* and what is left is no JSON.
KilledSaving ==
    /\ session # None
    /\ session' = None
    /\ files' = Drop(files, session.save)
    /\ UNCHANGED <<Stays, choice>>

Keys == \/ Accept \/ Back \/ Quit \/ Skip \/ Killed \/ KilledSaving
        \/ \E n \in 1..TOP_N : PickAlternative(n)
        \/ \E ref \in TypedAnchors : _prompt_for_id(ref)
        \/ \E query \in Queries : \E n \in 1..9 : _prompt_for_search(query, n)

Next ==
    \/ run_plan
    \/ \E c \in Picks : PlanPicked(c)
    \/ \E root \in {"Movies", "TV Shows"} : run_apply(root)
    \/ \E path \in Paths \cup {None} : run_report(path, NoOverrides)
    \/ \E path \in Paths \cup {None} : run_report(path, OwnAnchors)
    \/ \E show \in {"all", "low-conf", "unanchored"}, load \in Paths \cup {None}, save \in Paths :
          run_review_simple(show, load, save)
    \/ Keys

Spec == Init /\ [][Next]_vars

-----------------------------------------------------------------------------
(* Properties.                                                             *)
Ops == IF plan = None THEN {} ELSE ToSet(plan.ops)
Blocked == IF plan = None THEN {} ELSE ToSet(plan.collisions)
RowOf(f) == CHOOSE p \in ToSet(Rows) : p.file = f

\* No other part of the movie is in the tree.
Alone(p) == p.part # None /\ \A q \in ToSet(Rows) \ {p} : q.part = None \/ q.title # p.title \/ q.year # p.year

\* A library the program made is where the program would put it: planned again
\* with the same settings, a file that is taken for what it was taken for the
\* first time stays in its place; but for a part that is the only one of its
\* movie in the library, as a collision or another candidate kept the others
\* out: it is then no part of anything.
StableLibrary ==
    applied # None =>
        \A op \in Ops \cup Blocked : \A before \in ToSet(applied) :
            before.target = op.source /\ before.anchor = op.anchor /\ ~Alone(RowOf(op.source))
            => op.target = op.source

\* Every video of the tree is in the plan exactly once, as an op, in a
\* collision or among the skipped; but for the episodes that have no numbers.
EveryVideoOnce ==
    plan # None =>
        \A p \in ToSet(Rows) :
            p.kind # "unknown" =>
                LET ways == {<<"op", op>> : op \in {o \in Ops : o.source = p.file}}
                            \cup {<<"collision", op>> : op \in {o \in Blocked : o.source = p.file}}
                            \cup {<<"skipped", x>> : x \in {y \in ToSet(plan.skipped) : y[1] = p.file}}
                IN \/ \E way \in ways : ways = {way}
                   \/ ways = {} /\ p.kind = "tv" /\ ~HasNumbers(p)

\* An episode is never given other numbers than its name has unless the title
\* in its name speaks for them, and a special never leaves Season 00.
RightNumbers ==
    \A op \in Ops \cup Blocked :
        op.kind = "tv" =>
            LET p == RowOf(op.source)
                at == Atoms(op.target.name)[First(Atoms(op.target.name), "se")].v
            IN IF is_special(p) THEN at[1] = 0
               ELSE \/ HasNumbers(p) /\ at[1] = p.season /\ at[2] = p.episode
                    \/ \E key \in DOMAIN Episodes : \E i \in DOMAIN Episodes[key] :
                          LET e == Episodes[key][i]
                          IN /\ e.season = at[1] /\ e.episode = at[2]
                             /\ p.eptitle # <<>> /\ token_set_ratio(p.eptitle, Title(e)) >= MIN_TITLE_SCORE_FOR_MATCH

\* Two parts of a movie with different numbers never land on one another.
PartsStayApart ==
    \A a, b \in Ops \cup Blocked :
        LET p == RowOf(a.source)
            q == RowOf(b.source)
        IN p.kind = "movie" /\ q.kind = "movie" /\ p.title = q.title /\ p.title # <<>> /\ p.year = q.year
           /\ p.part # None /\ q.part # None
           => p.part[2] = q.part[2] \/ a.target # b.target

SavedSoFar ==
    session # None =>
        \A key \in session.made :
            /\ session.save \in DOMAIN files
            /\ key \in DOMAIN files[session.save].groups
            /\ files[session.save].groups[key] = session.acc[key]

PicksKept ==
    \A key \in DOMAIN choice :
        LET path == choice[key].path
        IN path \in DOMAIN files =>
              /\ key \in DOMAIN files[path].groups
              /\ files[path].groups[key] = _candidate_to_anchor(choice[key].c)

\* An anchor the user gives is in the file when the next group is shown, and
\* a pick that was not taken back is there after the review, however it ended,
\* unless it ended inside a write and the file is lost. Anchors only: that k
\* took one back is not written (review_cmd.py:253) and may be forgotten.
DecisionsSaved == SavedSoFar /\ PicksKept

\* What was picked in a review is what a report of the same tree with the
\* review's file shows for every row of the group, unless two anchors of the
\* file share an id.
ReplayShowsChoice ==
    report # None /\ report.path # None /\ report.flags = NoOverrides /\ applied = None =>
        LET used == files[report.path]
            anchors == {used.groups[key] : key \in DOMAIN used.groups} \cup {used.rows[f] : f \in DOMAIN used.rows}
        IN \A row \in ToSet(report.of.rows) :
              /\ row.key \in DOMAIN choice /\ choice[row.key].path = report.path
              /\ row.p.file \notin DOMAIN used.rows
              /\ \A a, b \in anchors : a.kind = b.kind /\ a.id = b.id => a = b
              => /\ row.top # None
                 /\ LET c == choice[row.key].c
                    IN row.top.anchor = c.anchor /\ row.top.id = c.id /\ row.top.kind = c.kind /\ row.top.title = c.title

=============================================================================
