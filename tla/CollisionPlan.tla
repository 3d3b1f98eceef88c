--------------------------- MODULE CollisionPlan ----------------------------
(***************************************************************************)
(* From the rows of the Qt window to the plan the executor is handed:      *)
(* Orchestrator.preview and prepare_apply (gui/orchestrator.py), the plan  *)
(* builder and its collision detection (planner/build.py, collision.py),   *)
(* and the list of collisions the user reviews (gui/collision_review.py,   *)
(* CollisionModel of gui/models.py).                                       *)
(*                                                                         *)
(* The review list is filled by a preview, or by an apply that finds an    *)
(* unreviewed collision, and keeps what the user picked while the rows go  *)
(* on changing under it; an apply detects the collisions afresh and looks  *)
(* each up in that list by its target alone.  A row's proposed target is   *)
(* stamped by either and never cleared.                                    *)
(*                                                                         *)
(* A target is the sequence of its name, as a number, and of the suffixes  *)
(* put after its stem; how a candidate renders to a target is left to the  *)
(* constant Rendered.  The rows of a drop are distinct files of one kind,  *)
(* 1 .. MaxRows in the order of the model.                                 *)
(***************************************************************************)
EXTENDS Naturals, Sequences, FiniteSets, Functions

CONSTANTS
  MaxRows,      \* rows of a drop
  Rendered,     \* targets the candidates render to
  Unresolved,   \* a row without a candidate
  Unplaced,     \* a TV row whose season or episode is unknown
  Drops,        \* what the rows of a drop may resolve to
  MaxEdits      \* bound: edits, skips, drops and previews

Rows == 1 .. MaxRows

\* _suffix_op_target: "_<k>" after the stem.
Suffixed(t, k) == Append(t, k)
Target == Rendered \cup { Suffixed(t, k) : t \in Rendered, k \in Rows }

NoTarget == <<>>

ASSUME CollisionAssumption ==
  /\ MaxRows \in Nat
  /\ MaxEdits \in Nat
  /\ Rendered \subseteq Seq(Nat) \ {NoTarget}
  /\ Unresolved \notin Rendered /\ Unplaced \notin Rendered

RowCandidate == Rendered \cup {Unresolved, Unplaced}
ASSUME DropsAssumption == Drops \subseteq [Rows -> RowCandidate]

Action == {"keep_first", "keep_both", "reanchor"}

VARIABLES
  candidate,    \* ItemRow.candidate: what the row would render to
  skip,         \* rows with ItemRow.skip
  proposed,     \* ItemRow.proposed_op: the target last stamped
  items,        \* CollisionModel._items
  editing,      \* the row in the edit pane, 0 for none
  plan,         \* the last plan handed to the executor: target of each row in it
  outcome,      \* how the last apply ended
  answered,     \* targets the user picked for since the list was filled (history)
  changed,      \* rows edited, skipped, unskipped or dropped since then (history)
  edits         \* bound on edits

reviewVars == <<candidate, skip, proposed, items, editing, plan, outcome, answered, changed,
                edits>>

TypeOK ==
  /\ candidate \in [Rows -> RowCandidate]
  /\ skip \subseteq Rows
  /\ proposed \in [Rows -> Target \cup {NoTarget}]
  /\ items \subseteq [target : Rendered, sources : SUBSET Rows, action : Action \cup {"none"}]
  /\ editing \in Rows \cup {0}
  /\ DOMAIN plan \subseteq Rows /\ plan \in [DOMAIN plan -> Target]
  /\ outcome \in {"none", "early", "handed"}
  /\ answered \subseteq Rendered
  /\ changed \subseteq Rows
  /\ edits \in 0 .. MaxEdits

-----------------------------------------------------------------------------
(* Plans: the target of each row that has an op                            *)

\* Rows neither skipped nor unresolved; _build_tv_ops drops those without
\* season or episode in silence.
Placed == { r \in Rows \ skip : candidate[r] \in Rendered }
RawOps == [r \in Placed |-> candidate[r]]

\* detect_collisions: an op is clean if no other has its target.
Alone(ops) == { r \in DOMAIN ops : \A s \in DOMAIN ops : ops[s] = ops[r] => s = r }

\* Mutant: what collides is kept.
Clean_All(ops) == ops

Clean(ops) == Restrict(ops, Alone(ops))
Collisions(ops) == { ops[r] : r \in DOMAIN ops \ Alone(ops) }
Sources(ops, t) == { r \in DOMAIN ops : ops[r] = t }

\* CollisionModel.set_collisions: every action unset.
Fresh(ops) == { [target |-> t, sources |-> Sources(ops, t), action |-> "none"] :
                t \in Collisions(ops) }

Stamped(ops) == [r \in Rows |-> IF r \in DOMAIN ops THEN ops[r] ELSE proposed[r]]

\* Mutant: what the user has not picked is renamed.
ActionFor_KeepsBoth(t) ==
  IF \E it \in items : it.target = t
  THEN (CHOOSE it \in items : it.target = t).action
  ELSE "keep_both"

\* _collision_actions_for: by target, whatever the sources were.
ActionFor(t) ==
  IF \E it \in items : it.target = t
  THEN (CHOOSE it \in items : it.target = t).action
  ELSE "none"

\* A row's place among the sources of its target.
Place(ops, r) == Cardinality({ s \in Sources(ops, ops[r]) : s <= r })

\* _apply_collision_actions, before its second detection: the rows that keep
\* an op, and its target.
Kept(ops) ==
  { r \in DOMAIN ops :
      \/ Sources(ops, ops[r]) = {r}
      \/ ActionFor(ops[r]) = "keep_first" /\ Place(ops, r) = 1
      \/ ActionFor(ops[r]) = "keep_both" }

\* Mutant: a stamped proposal is taken for the row's target.
Resolved_Proposed(ops) ==
  [r \in Kept(ops) |-> IF Place(ops, r) > 1 THEN Suffixed(ops[r], Place(ops, r))
                       ELSE IF proposed[r] = NoTarget THEN ops[r] ELSE proposed[r]]

Resolved(ops) ==
  [r \in Kept(ops) |-> IF Place(ops, r) = 1 THEN ops[r] ELSE Suffixed(ops[r], Place(ops, r))]

-----------------------------------------------------------------------------
ReviewInit ==
  /\ candidate \in Drops
  /\ skip = {}
  /\ proposed = [r \in Rows |-> NoTarget]
  /\ items = {}
  /\ editing = 0
  /\ plan = <<>>
  /\ outcome = "none"
  /\ answered = {}
  /\ changed = {}
  /\ edits = 0

Edits == edits < MaxEdits /\ edits' = edits + 1

\* A search, an IMDb id or a show picker gives the row another candidate; the
\* edit pane holds the row the user clicked.
Edit(r, c) ==
  /\ Edits
  /\ candidate' = [candidate EXCEPT ![r] = c]
  /\ editing' = r
  /\ changed' = changed \cup {r}
  /\ UNCHANGED <<skip, proposed, items, plan, outcome, answered>>

ToggleSkip(r) ==
  /\ Edits
  /\ skip' = IF r \in skip THEN skip \ {r} ELSE skip \cup {r}
  /\ changed' = changed \cup {r}
  /\ UNCHANGED <<candidate, proposed, items, editing, plan, outcome, answered>>

\* _on_paths_dropped: other rows; the review list stays.
DropPaths(cs) ==
  /\ Edits
  /\ candidate' = cs
  /\ skip' = {}
  /\ proposed' = [r \in Rows |-> NoTarget]
  /\ changed' = Rows
  /\ UNCHANGED <<items, editing, plan, outcome, answered>>

Preview ==
  /\ Edits
  /\ proposed' = Stamped(Clean(RawOps))
  /\ items' = Fresh(RawOps)
  /\ answered' = {}
  /\ changed' = {}
  /\ UNCHANGED <<candidate, skip, editing, plan, outcome>>

\* A radio button of the review list.
Pick(it, action) ==
  /\ items' = (items \ {it}) \cup { [it EXCEPT !.action = action] }
  /\ answered' = answered \cup {it.target}
  /\ UNCHANGED <<candidate, skip, proposed, editing, plan, outcome, changed, edits>>

\* "Open editor for re-anchor": the first row whose proposal is the target.
RequestReanchor(it) ==
  /\ it.action = "reanchor"
  /\ LET first == { r \in Rows : proposed[r] = it.target
                                 /\ \A s \in Rows : proposed[s] = it.target => r <= s }
     IN editing' \in (IF first = {} THEN {editing} ELSE first)
  /\ UNCHANGED <<candidate, skip, proposed, items, plan, outcome, answered, changed, edits>>

Gate == \A it \in items : it.action # "none"
Unreviewed == \E t \in Collisions(RawOps) : ActionFor(t) = "none"

\* prepare_apply finds a collision nobody picked an action for: the list is
\* filled afresh, and the apply ends in a report.
ApplyBlocked ==
  /\ Gate /\ Unreviewed
  /\ proposed' = Stamped(Clean(RawOps))
  /\ items' = Fresh(RawOps)
  /\ answered' = {}
  /\ changed' = {}
  /\ outcome' = "early"
  /\ UNCHANGED <<candidate, skip, editing, plan, edits>>

\* The actions are applied, what still collides is dropped, and the executor
\* gets the rest.
ApplyHandsOver ==
  /\ Gate /\ ~Unreviewed
  /\ plan' = Clean(Resolved(RawOps))
  /\ proposed' = Stamped(plan')
  /\ items' = {}
  /\ answered' = {}
  /\ changed' = {}
  /\ outcome' = "handed"
  /\ UNCHANGED <<candidate, skip, editing, edits>>

ReviewNext ==
  \/ \E r \in Rows, c \in RowCandidate : Edit(r, c)
  \/ \E r \in Rows : ToggleSkip(r)
  \/ \E cs \in Drops : DropPaths(cs)
  \/ Preview
  \/ \E it \in items, action \in Action : Pick(it, action)
  \/ \E it \in items : RequestReanchor(it)
  \/ ApplyBlocked
  \/ ApplyHandsOver

ReviewSpec == ReviewInit /\ [][ReviewNext]_reviewVars

-----------------------------------------------------------------------------
(* Properties                                                              *)

\* No two files of a plan are copied to one path, whatever the suffixes and
\* the user's picks did: the executor would overwrite the first.
PlanIsInjective == \A r, s \in DOMAIN plan : plan[r] = plan[s] => r = s

\* As far as "No copy proceeds for either source until the user picks an
\* action" goes: every target that collides at a hand-over was picked for since
\* the review list was last filled, in an item that showed every source of the
\* collision but the rows edited, skipped, unskipped or dropped since (for those
\* the sentence does not hold: see PicksAreOfSources).
PicksComeFirst ==
  [][ApplyHandsOver =>
       \A t \in Collisions(RawOps) :
         /\ t \in answered
         /\ \E it \in items : /\ it.target = t /\ it.action # "none"
                              /\ Sources(RawOps, t) \subseteq it.sources \cup changed]_reviewVars

\* A plan follows the rows as they are at the apply, though the proposals and
\* the review list may be of other rows: a file goes to what its candidate
\* renders to, or to that with a suffix.
PlanFollowsRows ==
  [][ApplyHandsOver =>
       \A r \in DOMAIN plan' :
         /\ r \notin skip
         /\ plan'[r] \in {candidate[r]} \cup { Suffixed(candidate[r], k) : k \in 2 .. MaxRows }]_reviewVars

-----------------------------------------------------------------------------
(* What the code claims and the orchestrator does not do                   *)

\* collision_review.py: "No copy proceeds for either source until the user
\* picks an action": the item picked from showed every source that the pick
\* is applied to.
PicksAreOfSources ==
  [][ApplyHandsOver =>
       \A t \in Collisions(RawOps) :
         \E it \in items : it.target = t /\ Sources(RawOps, t) \subseteq it.sources]_reviewVars

=============================================================================
