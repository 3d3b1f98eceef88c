----------------------------- MODULE ShellProofs -----------------------------
(***************************************************************************)
(* What ShellRows guarantees for any files, shows and candidates, any      *)
(* number of handlers under way, clicks and faults.                        *)
(***************************************************************************)
EXTENDS ShellRows, FiniteSetTheorems, WellFoundedInduction, TLAPS

-----------------------------------------------------------------------------
(* The inductive invariant, in named parts                                 *)

\* Lists of rows: some files, and a row for each.
RowLists == UNION { [D -> Row] : D \in SUBSET Files }

Loops == {"imdb", "override", "toggle"}
Kinds == Loops \cup {"none", "load", "edit", "anchor", "settings", "apply"}
Fresh == {"idle", "starting"}
Reviewing == {"build", "collisions", "skip", "rebuild", "confirm", "stream"}
Steps == Fresh \cup Reviewing \cup {"dialog", "saving", "closing", "orphan", "find", "await"}

HandlerType ==
  [kind : Kinds, step : Steps, file : Files \cup {0}, files : SUBSET Files, todo : SUBSET Files,
   edit : Edits, seen : Row \cup {<<>>}, base : RowLists, work : RowLists,
   winners : SUBSET Files, drifted : BOOLEAN, plan : SUBSET Files, cleanup : BOOLEAN]

\* What is in the answers so far is what was sent, to the rows they are of.
EditedSoFar(rec) ==
  /\ rec.todo # {} /\ rec.todo \subseteq rec.files
  /\ rec.work = Edited(rec.base, rec.files \ rec.todo, rec.edit)

\* No two files of the list share a target, and what was picked is among them.
Settled(rs, winners) == Colliding(rs) = {} /\ winners \subseteq Placed(rs)

\* Each kind of handler, and how far it is.
EditSound(rec) ==
  /\ rec.kind = "edit" => rec.files = {rec.file}
  /\ rec.step \in {"saving", "closing", "orphan"} => rec.kind = "edit"
  /\ rec.step = "closing" => rec.work = Edited(rec.base, rec.files, rec.edit)
AnchorSound(rec) ==
  rec.kind = "anchor" /\ rec.step = "await" =>
    /\ rec.files = { f \in DOMAIN rec.base : Group[f] = Group[rec.file] }
    /\ \E c \in Cand : rec.edit = [cand |-> c]
LoopSound(rec) ==
  /\ rec.kind \in Loops /\ rec.step # "await" => rec.todo = rec.files /\ rec.files # {}
  /\ rec.kind \in Loops /\ rec.step = "await" => EditedSoFar(rec)
  /\ rec.step = "find" => rec.kind = "imdb"
ApplySound(rec) ==
  /\ rec.step \in Reviewing => rec.kind = "apply"
  /\ rec.kind = "apply" /\ rec.step \in Fresh \cup {"build", "collisions"} =>
       rec.winners = {} /\ ~rec.drifted
  /\ rec.step = "skip" => EditedSoFar(rec)
  /\ rec.step = "skip" /\ ~rec.drifted => Settled(Edited(rec.base, rec.files, rec.edit), rec.winners)
  /\ rec.step = "rebuild" /\ ~rec.drifted => Settled(rec.base, rec.winners)
  /\ rec.step \in {"confirm", "stream"} /\ ~rec.drifted =>
       rec.plan = Placed(rec.base) /\ rec.winners \subseteq rec.plan

Sound(rec) ==
  /\ rec \in HandlerType
  /\ rec.step = "starting" => rec.kind # "none"
  /\ EditSound(rec) /\ AnchorSound(rec) /\ LoopSound(rec) /\ ApplySound(rec)

TypeInv == rows \in RowLists /\ meant \in RowLists /\ cleanup \in BOOLEAN
HandlersSound == DOMAIN handler = Slots /\ \A h \in Slots : Sound(handler[h])

IInv == TypeInv /\ HandlersSound /\ EditsKept

-----------------------------------------------------------------------------
(* Rows and edits                                                          *)

Fields == {"skip", "manual", "cand"}

LEMMA Rows ==
  ASSUME NEW row \in Row
  PROVE  /\ DOMAIN row = Fields
         /\ row = [k \in Fields |-> row[k]]
         /\ row["skip"] \in BOOLEAN /\ row["manual"] \in BOOLEAN
         /\ row["cand"] \in Cand \cup {NoCand}
  BY DEF Row, Fields

LEMMA ARow ==
  ASSUME NEW row, DOMAIN row = Fields, row = [k \in DOMAIN row |-> row[k]],
         row["skip"] \in BOOLEAN, row["manual"] \in BOOLEAN,
         row["cand"] \in Cand \cup {NoCand}
  PROVE  row \in Row
  BY DEF Row, Fields

LEMMA EditFields ==
  ASSUME NEW edit \in Edits
  PROVE  /\ DOMAIN edit \subseteq Fields
         /\ "skip" \in DOMAIN edit => edit["skip"] \in BOOLEAN
         /\ "manual" \in DOMAIN edit => edit["manual"] \in BOOLEAN
         /\ "cand" \in DOMAIN edit => edit["cand"] \in Cand \cup {NoCand}
<1>1. PICK F \in SUBSET Fields, row \in Row : edit = Restrict(row, F)
  BY DEF Edits, Fields
<1>2. DOMAIN edit = F /\ \A k \in F : edit[k] = row[k]
  BY <1>1 DEF Restrict
<1> QED
  BY <1>2, Rows

LEMMA AnEdit ==
  ASSUME NEW row \in Row, NEW F \in SUBSET Fields
  PROVE  Restrict(row, F) \in Edits
  BY DEF Edits, Fields

LEMMA OneField ==
  ASSUME NEW row \in Row, NEW k \in Fields, NEW edit, edit = [j \in {k} |-> row[k]]
  PROVE  edit \in Edits
<1>1. Restrict(row, {k}) = edit
  BY DEF Restrict
<1> QED
  BY <1>1, AnEdit

LEMMA Sent ==
  /\ <<>> \in Edits
  /\ \A b \in BOOLEAN : [skip |-> b] \in Edits /\ [manual |-> b] \in Edits
  /\ \A c \in Cand : [cand |-> c] \in Edits
<1>1. \A b \in BOOLEAN : \A c \in Cand \cup {NoCand} :
        [skip |-> b, manual |-> b, cand |-> c] \in Row
  BY DEF Row
<1>2. <<>> \in Edits
  <2>1. PICK row \in Row : TRUE
    BY <1>1
  <2>2. Restrict(row, {}) = <<>>
    BY DEF Restrict
  <2> QED
    BY <2>2, AnEdit
<1>3. ASSUME NEW b \in BOOLEAN
      PROVE  [skip |-> b] \in Edits /\ [manual |-> b] \in Edits
  <2>1. PICK row \in Row : row = [skip |-> b, manual |-> b, cand |-> NoCand]
    BY <1>1
  <2>2. row["skip"] = b /\ row["manual"] = b
    BY <2>1
  <2>3. [skip |-> b] = [j \in {"skip"} |-> row["skip"]]
    BY <2>2
  <2>4. [manual |-> b] = [j \in {"manual"} |-> row["manual"]]
    BY <2>2
  <2> QED
    BY <2>3, <2>4, OneField DEF Fields
<1>4. ASSUME NEW c \in Cand PROVE [cand |-> c] \in Edits
  <2>1. PICK row \in Row : row = [skip |-> TRUE, manual |-> TRUE, cand |-> c]
    BY <1>1
  <2>2. row["cand"] = c
    BY <2>1
  <2>3. [cand |-> c] = [j \in {"cand"} |-> row["cand"]]
    BY <2>2
  <2> QED
    BY <2>3, OneField DEF Fields
<1> QED
  BY <1>2, <1>3, <1>4

LEMMA Lists ==
  ASSUME NEW rs \in RowLists
  PROVE  /\ DOMAIN rs \subseteq Files
         /\ rs = [f \in DOMAIN rs |-> rs[f]]
         /\ \A f \in DOMAIN rs : rs[f] \in Row
<1>1. PICK D \in SUBSET Files : rs \in [D -> Row]
  BY DEF RowLists
<1> QED
  BY <1>1

LEMMA AList ==
  ASSUME NEW D \in SUBSET Files, NEW rs \in [D -> Row]
  PROVE  rs \in RowLists
  BY DEF RowLists

LEMMA NoRows == <<>> \in RowLists
<1>1. <<>> \in [{} -> Row]
  OBVIOUS
<1> QED
  BY <1>1 DEF RowLists

\* An edit of rows gives rows, of the same files.
LEMMA EditedIsRows ==
  ASSUME NEW rs \in RowLists, NEW files, NEW edit \in Edits
  PROVE  Edited(rs, files, edit) \in RowLists /\ DOMAIN Edited(rs, files, edit) = DOMAIN rs
<1>1. DOMAIN Edited(rs, files, edit) = DOMAIN rs
  BY DEF Edited
<1>2. ASSUME NEW f \in DOMAIN rs PROVE Edited(rs, files, edit)[f] \in Row
  <2> DEFINE new == [k \in DOMAIN rs[f] |-> IF k \in DOMAIN edit THEN edit[k] ELSE rs[f][k]]
  <2>1. rs[f] \in Row
    BY Lists
  <2>2. DOMAIN rs[f] = Fields /\ DOMAIN new = Fields
    BY <2>1, Rows
  <2>3. new["skip"] \in BOOLEAN /\ new["manual"] \in BOOLEAN
    BY <2>1, <2>2, Rows, EditFields DEF Fields
  <2>4. new["cand"] \in Cand \cup {NoCand}
    BY <2>1, <2>2, Rows, EditFields DEF Fields
  <2>5. new = [k \in DOMAIN new |-> new[k]]
    OBVIOUS
  <2>6. Edited(rs, files, edit)[f] = IF f \in files THEN new ELSE rs[f]
    BY DEF Edited
  <2> HIDE DEF new
  <2>7. new \in Row
    BY <2>2, <2>3, <2>4, <2>5, ARow
  <2> QED
    BY <2>1, <2>6, <2>7
<1>3. Edited(rs, files, edit) \in [DOMAIN rs -> Row]
  BY <1>2 DEF Edited
<1> QED
  BY <1>1, <1>3, Lists, AList

LEMMA EditNothing ==
  ASSUME NEW rs \in RowLists, NEW edit
  PROVE  Edited(rs, {}, edit) = rs
  BY Lists DEF Edited

\* One edit sent twice, for some files and then for others, is the edit of all.
LEMMA EditTwice ==
  ASSUME NEW rs \in RowLists, NEW A, NEW B, NEW edit
  PROVE  Edited(Edited(rs, A, edit), B, edit) = Edited(rs, A \cup B, edit)
<1> DEFINE once == Edited(rs, A, edit)
           twice == Edited(once, B, edit)
           union == Edited(rs, A \cup B, edit)
<1>1. DOMAIN once = DOMAIN rs /\ DOMAIN twice = DOMAIN rs /\ DOMAIN union = DOMAIN rs
  BY DEF Edited
<1>2. twice = [f \in DOMAIN rs |-> twice[f]] /\ union = [f \in DOMAIN rs |-> union[f]]
  BY <1>1 DEF Edited
<1>3. ASSUME NEW f \in DOMAIN rs PROVE twice[f] = union[f]
  <2> DEFINE Set(r) == [k \in DOMAIN r |-> IF k \in DOMAIN edit THEN edit[k] ELSE r[k]]
  <2>1. once[f] = IF f \in A THEN Set(rs[f]) ELSE rs[f]
    BY DEF Edited
  <2>2. twice[f] = IF f \in B THEN Set(once[f]) ELSE once[f]
    BY <1>1 DEF Edited
  <2>3. union[f] = IF f \in A \cup B THEN Set(rs[f]) ELSE rs[f]
    BY DEF Edited
  <2>4. Set(Set(rs[f])) = Set(rs[f])
    <3> DEFINE first == Set(rs[f])
    <3>1. DOMAIN first = DOMAIN rs[f]
      OBVIOUS
    <3>2. \A k \in DOMAIN first :
            (IF k \in DOMAIN edit THEN edit[k] ELSE first[k]) = first[k]
      OBVIOUS
    <3>3. first = [k \in DOMAIN first |-> first[k]]
      OBVIOUS
    <3>4. Set(first) = [k \in DOMAIN first |-> IF k \in DOMAIN edit THEN edit[k] ELSE first[k]]
      OBVIOUS
    <3> HIDE DEF first
    <3>5. Set(first) = first
      BY <3>2, <3>3, <3>4
    <3> QED
      BY <3>5 DEF first
  <2> HIDE DEF once, twice, union, Set
  <2> QED
    BY <2>1, <2>2, <2>3, <2>4
<1> HIDE DEF once, twice, union
<1>4. twice = union
  BY <1>2, <1>3
<1> QED
  BY <1>4 DEF once, twice, union

\* Fields sent as they were change nothing.
LEMMA EditUnchanged ==
  ASSUME NEW rs \in RowLists, NEW f \in DOMAIN rs, NEW edit \in Edits
  PROVE  Edited(rs, {f}, Restrict(edit, { k \in DOMAIN edit : edit[k] # rs[f][k] }))
           = Edited(rs, {f}, edit)
<1> DEFINE changed == Restrict(edit, { k \in DOMAIN edit : edit[k] # rs[f][k] })
           some == Edited(rs, {f}, changed)
           all == Edited(rs, {f}, edit)
<1>1. /\ DOMAIN changed = { k \in DOMAIN edit : edit[k] # rs[f][k] }
      /\ \A k \in DOMAIN changed : changed[k] = edit[k]
  BY DEF Restrict
<1> HIDE DEF changed
<1>2. DOMAIN some = DOMAIN rs /\ DOMAIN all = DOMAIN rs
  BY DEF Edited
<1>3. some = [g \in DOMAIN rs |-> some[g]] /\ all = [g \in DOMAIN rs |-> all[g]]
  BY <1>2 DEF Edited
<1>4. ASSUME NEW g \in DOMAIN rs PROVE some[g] = all[g]
  <2>1. CASE g = f
    <3>1. some[f] = [k \in DOMAIN rs[f] |-> IF k \in DOMAIN changed THEN changed[k] ELSE rs[f][k]]
      BY DEF Edited
    <3>2. all[f] = [k \in DOMAIN rs[f] |-> IF k \in DOMAIN edit THEN edit[k] ELSE rs[f][k]]
      BY DEF Edited
    <3>3. \A k \in DOMAIN rs[f] :
            (IF k \in DOMAIN changed THEN changed[k] ELSE rs[f][k])
              = (IF k \in DOMAIN edit THEN edit[k] ELSE rs[f][k])
      BY <1>1
    <3> HIDE DEF some, all
    <3> QED
      BY <2>1, <3>1, <3>2, <3>3
  <2>2. CASE g # f
    BY <2>2 DEF Edited
  <2> QED
    BY <2>1, <2>2
<1> HIDE DEF some, all
<1>5. some = all
  BY <1>3, <1>4
<1> QED
  BY <1>5 DEF some, all, changed

-----------------------------------------------------------------------------
(* The review of collisions                                                *)

LEMMA OneOfOne ==
  ASSUME NEW S, Cardinality(S) = 1, IsFiniteSet(S), NEW x \in S, NEW y \in S
  PROVE  x = y
<1>1. PICK z : S = {z}
  BY FS_Singleton
<1> QED
  BY <1>1

LEMMA Skips ==
  ASSUME NEW rs \in RowLists, NEW losers
  PROVE  LET new == Edited(rs, losers, [skip |-> TRUE]) IN
         /\ Placed(new) = Placed(rs) \ losers
         /\ \A f, g \in DOMAIN rs : SameTarget(new, f, g) = SameTarget(rs, f, g)
<1> DEFINE edit == [skip |-> TRUE]
           new == Edited(rs, losers, edit)
<1>1. DOMAIN edit = {"skip"} /\ edit["skip"] = TRUE
  OBVIOUS
<1>2. \A f \in DOMAIN rs : DOMAIN rs[f] = Fields
  BY Lists, Rows
<1> HIDE DEF edit
<1>3. DOMAIN new = DOMAIN rs
  BY DEF Edited
<1>4. \A f \in DOMAIN rs :
        /\ new[f]["skip"] = IF f \in losers THEN TRUE ELSE rs[f]["skip"]
        /\ new[f]["cand"] = rs[f]["cand"]
  BY <1>1, <1>2 DEF Edited, Fields
<1> HIDE DEF new
<1>5. Placed(new) = Placed(rs) \ losers
  BY <1>3, <1>4 DEF Placed
<1>6. \A f, g \in DOMAIN rs : SameTarget(new, f, g) = SameTarget(rs, f, g)
  BY <1>4 DEF SameTarget
<1> QED
  BY <1>5, <1>6 DEF new, edit

\* With the losers skipped, of the files of a target only the one kept is left.
LEMMA Reviewed ==
  ASSUME NEW rs \in RowLists, NEW keep \in Picks(rs)
  PROVE  Settled(Edited(rs, Colliding(rs) \ keep, [skip |-> TRUE]), keep)
<1> DEFINE losers == Colliding(rs) \ keep
           new == Edited(rs, losers, [skip |-> TRUE])
<1>1. Placed(new) = Placed(rs) \ losers
  BY Skips
<1>2. \A f, g \in DOMAIN rs : SameTarget(new, f, g) = SameTarget(rs, f, g)
  BY Skips
<1>3. Placed(rs) \subseteq DOMAIN rs /\ keep \subseteq Colliding(rs) /\ Colliding(rs) \subseteq Placed(rs)
  BY DEF Placed, Picks, Colliding
<1> HIDE DEF new
<1>4. keep \subseteq Placed(new)
  BY <1>1, <1>3
<1>5. ASSUME NEW f \in Placed(new), Rivals(new, f) # {f} PROVE FALSE
  <2>1. f \in Rivals(new, f)
    BY DEF Rivals, SameTarget
  <2>2. PICK g \in Rivals(new, f) : g # f
    BY <1>5, <2>1
  <2>3. g \in Placed(new) /\ SameTarget(new, f, g)
    BY <2>2 DEF Rivals
  <2>4. f \in Placed(rs) /\ g \in Placed(rs) /\ SameTarget(rs, f, g)
    BY <1>1, <1>2, <1>3, <2>3
  <2>5. f \in Rivals(rs, f) /\ g \in Rivals(rs, f) /\ f \in Rivals(rs, g)
    BY <2>4 DEF Rivals, SameTarget
  <2>6. f \in Colliding(rs) /\ g \in Colliding(rs)
    BY <2>2, <2>4, <2>5 DEF Colliding
  <2>7. f \in keep /\ g \in keep
    BY <1>1, <2>3, <2>6
  <2>8. Cardinality(Rivals(rs, f) \cap keep) = 1
    BY <2>6, <2>7 DEF Picks
  <2>9. IsFiniteSet(Rivals(rs, f) \cap keep)
    <3>1. IsFiniteSet(Files)
      BY FS_Interval, ShellAssumption DEF Files
    <3>2. Rivals(rs, f) \cap keep \subseteq Files
      BY <1>3, Lists DEF Rivals
    <3> QED
      BY <3>1, <3>2, FS_Subset
  <2> QED
    BY <2>2, <2>5, <2>7, <2>8, <2>9, OneOfOne
<1>6. Colliding(new) = {}
  BY <1>5 DEF Colliding
<1> QED
  BY <1>4, <1>6 DEF Settled, new

-----------------------------------------------------------------------------
(* How a handler goes on                                                   *)

LEMMA LeastOfFiles ==
  ASSUME NEW todo \in SUBSET Files, todo # {}
  PROVE  Min(todo) \in todo
<1> DEFINE R == { p \in Nat \X Nat : p[1] < p[2] }
<1>1. IsWellFoundedOn(R, Nat)
  BY NatLessThanWellFounded DEF OpToRel
<1>2. todo \subseteq Nat
  BY ShellAssumption DEF Files
<1>3. PICK f \in todo : \A g \in todo : <<g, f>> \notin R
  <2> HIDE DEF R
  <2> QED
    BY <1>1, <1>2, WFMin
<1>4. ASSUME NEW g \in todo PROVE f <= g
  <2>1. f \in Nat /\ g \in Nat /\ <<g, f>> \notin R
    BY <1>2, <1>3
  <2> QED
    BY <2>1
<1> QED
  BY <1>4 DEF Min

LEMMA IdleSound == Sound(Idle)
<1>1. Idle \in HandlerType
  BY NoRows, Sent DEF Idle, HandlerType, Kinds, Steps, Fresh
<1>2. Idle.kind = "none" /\ Idle.step = "idle" /\ Idle.winners = {} /\ Idle.drifted = FALSE
  BY DEF Idle
<1> HIDE DEF Idle
<1> QED
  BY <1>1, <1>2 DEF Sound, EditSound, AnchorSound, LoopSound, ApplySound, Loops, Reviewing, Fresh

\* One handler goes on, soundly.
LEMMA OneHandler ==
  ASSUME HandlersSound, NEW h \in Slots, NEW rec, Sound(rec), Put(h, rec)
  PROVE  HandlersSound'
  BY DEF HandlersSound, Put

LEMMA NoHandler ==
  ASSUME HandlersSound, handler' = handler
  PROVE  HandlersSound'
  BY DEF HandlersSound

LEMMA ThisHandler ==
  ASSUME HandlersSound, NEW h \in Slots
  PROVE  Sound(handler[h]) /\ handler[h] \in HandlerType
  BY DEF HandlersSound, Sound

LEMMA Asked ==
  ASSUME HandlersSound, NEW h \in Slots, NEW rec, Sound(rec), Ask(h, rec)
  PROVE  HandlersSound'
<1>1. CASE engine = "up"
  BY <1>1, OneHandler DEF Ask
<1>2. CASE engine # "up"
  BY <1>2, NoHandler DEF Ask
<1> QED
  BY <1>1, <1>2

LEMMA WindowStays ==
  ASSUME TypeInv, EditsKept, UNCHANGED Window
  PROVE  TypeInv' /\ EditsKept'
  BY DEF TypeInv, EditsKept, Window

LEMMA RowsStay ==
  ASSUME TypeInv, EditsKept, UNCHANGED <<rows, meant>>, cleanup' \in BOOLEAN
  PROVE  TypeInv' /\ EditsKept'
  BY DEF TypeInv, EditsKept

\* A list put in the window's place is the window's with the handler's edits.
LEMMA Installed ==
  ASSUME TypeInv, EditsKept, NEW rec \in HandlerType, NEW new \in RowLists,
         rec.kind # "edit", new = Edited(rec.base, rec.files, rec.edit), Install(rec, new)
  PROVE  TypeInv' /\ EditsKept'
<1>1. rows' = new /\ cleanup' = cleanup
  BY DEF Install
<1>2. meant' = new
  <2>1. CASE Stale(rec)
    BY <2>1 DEF Install
  <2>2. CASE ~Stale(rec)
    <3>1. rec.base = rows
      BY <2>2 DEF Stale
    <3>2. Intent(rec) = rec.edit
      BY DEF Intent
    <3>3. meant' = Edited(meant, rec.files, rec.edit)
      BY <2>2, <3>2 DEF Install
    <3> QED
      BY <3>1, <3>3 DEF EditsKept
  <2> QED
    BY <2>1, <2>2
<1> QED
  BY <1>1, <1>2 DEF TypeInv, EditsKept

\* So it is when the pane sends every field it shows.
LEMMA PaneInstalled ==
  ASSUME TypeInv, EditsKept, NEW rec \in HandlerType, NEW new \in RowLists,
         rec.kind = "edit", rec.files = {rec.file},
         new = Edited(rec.base, rec.files, rec.edit), Install(rec, new)
  PROVE  TypeInv' /\ EditsKept'
<1>1. rows' = new /\ cleanup' = cleanup
  BY DEF Install
<1>2. meant' = new
  <2>1. CASE Stale(rec)
    BY <2>1 DEF Install
  <2>2. CASE ~Stale(rec)
    <3>1. rec.base = rows /\ rec.seen = rec.base[rec.file]
      BY <2>2 DEF Stale
    <3>2. Intent(rec) = Restrict(rec.edit, { k \in DOMAIN rec.edit : rec.edit[k] # rows[rec.file][k] })
      BY <3>1 DEF Intent
    <3>3. meant' = Edited(meant, rec.files, Intent(rec))
      BY <2>2 DEF Install
    <3>4. Edited(rows, {rec.file}, Intent(rec)) = Edited(rows, {rec.file}, rec.edit)
      <4>1. CASE rec.file \in DOMAIN rows
        <5>1. rec.edit \in Edits
          BY DEF HandlerType
        <5> QED
          BY <3>2, <4>1, <5>1, EditUnchanged DEF TypeInv
      <4>2. CASE rec.file \notin DOMAIN rows
        BY <4>2 DEF Edited
      <4> QED
        BY <4>1, <4>2
    <3> QED
      BY <3>1, <3>3, <3>4 DEF EditsKept
  <2> QED
    BY <2>1, <2>2
<1> QED
  BY <1>1, <1>2 DEF TypeInv, EditsKept

\* A loop of requests edits one file more.
LEMMA OneMore ==
  ASSUME NEW rec \in HandlerType, EditedSoFar(rec)
  PROVE  LET next == Min(rec.todo)
             work == Edited(rec.work, {next}, rec.edit) IN
         /\ next \in rec.todo
         /\ work \in RowLists
         /\ work = Edited(rec.base, rec.files \ (rec.todo \ {next}), rec.edit)
<1> DEFINE next == Min(rec.todo)
           work == Edited(rec.work, {next}, rec.edit)
<1>1. rec.todo \in SUBSET Files /\ rec.base \in RowLists /\ rec.work \in RowLists /\ rec.edit \in Edits
  BY DEF HandlerType
<1>2. next \in rec.todo
  BY <1>1, LeastOfFiles DEF EditedSoFar
<1>3. work \in RowLists
  BY <1>1, EditedIsRows
<1> HIDE DEF next
<1>4. work = Edited(rec.base, (rec.files \ rec.todo) \cup {next}, rec.edit)
  BY <1>1, EditTwice DEF EditedSoFar
<1>5. (rec.files \ rec.todo) \cup {next} = rec.files \ (rec.todo \ {next})
  BY <1>2 DEF EditedSoFar
<1> QED
  BY <1>2, <1>3, <1>4, <1>5 DEF next

-----------------------------------------------------------------------------
(* Each step of a handler                                                  *)

LEMMA EnterStep ==
  ASSUME TypeInv, HandlersSound, NEW h \in Slots, NEW rec, Sound(rec),
         rec.step \in Fresh, rec.kind # "none", Enter(h, rec)
  PROVE  HandlersSound'
<1> SUFFICES \E new : Sound(new) /\ Put(h, new)
  BY OneHandler
<1>1. rec \in HandlerType /\ rows \in RowLists /\ <<>> \in RowLists
  BY NoRows DEF Sound, TypeInv
<1>2. rec.step # "await" /\ (rec.kind = "apply" => rec.winners = {} /\ ~rec.drifted)
  BY DEF Sound, ApplySound, Fresh
<1>3. CASE rec.kind \in {"edit", "anchor", "imdb", "override"}
  <2>1. PICK base \in RowLists : base = (IF rec.kind = "edit" THEN rows ELSE <<>>)
    BY <1>1
  <2> DEFINE new == [rec EXCEPT !.step = "dialog", !.base = base]
  <2>2. Put(h, new)
    BY <1>3, <2>1 DEF Enter
  <2>3. new \in HandlerType
    BY <1>1 DEF HandlerType, Steps
  <2>4. /\ new.kind = rec.kind /\ new.step = "dialog" /\ new.file = rec.file
        /\ new.files = rec.files /\ new.todo = rec.todo
    BY <1>1 DEF HandlerType
  <2> HIDE DEF new
  <2>5. Sound(new)
    BY <1>2, <2>3, <2>4
    DEF Sound, EditSound, AnchorSound, LoopSound, ApplySound, Loops, Reviewing, Fresh
  <2> QED
    BY <2>2, <2>5
<1>4. CASE rec.kind \in {"load", "settings"}
  <2> DEFINE new == [rec EXCEPT !.step = "await"]
  <2>2. Put(h, new)
    BY <1>4 DEF Enter
  <2>3. new \in HandlerType
    BY <1>1 DEF HandlerType, Steps
  <2>4. new.kind = rec.kind /\ new.step = "await"
    BY <1>1 DEF HandlerType
  <2> HIDE DEF new
  <2>5. Sound(new)
    BY <1>4, <2>3, <2>4
    DEF Sound, EditSound, AnchorSound, LoopSound, ApplySound, Loops, Reviewing, Fresh
  <2> QED
    BY <2>2, <2>5
<1>5. CASE rec.kind = "toggle"
  <2> DEFINE new == [rec EXCEPT !.step = "await", !.base = rows, !.work = rows]
  <2>2. Put(h, new)
    BY <1>5 DEF Enter
  <2>3. new \in HandlerType
    BY <1>1 DEF HandlerType, Steps
  <2>4. /\ new.kind = "toggle" /\ new.step = "await" /\ new.files = rec.files
        /\ new.todo = rec.todo /\ new.base = rows /\ new.work = rows /\ new.edit = rec.edit
    BY <1>1, <1>5 DEF HandlerType
  <2> HIDE DEF new
  <2>5. new.todo = new.files /\ new.files # {}
    BY <1>2, <1>5, <2>4 DEF Sound, LoopSound, Loops
  <2>6. EditedSoFar(new)
    BY <1>1, <2>4, <2>5, EditNothing DEF EditedSoFar
  <2>7. Sound(new)
    BY <2>3, <2>4, <2>5, <2>6
    DEF Sound, EditSound, AnchorSound, LoopSound, ApplySound, Loops, Reviewing, Fresh
  <2> QED
    BY <2>2, <2>7
<1>6. CASE rec.kind = "apply"
  <2> DEFINE new == [rec EXCEPT !.step = "build", !.base = rows]
  <2>2. Put(h, new)
    BY <1>6 DEF Enter
  <2>3. new \in HandlerType
    BY <1>1 DEF HandlerType, Steps, Reviewing
  <2>4. /\ new.kind = "apply" /\ new.step = "build" /\ new.winners = rec.winners
        /\ new.drifted = rec.drifted
    BY <1>1, <1>6 DEF HandlerType
  <2> HIDE DEF new
  <2>5. Sound(new)
    BY <1>2, <1>6, <2>3, <2>4
    DEF Sound, EditSound, AnchorSound, LoopSound, ApplySound, Loops, Reviewing, Fresh
  <2> QED
    BY <2>2, <2>5
<1> QED
  BY <1>1, <1>3, <1>4, <1>5, <1>6 DEF HandlerType, Kinds, Loops

LEMMA StartedStep ==
  ASSUME IInv, NEW h \in Slots, Started(h)
  PROVE  IInv'
<1>1. TypeInv' /\ EditsKept'
  BY WindowStays DEF IInv, Started
<1>2. Sound(handler[h]) /\ handler[h].step = "starting" /\ handler[h].kind # "none"
  BY ThisHandler DEF IInv, Started, Sound
<1>3. HandlersSound'
  BY <1>2, EnterStep DEF IInv, Started, Fresh
<1> QED
  BY <1>1, <1>3 DEF IInv

\* A click starts a handler, awaiting the engine or going on at once.
LEMMA ClickStep ==
  ASSUME IInv, NEW h \in Slots, NEW rec, Sound(rec), rec.step = "idle",
         rec.kind # "none", Click(h, rec)
  PROVE  IInv'
<1>1. TypeInv' /\ EditsKept'
  BY WindowStays DEF IInv, Click
<1>2. HandlersSound'
  <2>1. CASE engine = "up"
    BY <2>1, EnterStep DEF IInv, Click, Ensure, Fresh
  <2>2. CASE engine # "up"
    <3> DEFINE new == [rec EXCEPT !.step = "starting"]
    <3>1. Put(h, new)
      BY <2>2 DEF Click, Ensure
    <3>2. rec \in HandlerType /\ (rec.kind = "apply" => rec.winners = {} /\ ~rec.drifted)
      BY DEF Sound, ApplySound, Fresh
    <3>3. new \in HandlerType
      BY <3>2 DEF HandlerType, Steps, Fresh
    <3>4. /\ new.kind = rec.kind /\ new.step = "starting" /\ new.file = rec.file
          /\ new.files = rec.files /\ new.todo = rec.todo
          /\ new.winners = rec.winners /\ new.drifted = rec.drifted
      BY <3>2 DEF HandlerType
    <3> HIDE DEF new
    <3>5. Sound(new)
      BY <3>2, <3>3, <3>4
      DEF Sound, EditSound, AnchorSound, LoopSound, ApplySound, Loops, Reviewing, Fresh
    <3> QED
      BY <3>1, <3>5, OneHandler DEF IInv
  <2> QED
    BY <2>1, <2>2
<1> QED
  BY <1>1, <1>2 DEF IInv

LEMMA OnPathsDroppedStep ==
  ASSUME IInv, NEW h \in Slots, NEW paths \in Drops, OnPathsDropped(h, paths)
  PROVE  IInv'
<1> DEFINE rec == [Idle EXCEPT !.kind = "load", !.files = paths]
<1>1. Idle \in HandlerType /\ Idle.step = "idle" /\ Idle.winners = {} /\ Idle.drifted = FALSE
  BY IdleSound DEF Sound, Idle
<1>2. paths \subseteq Files
  BY ShellAssumption
<1>3. Click(h, rec)
  BY DEF OnPathsDropped
<1>4. rec \in HandlerType
  BY <1>1, <1>2 DEF HandlerType, Kinds, Loops
<1>5. rec.kind = "load" /\ rec.step = "idle" /\ rec.winners = {} /\ rec.drifted = FALSE
  BY <1>1 DEF HandlerType
<1> HIDE DEF rec
<1>7. Sound(rec)
  BY <1>4, <1>5
  DEF Sound, EditSound, AnchorSound, LoopSound, ApplySound, Loops, Reviewing, Fresh
<1> QED
  BY <1>3, <1>5, <1>7, ClickStep

LEMMA OnPreviewClickedStep ==
  ASSUME IInv, NEW h \in Slots, OnPreviewClicked(h)
  PROVE  IInv'
<1> DEFINE rec == [Idle EXCEPT !.kind = "load", !.files = DOMAIN rows]
<1>1. Idle \in HandlerType /\ Idle.step = "idle" /\ Idle.winners = {} /\ Idle.drifted = FALSE
  BY IdleSound DEF Sound, Idle
<1>2. rows \in RowLists /\ DOMAIN rows \subseteq Files
  BY Lists DEF IInv, TypeInv
<1>3. Click(h, rec)
  BY DEF OnPreviewClicked
<1>4. rec \in HandlerType
  BY <1>1, <1>2 DEF HandlerType, Kinds, Loops
<1>5. rec.kind = "load" /\ rec.step = "idle" /\ rec.winners = {} /\ rec.drifted = FALSE
  BY <1>1 DEF HandlerType
<1> HIDE DEF rec
<1>7. Sound(rec)
  BY <1>4, <1>5
  DEF Sound, EditSound, AnchorSound, LoopSound, ApplySound, Loops, Reviewing, Fresh
<1> QED
  BY <1>3, <1>5, <1>7, ClickStep

LEMMA OnApplyClickedStep ==
  ASSUME IInv, NEW h \in Slots, OnApplyClicked(h)
  PROVE  IInv'
<1> DEFINE rec == [Idle EXCEPT !.kind = "apply"]
<1>1. Idle \in HandlerType /\ Idle.step = "idle" /\ Idle.winners = {} /\ Idle.drifted = FALSE
  BY IdleSound DEF Sound, Idle
<1>3. Click(h, rec)
  BY DEF OnApplyClicked
<1>4. rec \in HandlerType
  BY <1>1 DEF HandlerType, Kinds, Loops
<1>5. rec.kind = "apply" /\ rec.step = "idle" /\ rec.winners = {} /\ rec.drifted = FALSE
  BY <1>1 DEF HandlerType
<1> HIDE DEF rec
<1>7. Sound(rec)
  BY <1>4, <1>5
  DEF Sound, EditSound, AnchorSound, LoopSound, ApplySound, Loops, Reviewing, Fresh
<1> QED
  BY <1>3, <1>5, <1>7, ClickStep

LEMMA OnSourceRowActivatedStep ==
  ASSUME IInv, NEW h \in Slots, NEW f \in DOMAIN rows, OnSourceRowActivated(h, f)
  PROVE  IInv'
<1> DEFINE rec == [Idle EXCEPT !.kind = "edit", !.file = f, !.files = {f}, !.seen = rows[f]]
<1>1. Idle \in HandlerType /\ Idle.step = "idle" /\ Idle.winners = {} /\ Idle.drifted = FALSE
  BY IdleSound DEF Sound, Idle
<1>2. f \in Files /\ rows[f] \in Row
  BY Lists DEF IInv, TypeInv
<1>3. Click(h, rec)
  BY DEF OnSourceRowActivated
<1>4. rec \in HandlerType
  BY <1>1, <1>2 DEF HandlerType, Kinds, Loops
<1>5. rec.kind = "edit" /\ rec.step = "idle" /\ rec.winners = {} /\ rec.drifted = FALSE
  BY <1>1 DEF HandlerType
<1>6. rec.files = {rec.file}
  BY <1>1 DEF HandlerType
<1> HIDE DEF rec
<1>7. Sound(rec)
  BY <1>4, <1>5, <1>6
  DEF Sound, EditSound, AnchorSound, LoopSound, ApplySound, Loops, Reviewing, Fresh
<1> QED
  BY <1>3, <1>5, <1>7, ClickStep

LEMMA OnGroupAnchorRequestedStep ==
  ASSUME IInv, NEW h \in Slots, NEW f \in DOMAIN rows, OnGroupAnchorRequested(h, f)
  PROVE  IInv'
<1> DEFINE rec == [Idle EXCEPT !.kind = "anchor", !.file = f]
<1>1. Idle \in HandlerType /\ Idle.step = "idle" /\ Idle.winners = {} /\ Idle.drifted = FALSE
  BY IdleSound DEF Sound, Idle
<1>2. f \in Files
  BY Lists DEF IInv, TypeInv
<1>3. Click(h, rec)
  BY DEF OnGroupAnchorRequested
<1>4. rec \in HandlerType
  BY <1>1, <1>2 DEF HandlerType, Kinds, Loops
<1>5. rec.kind = "anchor" /\ rec.step = "idle" /\ rec.winners = {} /\ rec.drifted = FALSE
  BY <1>1 DEF HandlerType
<1> HIDE DEF rec
<1>7. Sound(rec)
  BY <1>4, <1>5
  DEF Sound, EditSound, AnchorSound, LoopSound, ApplySound, Loops, Reviewing, Fresh
<1> QED
  BY <1>3, <1>5, <1>7, ClickStep

LEMMA OnSetImdbRequestedStep ==
  ASSUME IInv, NEW h \in Slots, NEW f \in DOMAIN rows, OnSetImdbRequested(h, f)
  PROVE  IInv'
<1> DEFINE rec == [Idle EXCEPT !.kind = "imdb", !.file = f, !.files = {f}, !.todo = {f}]
<1>1. Idle \in HandlerType /\ Idle.step = "idle" /\ Idle.winners = {} /\ Idle.drifted = FALSE
  BY IdleSound DEF Sound, Idle
<1>2. f \in Files
  BY Lists DEF IInv, TypeInv
<1>3. Click(h, rec)
  BY DEF OnSetImdbRequested
<1>4. rec \in HandlerType
  BY <1>1, <1>2 DEF HandlerType, Kinds, Loops
<1>5. rec.kind = "imdb" /\ rec.step = "idle" /\ rec.winners = {} /\ rec.drifted = FALSE
  BY <1>1 DEF HandlerType
<1>6. rec.todo = rec.files /\ rec.files # {}
  BY <1>1 DEF HandlerType
<1> HIDE DEF rec
<1>7. Sound(rec)
  BY <1>4, <1>5, <1>6
  DEF Sound, EditSound, AnchorSound, LoopSound, ApplySound, Loops, Reviewing, Fresh
<1> QED
  BY <1>3, <1>5, <1>7, ClickStep

LEMMA OnOverrideRequestedStep ==
  ASSUME IInv, NEW h \in Slots, NEW selected \in (SUBSET DOMAIN rows) \ {{}}, OnOverrideRequested(h, selected)
  PROVE  IInv'
<1> DEFINE rec == [Idle EXCEPT !.kind = "override", !.files = selected, !.todo = selected,
                           !.edit = [manual |-> TRUE]]
<1>1. Idle \in HandlerType /\ Idle.step = "idle" /\ Idle.winners = {} /\ Idle.drifted = FALSE
  BY IdleSound DEF Sound, Idle
<1>2. selected \subseteq Files /\ selected # {}
  BY Lists DEF IInv, TypeInv
<1>3. Click(h, rec)
  BY DEF OnOverrideRequested
<1>4. rec \in HandlerType
  BY <1>1, <1>2, Sent DEF HandlerType, Kinds, Loops
<1>5. rec.kind = "override" /\ rec.step = "idle" /\ rec.winners = {} /\ rec.drifted = FALSE
  BY <1>1 DEF HandlerType
<1>6. rec.todo = rec.files /\ rec.files # {}
  BY <1>1, <1>2 DEF HandlerType
<1> HIDE DEF rec
<1>7. Sound(rec)
  BY <1>4, <1>5, <1>6
  DEF Sound, EditSound, AnchorSound, LoopSound, ApplySound, Loops, Reviewing, Fresh
<1> QED
  BY <1>3, <1>5, <1>7, ClickStep

LEMMA OnToggleSkipRequestedStep ==
  ASSUME IInv, NEW h \in Slots, NEW selected \in (SUBSET DOMAIN rows) \ {{}}, OnToggleSkipRequested(h, selected)
  PROVE  IInv'
<1> DEFINE rec == [Idle EXCEPT !.kind = "toggle", !.files = selected, !.todo = selected,
                           !.edit = [skip |-> \E f \in selected : ~rows[f].skip]]
<1>1. Idle \in HandlerType /\ Idle.step = "idle" /\ Idle.winners = {} /\ Idle.drifted = FALSE
  BY IdleSound DEF Sound, Idle
<1>2. selected \subseteq Files /\ selected # {}
  BY Lists DEF IInv, TypeInv
<1>3. Click(h, rec)
  BY DEF OnToggleSkipRequested
<1>4. rec \in HandlerType
  BY <1>1, <1>2, Sent DEF HandlerType, Kinds, Loops
<1>5. rec.kind = "toggle" /\ rec.step = "idle" /\ rec.winners = {} /\ rec.drifted = FALSE
  BY <1>1 DEF HandlerType
<1>6. rec.todo = rec.files /\ rec.files # {}
  BY <1>1, <1>2 DEF HandlerType
<1> HIDE DEF rec
<1>7. Sound(rec)
  BY <1>4, <1>5, <1>6
  DEF Sound, EditSound, AnchorSound, LoopSound, ApplySound, Loops, Reviewing, Fresh
<1> QED
  BY <1>3, <1>5, <1>7, ClickStep

LEMMA LoadedStep ==
  ASSUME IInv, NEW h \in Slots, Loaded(h)
  PROVE  IInv'
<1>1. Put(h, Idle) /\ meant' = rows' /\ cleanup' = cleanup
  BY DEF Loaded
<1>2. rows' \in RowLists
  <2>1. PICK found \in [GroupKey -> Cand \cup {NoCand}] :
          rows' = Resolved(handler[h].files, found)
    BY DEF Loaded
  <2>2. handler[h].files \in SUBSET Files
    BY ThisHandler DEF IInv, HandlerType
  <2>3. ASSUME NEW f \in handler[h].files
        PROVE  [skip |-> FALSE, manual |-> FALSE, cand |-> found[Group[f]]] \in Row
    <3>1. Group[f] \in GroupKey
      BY <2>2 DEF GroupKey
    <3> QED
      BY <3>1 DEF Row
  <2>4. Resolved(handler[h].files, found) \in [handler[h].files -> Row]
    BY <2>3 DEF Resolved
  <2> QED
    BY <2>1, <2>2, <2>4, AList
<1>3. HandlersSound'
  BY <1>1, IdleSound, OneHandler DEF IInv
<1> QED
  BY <1>1, <1>2, <1>3 DEF IInv, TypeInv, EditsKept

LEMMA SaveStep ==
  ASSUME IInv, NEW h \in Slots, Save(h)
  PROVE  IInv'
<1>1. TypeInv' /\ EditsKept'
  BY WindowStays DEF IInv, Save
<1>2. Sound(handler[h]) /\ handler[h] \in HandlerType
  BY ThisHandler DEF IInv
<1>3. handler[h].step = "dialog" /\ handler[h].kind = "edit"
  BY DEF Save, OnTop
<1>4. PICK edit \in Edits : Ask(h, [handler[h] EXCEPT !.step = "saving", !.edit = edit])
  <2>1. PICK box \in Row :
          LET sent == {"skip"} \cup (IF box.manual THEN {"manual"} ELSE {})
                               \cup (IF box.cand # NoCand THEN {"cand"} ELSE {})
          IN Ask(h, [handler[h] EXCEPT !.step = "saving", !.edit = Restrict(box, sent)])
    BY DEF Save
  <2> DEFINE sent == {"skip"} \cup (IF box.manual THEN {"manual"} ELSE {})
                              \cup (IF box.cand # NoCand THEN {"cand"} ELSE {})
  <2>2. sent \in SUBSET Fields
    BY DEF Fields
  <2>3. Restrict(box, sent) \in Edits
    BY <2>2, AnEdit
  <2> QED
    BY <2>1, <2>3
<1>5. PICK old \in HandlerType : old = handler[h]
  BY <1>2
<1> DEFINE rec == [old EXCEPT !.step = "saving", !.edit = edit]
<1>6. rec \in HandlerType
  BY DEF HandlerType, Steps
<1>7. rec.kind = old.kind /\ rec.step = "saving" /\ rec.file = old.file /\ rec.files = old.files
  BY DEF HandlerType
<1>8. Ask(h, rec)
  BY <1>4, <1>5
<1> HIDE DEF rec
<1>9. Sound(rec)
  BY <1>2, <1>3, <1>5, <1>6, <1>7
  DEF Sound, EditSound, AnchorSound, LoopSound, ApplySound, Loops, Reviewing, Fresh
<1> QED
  BY <1>1, <1>8, <1>9, Asked DEF IInv

LEMMA SavedStep ==
  ASSUME IInv, NEW h \in Slots, Saved(h)
  PROVE  IInv'
<1>1. TypeInv' /\ EditsKept'
  BY WindowStays DEF IInv, Saved
<1>2. Sound(handler[h]) /\ handler[h] \in HandlerType
  BY ThisHandler DEF IInv
<1>3. handler[h].step = "saving" /\ handler[h].kind = "edit"
  BY <1>2 DEF Saved, Answered, Sound, EditSound
<1>4. PICK old \in HandlerType : old = handler[h]
  BY <1>2
<1> SUFFICES \E rec : Sound(rec) /\ Put(h, rec)
  BY <1>1, OneHandler DEF IInv
<1>5. CASE old.file \in DOMAIN old.base
  <2>1. PICK work \in RowLists : work = Edited(old.base, old.files, old.edit)
    BY EditedIsRows DEF HandlerType
  <2> DEFINE rec == [old EXCEPT !.step = "closing", !.work = work]
  <2>2. Put(h, rec)
    BY <1>4, <1>5, <2>1 DEF Saved
  <2>3. rec \in HandlerType
    BY DEF HandlerType, Steps
  <2>4. /\ rec.kind = old.kind /\ rec.step = "closing" /\ rec.file = old.file
        /\ rec.files = old.files /\ rec.base = old.base /\ rec.work = work /\ rec.edit = old.edit
    BY DEF HandlerType
  <2> HIDE DEF rec
  <2>5. Sound(rec)
    BY <1>2, <1>3, <1>4, <2>1, <2>3, <2>4
    DEF Sound, EditSound, AnchorSound, LoopSound, ApplySound, Loops, Reviewing, Fresh
  <2> QED
    BY <2>2, <2>5
<1>6. CASE old.file \notin DOMAIN old.base
  <2> DEFINE rec == [old EXCEPT !.step = "dialog", !.edit = <<>>]
  <2>2. Put(h, rec)
    BY <1>4, <1>6 DEF Saved
  <2>3. rec \in HandlerType
    BY Sent DEF HandlerType, Steps
  <2>4. rec.kind = old.kind /\ rec.step = "dialog" /\ rec.file = old.file /\ rec.files = old.files
    BY DEF HandlerType
  <2> HIDE DEF rec
  <2>5. Sound(rec)
    BY <1>2, <1>3, <1>4, <2>3, <2>4
    DEF Sound, EditSound, AnchorSound, LoopSound, ApplySound, Loops, Reviewing, Fresh
  <2> QED
    BY <2>2, <2>5
<1> QED
  BY <1>5, <1>6

LEMMA PaneClosesStep ==
  ASSUME IInv, NEW h \in Slots, PaneCloses(h)
  PROVE  IInv'
<1>1. Sound(handler[h]) /\ handler[h] \in HandlerType
  BY ThisHandler DEF IInv
<1>2. handler[h].step = "closing" /\ Install(handler[h], handler[h].work) /\ Put(h, Idle)
  BY DEF PaneCloses, OnTop
<1>3. /\ handler[h].kind = "edit" /\ handler[h].files = {handler[h].file}
      /\ handler[h].work = Edited(handler[h].base, handler[h].files, handler[h].edit)
  BY <1>1, <1>2 DEF Sound, EditSound
<1>4. handler[h].work \in RowLists
  BY <1>1 DEF HandlerType
<1>5. TypeInv' /\ EditsKept'
  BY <1>1, <1>2, <1>3, <1>4, PaneInstalled DEF IInv
<1> QED
  BY <1>2, <1>5, IdleSound, OneHandler DEF IInv

LEMMA OrphanSavedStep ==
  ASSUME IInv, NEW h \in Slots, OrphanSaved(h)
  PROVE  IInv'
<1>1. Put(h, Idle) /\ UNCHANGED Window
  BY DEF OrphanSaved
<1> QED
  BY <1>1, WindowStays, IdleSound, OneHandler DEF IInv

LEMMA CancelStep ==
  ASSUME IInv, NEW h \in Slots, Cancel(h)
  PROVE  IInv'
<1>1. TypeInv' /\ EditsKept'
  BY WindowStays DEF IInv, Cancel
<1>2. Sound(handler[h]) /\ handler[h] \in HandlerType
  BY ThisHandler DEF IInv
<1>3. CASE Put(h, Idle)
  BY <1>1, <1>3, IdleSound, OneHandler DEF IInv
<1>4. CASE OnTop(h, "saving") /\ Put(h, [handler[h] EXCEPT !.step = "orphan"])
  <2>1. PICK old \in HandlerType : old = handler[h]
    BY <1>2
  <2> DEFINE rec == [old EXCEPT !.step = "orphan"]
  <2>2. Put(h, rec)
    BY <1>4, <2>1
  <2>3. rec \in HandlerType
    BY DEF HandlerType, Steps
  <2>4. rec.kind = old.kind /\ rec.step = "orphan" /\ rec.file = old.file /\ rec.files = old.files
    BY DEF HandlerType
  <2>5. old.kind = "edit" /\ old.files = {old.file}
    BY <1>2, <1>4, <2>1 DEF OnTop, Sound, EditSound
  <2> HIDE DEF rec
  <2>6. Sound(rec)
    BY <2>3, <2>4, <2>5
    DEF Sound, EditSound, AnchorSound, LoopSound, ApplySound, Loops, Reviewing, Fresh
  <2> QED
    BY <1>1, <2>2, <2>6, OneHandler DEF IInv
<1> QED
  BY <1>3, <1>4 DEF Cancel

LEMMA PickStep ==
  ASSUME IInv, NEW h \in Slots, Pick(h)
  PROVE  IInv'
<1>1. TypeInv' /\ EditsKept'
  BY WindowStays DEF IInv, Pick
<1>2. PICK old \in HandlerType : old = handler[h]
  BY ThisHandler DEF IInv
<1>3. old.kind = "anchor"
  BY <1>2 DEF Pick
<1>4. PICK c \in Cand :
        Ask(h, [old EXCEPT !.step = "await", !.base = rows, !.edit = [cand |-> c],
                  !.files = { f \in DOMAIN rows : Group[f] = Group[old.file] }])
  BY <1>2 DEF Pick
<1> DEFINE files == { f \in DOMAIN rows : Group[f] = Group[old.file] }
           rec == [old EXCEPT !.step = "await", !.base = rows, !.edit = [cand |-> c],
                              !.files = files]
<1>5. files \in SUBSET Files /\ rows \in RowLists
  BY Lists DEF IInv, TypeInv
<1>6. [cand |-> c] \in Edits
  BY Sent
<1>7. rec \in HandlerType
  <2> HIDE DEF files
  <2> QED
    BY <1>5, <1>6 DEF HandlerType, Steps
<1>8. /\ rec.kind = old.kind /\ rec.step = "await" /\ rec.file = old.file /\ rec.base = rows
      /\ rec.files = files /\ rec.edit = [cand |-> c]
  <2> HIDE DEF files
  <2> QED
    BY DEF HandlerType
<1>9. Ask(h, rec)
  BY <1>4
<1> HIDE DEF rec
<1>10. AnchorSound(rec)
  BY <1>8 DEF AnchorSound
<1>11. Sound(rec)
  BY <1>3, <1>7, <1>8, <1>10
  DEF Sound, EditSound, LoopSound, ApplySound, Loops, Reviewing, Fresh
<1> QED
  BY <1>1, <1>9, <1>11, Asked DEF IInv

LEMMA GroupAnchoredStep ==
  ASSUME IInv, NEW h \in Slots, GroupAnchored(h)
  PROVE  IInv'
<1>1. Sound(handler[h]) /\ handler[h] \in HandlerType
  BY ThisHandler DEF IInv
<1>2. PICK rec \in HandlerType : rec = handler[h]
  BY <1>1
<1>3. /\ rec.kind = "anchor" /\ rec.step = "await" /\ Put(h, Idle)
      /\ Install(rec, Anchored(rec.base, Group[rec.file], rec.edit.cand))
  BY <1>2 DEF GroupAnchored, Answered
<1>4. /\ rec.files = { f \in DOMAIN rec.base : Group[f] = Group[rec.file] }
      /\ \E c \in Cand : rec.edit = [cand |-> c]
  BY <1>1, <1>2, <1>3 DEF Sound, AnchorSound
<1>5. Anchored(rec.base, Group[rec.file], rec.edit.cand) = Edited(rec.base, rec.files, rec.edit)
  <2>1. rec.edit = [cand |-> rec.edit.cand]
    BY <1>4
  <2> QED
    BY <1>4, <2>1 DEF Anchored
<1>6. Edited(rec.base, rec.files, rec.edit) \in RowLists
  BY EditedIsRows DEF HandlerType
<1>7. TypeInv' /\ EditsKept'
  BY <1>3, <1>5, <1>6, Installed DEF IInv
<1> QED
  BY <1>3, <1>7, IdleSound, OneHandler DEF IInv

LEMMA EntersStep ==
  ASSUME IInv, NEW h \in Slots, Enters(h)
  PROVE  IInv'
<1>1. TypeInv' /\ EditsKept'
  BY WindowStays DEF IInv, Enters
<1>2. Sound(handler[h]) /\ handler[h] \in HandlerType
  BY ThisHandler DEF IInv
<1>3. PICK old \in HandlerType : old = handler[h]
  BY <1>2
<1>4. old.step = "dialog" /\ old.kind \in {"imdb", "override"}
  BY <1>3 DEF Enters, OnTop
<1>5. old.todo = old.files /\ old.files # {}
  BY <1>2, <1>3, <1>4 DEF Sound, LoopSound, Loops
<1>6. rows \in RowLists
  BY DEF IInv, TypeInv
<1> SUFFICES \E rec : Sound(rec) /\ Ask(h, rec)
  BY <1>1, Asked DEF IInv
<1>7. CASE old.kind = "imdb"
  <2> DEFINE rec == [old EXCEPT !.step = "find"]
  <2>1. Ask(h, rec)
    BY <1>3, <1>7 DEF Enters
  <2>2. rec \in HandlerType
    BY DEF HandlerType, Steps
  <2>3. rec.kind = old.kind /\ rec.step = "find" /\ rec.files = old.files /\ rec.todo = old.todo
    BY DEF HandlerType
  <2> HIDE DEF rec
  <2>4. Sound(rec)
    BY <1>5, <1>7, <2>2, <2>3
    DEF Sound, EditSound, AnchorSound, LoopSound, ApplySound, Loops, Reviewing, Fresh
  <2> QED
    BY <2>1, <2>4
<1>8. CASE old.kind = "override"
  <2> DEFINE rec == [old EXCEPT !.step = "await", !.base = rows, !.work = rows]
  <2>1. Ask(h, rec)
    BY <1>3, <1>8 DEF Enters
  <2>2. rec \in HandlerType
    BY <1>6 DEF HandlerType, Steps
  <2>3. /\ rec.kind = old.kind /\ rec.step = "await" /\ rec.files = old.files
        /\ rec.todo = old.todo /\ rec.base = rows /\ rec.work = rows
    BY DEF HandlerType
  <2> HIDE DEF rec
  <2>4. EditedSoFar(rec)
    BY <1>5, <1>6, <2>3, EditNothing DEF EditedSoFar
  <2>5. Sound(rec)
    BY <1>5, <1>8, <2>2, <2>3, <2>4
    DEF Sound, EditSound, AnchorSound, LoopSound, ApplySound, Loops, Reviewing, Fresh
  <2> QED
    BY <2>1, <2>5
<1> QED
  BY <1>4, <1>7, <1>8

LEMMA FoundStep ==
  ASSUME IInv, NEW h \in Slots, Found(h)
  PROVE  IInv'
<1>1. TypeInv' /\ EditsKept'
  BY WindowStays DEF IInv, Found
<1>2. Sound(handler[h]) /\ handler[h] \in HandlerType
  BY ThisHandler DEF IInv
<1>3. PICK old \in HandlerType : old = handler[h]
  BY <1>2
<1>4. old.step = "find"
  BY <1>3 DEF Found, Answered
<1>5. old.kind = "imdb" /\ old.todo = old.files /\ old.files # {}
  BY <1>2, <1>3, <1>4 DEF Sound, LoopSound, Loops
<1>6. PICK c \in Cand : Put(h, [old EXCEPT !.step = "await", !.base = rows, !.work = rows,
                                           !.edit = [cand |-> c]])
  BY <1>3 DEF Found
<1> DEFINE rec == [old EXCEPT !.step = "await", !.base = rows, !.work = rows,
                              !.edit = [cand |-> c]]
<1>7. rows \in RowLists /\ [cand |-> c] \in Edits
  BY Sent DEF IInv, TypeInv
<1>8. rec \in HandlerType
  BY <1>7 DEF HandlerType, Steps
<1>9. /\ rec.kind = old.kind /\ rec.step = "await" /\ rec.files = old.files
      /\ rec.todo = old.todo /\ rec.base = rows /\ rec.work = rows
  BY DEF HandlerType
<1>10. Put(h, rec)
  BY <1>6
<1> HIDE DEF rec
<1>11. EditedSoFar(rec)
  BY <1>5, <1>7, <1>9, EditNothing DEF EditedSoFar
<1>12. Sound(rec)
  BY <1>5, <1>8, <1>9, <1>11
  DEF Sound, EditSound, AnchorSound, LoopSound, ApplySound, Loops, Reviewing, Fresh
<1> QED
  BY <1>1, <1>10, <1>12, OneHandler DEF IInv

LEMMA RowEditedStep ==
  ASSUME IInv, NEW h \in Slots, RowEdited(h)
  PROVE  IInv'
<1>1. Sound(handler[h]) /\ handler[h] \in HandlerType
  BY ThisHandler DEF IInv
<1>2. PICK old \in HandlerType : old = handler[h]
  BY <1>1
<1>3. old.step = "await" /\ old.kind \in Loops
  BY <1>2 DEF RowEdited, Answered, Loops
<1>4. EditedSoFar(old)
  BY <1>1, <1>2, <1>3 DEF Sound, LoopSound
<1>5. PICK next : next = Min(old.todo)
  OBVIOUS
<1>6. PICK work : work = Edited(old.work, {next}, old.edit)
  OBVIOUS
<1>7. /\ next \in old.todo /\ work \in RowLists
      /\ work = Edited(old.base, old.files \ (old.todo \ {next}), old.edit)
  BY <1>4, <1>5, <1>6, OneMore
<1>8. \/ Put(h, Idle) /\ UNCHANGED Window
      \/ old.todo = {next} /\ Install(old, work) /\ Put(h, Idle)
      \/ /\ old.todo # {next}
         /\ Put(h, [old EXCEPT !.work = work, !.todo = old.todo \ {next}])
         /\ UNCHANGED Window
  BY <1>2, <1>5, <1>6 DEF RowEdited
<1>9. CASE Put(h, Idle) /\ UNCHANGED Window
  BY <1>9, WindowStays, IdleSound, OneHandler DEF IInv
<1>10. CASE old.todo = {next} /\ Install(old, work) /\ Put(h, Idle)
  <2>1. work = Edited(old.base, old.files, old.edit)
    <3>1. old.files \ (old.todo \ {next}) = old.files
      BY <1>10
    <3> QED
      BY <1>7, <3>1
  <2>2. old.kind # "edit"
    BY <1>3 DEF Loops
  <2>3. TypeInv' /\ EditsKept'
    BY <1>7, <1>10, <2>1, <2>2, Installed DEF IInv
  <2> QED
    BY <1>10, <2>3, IdleSound, OneHandler DEF IInv
<1>11. CASE /\ old.todo # {next}
            /\ Put(h, [old EXCEPT !.work = work, !.todo = old.todo \ {next}])
            /\ UNCHANGED Window
  <2>1. PICK todo \in SUBSET Files : todo = old.todo \ {next}
    BY DEF HandlerType
  <2> DEFINE rec == [old EXCEPT !.work = work, !.todo = todo]
  <2>2. rec \in HandlerType
    BY <1>7 DEF HandlerType
  <2>3. /\ rec.kind = old.kind /\ rec.step = old.step /\ rec.files = old.files
        /\ rec.todo = todo /\ rec.base = old.base /\ rec.work = work /\ rec.edit = old.edit
    BY DEF HandlerType
  <2>4. Put(h, rec)
    BY <1>11, <2>1
  <2> HIDE DEF rec
  <2>5. EditedSoFar(rec)
    BY <1>4, <1>7, <1>11, <2>1, <2>3 DEF EditedSoFar
  <2>6. Sound(rec)
    BY <1>3, <2>2, <2>3, <2>5
    DEF Sound, EditSound, AnchorSound, LoopSound, ApplySound, Loops, Reviewing, Fresh
  <2> QED
    BY <1>11, <2>4, <2>6, WindowStays, OneHandler DEF IInv
<1> QED
  BY <1>8, <1>9, <1>10, <1>11

LEMMA OnSettingsClickedStep ==
  ASSUME IInv, NEW h \in Slots, OnSettingsClicked(h)
  PROVE  IInv'
<1>1. TypeInv' /\ EditsKept'
  BY WindowStays DEF IInv, OnSettingsClicked
<1> DEFINE rec == [Idle EXCEPT !.kind = "settings", !.step = "dialog"]
<1>2. Idle \in HandlerType
  BY IdleSound DEF Sound
<1>3. rec \in HandlerType
  BY <1>2 DEF HandlerType, Kinds, Steps
<1>4. rec.kind = "settings" /\ rec.step = "dialog"
  BY <1>2 DEF HandlerType
<1>5. Put(h, rec)
  BY DEF OnSettingsClicked
<1> HIDE DEF rec
<1>6. Sound(rec)
  BY <1>3, <1>4
  DEF Sound, EditSound, AnchorSound, LoopSound, ApplySound, Loops, Reviewing, Fresh
<1> QED
  BY <1>1, <1>5, <1>6, OneHandler DEF IInv

LEMMA SettingsEnteredStep ==
  ASSUME IInv, NEW h \in Slots, SettingsEntered(h)
  PROVE  IInv'
<1>1. TypeInv' /\ EditsKept'
  BY WindowStays DEF IInv, SettingsEntered
<1>2. PICK old \in HandlerType : old = handler[h]
  BY ThisHandler DEF IInv
<1>3. old.kind = "settings"
  BY <1>2 DEF SettingsEntered
<1>4. PICK on \in BOOLEAN :
        \/ Put(h, [[old EXCEPT !.cleanup = on] EXCEPT !.step = "await"])
        \/ Put(h, [[old EXCEPT !.cleanup = on] EXCEPT !.step = "starting"])
  BY <1>2 DEF SettingsEntered
<1> DEFINE mid == [old EXCEPT !.cleanup = on]
<1>5. mid \in HandlerType
  BY DEF HandlerType
<1>6. mid.kind = "settings"
  BY <1>3 DEF HandlerType
<1>7. Put(h, [mid EXCEPT !.step = "await"]) \/ Put(h, [mid EXCEPT !.step = "starting"])
  BY <1>4
<1> HIDE DEF mid
<1>8. ASSUME NEW step \in {"await", "starting"}, Put(h, [mid EXCEPT !.step = step])
      PROVE  HandlersSound'
  <2> DEFINE rec == [mid EXCEPT !.step = step]
  <2>1. rec \in HandlerType
    BY <1>5 DEF HandlerType, Steps, Fresh
  <2>2. rec.kind = "settings" /\ rec.step = step
    BY <1>5, <1>6 DEF HandlerType
  <2>3. Put(h, rec)
    BY <1>8
  <2> HIDE DEF rec
  <2>4. Sound(rec)
    BY <2>1, <2>2
    DEF Sound, EditSound, AnchorSound, LoopSound, ApplySound, Loops, Reviewing, Fresh
  <2> QED
    BY <2>3, <2>4, OneHandler DEF IInv
<1> QED
  BY <1>1, <1>7, <1>8 DEF IInv
LEMMA SettingsSavedStep ==
  ASSUME IInv, NEW h \in Slots, SettingsSaved(h)
  PROVE  IInv'
<1>1. handler[h] \in HandlerType /\ Put(h, Idle) /\ UNCHANGED <<rows, meant>>
  BY ThisHandler DEF IInv, SettingsSaved
<1>2. cleanup' \in BOOLEAN
  BY <1>1 DEF SettingsSaved, HandlerType
<1> QED
  BY <1>1, <1>2, RowsStay, IdleSound, OneHandler DEF IInv

LEMMA CaughtStep ==
  ASSUME IInv, NEW h \in Slots, Caught(h)
  PROVE  IInv'
<1>1. Sound(handler[h]) /\ handler[h] \in HandlerType
  BY ThisHandler DEF IInv
<1>2. PICK old \in HandlerType : old = handler[h]
  BY <1>1
<1>3. TypeInv' /\ EditsKept'
  <2>1. UNCHANGED <<rows, meant>> /\ cleanup' \in BOOLEAN
    BY <1>1 DEF Caught, HandlerType, IInv, TypeInv
  <2> QED
    BY <2>1, RowsStay DEF IInv
<1>4. CASE old.step = "saving"
  <2> DEFINE rec == [old EXCEPT !.step = "dialog", !.edit = <<>>]
  <2>1. Put(h, rec)
    BY <1>2, <1>4 DEF Caught
  <2>2. rec \in HandlerType
    BY Sent DEF HandlerType, Steps
  <2>3. rec.kind = old.kind /\ rec.step = "dialog" /\ rec.file = old.file /\ rec.files = old.files
    BY DEF HandlerType
  <2>4. old.kind = "edit" /\ old.files = {old.file}
    BY <1>1, <1>2, <1>4 DEF Sound, EditSound
  <2> HIDE DEF rec
  <2>5. Sound(rec)
    BY <2>2, <2>3, <2>4
    DEF Sound, EditSound, AnchorSound, LoopSound, ApplySound, Loops, Reviewing, Fresh
  <2> QED
    BY <1>3, <2>1, <2>5, OneHandler DEF IInv
<1>5. CASE old.step # "saving"
  BY <1>2, <1>3, <1>5, IdleSound, OneHandler DEF IInv, Caught
<1> QED
  BY <1>4, <1>5

LEMMA ProceedStep ==
  ASSUME IInv, NEW h \in Slots, NEW old \in HandlerType, old.kind = "apply",
         ~old.drifted => Settled(old.base, old.winners),
         Proceed(h, old), UNCHANGED Window
  PROVE  IInv'
<1>1. TypeInv' /\ EditsKept'
  BY WindowStays DEF IInv
<1>2. PICK plan : plan = Plan(old.base)
  OBVIOUS
<1>3. plan \in SUBSET Files
  <2>1. old.base \in RowLists
    BY DEF HandlerType
  <2> QED
    BY <1>2, <2>1, Lists DEF Plan, Placed
<1>4. ~old.drifted => plan = Placed(old.base) /\ old.winners \subseteq plan
  BY <1>2 DEF Settled, Plan
<1>5. PICK step \in {"confirm", "stream"} :
        Put(h, [[old EXCEPT !.plan = plan, !.cleanup = cleanup] EXCEPT !.step = step])
  BY <1>2 DEF Proceed
<1> DEFINE ready == [old EXCEPT !.plan = plan, !.cleanup = cleanup]
           rec == [ready EXCEPT !.step = step]
<1>6. cleanup \in BOOLEAN
  BY DEF IInv, TypeInv
<1>7. ready \in HandlerType
  BY <1>3, <1>6 DEF HandlerType
<1>8. /\ ready.kind = "apply" /\ ready.base = old.base /\ ready.winners = old.winners
      /\ ready.drifted = old.drifted /\ ready.plan = plan
  BY DEF HandlerType
<1>9. Put(h, rec)
  BY <1>5
<1> HIDE DEF ready
<1>10. rec \in HandlerType
  BY <1>7 DEF HandlerType, Steps, Reviewing
<1>11. /\ rec.kind = "apply" /\ rec.step = step /\ rec.base = old.base
       /\ rec.winners = old.winners /\ rec.drifted = old.drifted /\ rec.plan = plan
  BY <1>7, <1>8 DEF HandlerType
<1> HIDE DEF rec
<1>12. Sound(rec)
  BY <1>4, <1>10, <1>11
  DEF Sound, EditSound, AnchorSound, LoopSound, ApplySound, Loops, Reviewing, Fresh
<1> QED
  BY <1>1, <1>9, <1>12, OneHandler DEF IInv

LEMMA BuiltStep ==
  ASSUME IInv, NEW h \in Slots, Built(h)
  PROVE  IInv'
<1>1. Sound(handler[h]) /\ handler[h] \in HandlerType
  BY ThisHandler DEF IInv
<1>2. PICK old \in HandlerType : old = handler[h]
  BY <1>1
<1>3. old.kind = "apply" /\ old.step = "build" /\ old.winners = {} /\ ~old.drifted
  BY <1>1, <1>2 DEF Built, Answered, Sound, ApplySound, Reviewing
<1>4. CASE Colliding(old.base) = {}
  <2>1. Settled(old.base, old.winners)
    BY <1>3, <1>4 DEF Settled
  <2> QED
    BY <1>2, <1>3, <1>4, <2>1, ProceedStep DEF Built
<1>5. CASE Colliding(old.base) # {}
  <2> DEFINE rec == [old EXCEPT !.step = "collisions"]
  <2>1. Put(h, rec) /\ UNCHANGED Window
    BY <1>2, <1>5 DEF Built
  <2>2. rec \in HandlerType
    BY DEF HandlerType, Steps, Reviewing
  <2>3. /\ rec.kind = old.kind /\ rec.step = "collisions" /\ rec.winners = old.winners
        /\ rec.drifted = old.drifted
    BY DEF HandlerType
  <2> HIDE DEF rec
  <2>4. Sound(rec)
    BY <1>3, <2>2, <2>3
    DEF Sound, EditSound, AnchorSound, LoopSound, ApplySound, Loops, Reviewing, Fresh
  <2> QED
    BY <2>1, <2>4, WindowStays, OneHandler DEF IInv
<1> QED
  BY <1>4, <1>5

LEMMA ReviewStep ==
  ASSUME IInv, NEW h \in Slots, Review(h)
  PROVE  IInv'
<1>1. TypeInv' /\ EditsKept'
  BY WindowStays DEF IInv, Review
<1>2. Sound(handler[h]) /\ handler[h] \in HandlerType
  BY ThisHandler DEF IInv
<1>3. PICK old \in HandlerType : old = handler[h]
  BY <1>2
<1>4. old.kind = "apply" /\ old.step = "collisions"
  BY <1>2, <1>3 DEF Review, OnTop, Sound, ApplySound, Reviewing
<1>5. PICK keep \in Picks(old.base) :
        LET losers == (Colliding(old.base) \ keep) \cap DOMAIN rows
            rec == [old EXCEPT !.base = rows, !.work = rows, !.winners = keep,
                      !.files = losers, !.todo = losers, !.edit = [skip |-> TRUE],
                      !.drifted = old.base # rows]
        IN Ask(h, [rec EXCEPT !.step = IF losers = {} THEN "rebuild" ELSE "skip"])
  BY <1>3 DEF Review
<1>6. PICK losers : losers = (Colliding(old.base) \ keep) \cap DOMAIN rows
  OBVIOUS
<1>7. PICK drifted \in BOOLEAN : drifted = (old.base # rows)
  OBVIOUS
<1>8. PICK step \in {"rebuild", "skip"} : step = IF losers = {} THEN "rebuild" ELSE "skip"
  OBVIOUS
<1>9. PICK edit \in Edits : edit = [skip |-> TRUE]
  BY Sent
<1>10. rows \in RowLists /\ old.base \in RowLists
  BY DEF IInv, TypeInv, HandlerType
<1>11. losers \in SUBSET Files /\ keep \in SUBSET Files
  BY <1>6, <1>10, Lists DEF Picks, Colliding, Placed
<1>12. ~drifted => Settled(Edited(rows, losers, edit), keep)
  <2> SUFFICES ASSUME old.base = rows PROVE Settled(Edited(rows, losers, edit), keep)
    BY <1>7
  <2>1. losers = Colliding(rows) \ keep
    BY <1>6 DEF Colliding, Placed
  <2> QED
    BY <1>9, <1>10, <2>1, Reviewed
<1> DEFINE mid == [old EXCEPT !.base = rows, !.work = rows, !.winners = keep,
                     !.files = losers, !.todo = losers, !.edit = edit, !.drifted = drifted]
           rec == [mid EXCEPT !.step = step]
<1>13. Ask(h, rec)
  BY <1>5, <1>6, <1>7, <1>8, <1>9
<1>14. mid \in HandlerType
  BY <1>10, <1>11 DEF HandlerType
<1>15. /\ mid.kind = old.kind /\ mid.base = rows /\ mid.work = rows /\ mid.winners = keep
       /\ mid.files = losers /\ mid.todo = losers /\ mid.edit = edit /\ mid.drifted = drifted
  BY DEF HandlerType
<1> HIDE DEF mid
<1>16. rec \in HandlerType
  BY <1>14 DEF HandlerType, Steps, Reviewing
<1>17. /\ rec.kind = "apply" /\ rec.step = step /\ rec.base = rows /\ rec.work = rows
       /\ rec.winners = keep /\ rec.files = losers /\ rec.todo = losers
       /\ rec.edit = edit /\ rec.drifted = drifted
  BY <1>4, <1>14, <1>15 DEF HandlerType
<1> HIDE DEF rec
<1>18. CASE losers = {}
  <2>1. step = "rebuild"
    BY <1>8, <1>18
  <2>2. ~drifted => Settled(rows, keep)
    BY <1>10, <1>12, <1>18, EditNothing
  <2>3. Sound(rec)
    BY <1>16, <1>17, <2>1, <2>2
    DEF Sound, EditSound, AnchorSound, LoopSound, ApplySound, Loops, Reviewing, Fresh
  <2> QED
    BY <1>1, <1>13, <2>3, Asked DEF IInv
<1>19. CASE losers # {}
  <2>1. step = "skip"
    BY <1>8, <1>19
  <2>2. EditedSoFar(rec)
    BY <1>10, <1>17, <1>19, EditNothing DEF EditedSoFar
  <2>3. Sound(rec)
    BY <1>12, <1>16, <1>17, <2>1, <2>2
    DEF Sound, EditSound, AnchorSound, LoopSound, ApplySound, Loops, Reviewing, Fresh
  <2> QED
    BY <1>1, <1>13, <2>3, Asked DEF IInv
<1> QED
  BY <1>18, <1>19

LEMMA SkippedStep ==
  ASSUME IInv, NEW h \in Slots, Skipped(h)
  PROVE  IInv'
<1>1. Sound(handler[h]) /\ handler[h] \in HandlerType
  BY ThisHandler DEF IInv
<1>2. PICK old \in HandlerType : old = handler[h]
  BY <1>1
<1>3. old.step = "skip" /\ old.kind = "apply"
  BY <1>1, <1>2 DEF Skipped, Answered, Sound, ApplySound, Reviewing
<1>4. /\ EditedSoFar(old)
      /\ ~old.drifted => Settled(Edited(old.base, old.files, old.edit), old.winners)
  BY <1>1, <1>2, <1>3 DEF Sound, ApplySound
<1>5. PICK next : next = Min(old.todo)
  OBVIOUS
<1>6. PICK work : work = Edited(old.work, {next}, old.edit)
  OBVIOUS
<1>7. /\ next \in old.todo /\ work \in RowLists
      /\ work = Edited(old.base, old.files \ (old.todo \ {next}), old.edit)
  BY <1>4, <1>5, <1>6, OneMore
<1>8. \/ /\ old.todo = {next} /\ Install(old, work)
         /\ Put(h, [old EXCEPT !.step = "rebuild", !.base = work, !.work = work, !.todo = {}])
      \/ /\ old.todo # {next} /\ UNCHANGED Window
         /\ Put(h, [old EXCEPT !.work = work, !.todo = old.todo \ {next}])
  BY <1>2, <1>5, <1>6 DEF Skipped
<1>9. CASE /\ old.todo = {next} /\ Install(old, work)
           /\ Put(h, [old EXCEPT !.step = "rebuild", !.base = work, !.work = work, !.todo = {}])
  <2>1. work = Edited(old.base, old.files, old.edit)
    <3>1. old.files \ (old.todo \ {next}) = old.files
      BY <1>9
    <3> QED
      BY <1>7, <3>1
  <2>2. TypeInv' /\ EditsKept'
    BY <1>3, <1>7, <1>9, <2>1, Installed DEF IInv
  <2> DEFINE rec == [old EXCEPT !.step = "rebuild", !.base = work, !.work = work, !.todo = {}]
  <2>3. rec \in HandlerType
    BY <1>7 DEF HandlerType, Steps, Reviewing
  <2>4. /\ rec.kind = old.kind /\ rec.step = "rebuild" /\ rec.base = work
        /\ rec.winners = old.winners /\ rec.drifted = old.drifted
    BY DEF HandlerType
  <2>5. Put(h, rec)
    BY <1>9
  <2> HIDE DEF rec
  <2>6. ~rec.drifted => Settled(rec.base, rec.winners)
    BY <1>4, <2>1, <2>4
  <2>7. Sound(rec)
    BY <1>3, <2>3, <2>4, <2>6
    DEF Sound, EditSound, AnchorSound, LoopSound, ApplySound, Loops, Reviewing, Fresh
  <2> QED
    BY <2>2, <2>5, <2>7, OneHandler DEF IInv
<1>10. CASE /\ old.todo # {next} /\ UNCHANGED Window
            /\ Put(h, [old EXCEPT !.work = work, !.todo = old.todo \ {next}])
  <2>1. PICK todo \in SUBSET Files : todo = old.todo \ {next}
    BY DEF HandlerType
  <2> DEFINE rec == [old EXCEPT !.work = work, !.todo = todo]
  <2>2. rec \in HandlerType
    BY <1>7 DEF HandlerType
  <2>3. /\ rec.kind = old.kind /\ rec.step = old.step /\ rec.files = old.files
        /\ rec.todo = todo /\ rec.base = old.base /\ rec.work = work /\ rec.edit = old.edit
        /\ rec.winners = old.winners /\ rec.drifted = old.drifted
    BY DEF HandlerType
  <2>4. Put(h, rec)
    BY <1>10, <2>1
  <2> HIDE DEF rec
  <2>5. EditedSoFar(rec)
    BY <1>4, <1>7, <1>10, <2>1, <2>3 DEF EditedSoFar
  <2>6. ~rec.drifted => Settled(Edited(rec.base, rec.files, rec.edit), rec.winners)
    BY <1>4, <2>3
  <2>7. Sound(rec)
    BY <1>3, <2>2, <2>3, <2>5, <2>6
    DEF Sound, EditSound, AnchorSound, LoopSound, ApplySound, Loops, Reviewing, Fresh
  <2> QED
    BY <1>10, <2>4, <2>7, WindowStays, OneHandler DEF IInv
<1> QED
  BY <1>8, <1>9, <1>10

LEMMA RebuiltStep ==
  ASSUME IInv, NEW h \in Slots, Rebuilt(h)
  PROVE  IInv'
<1>1. Sound(handler[h]) /\ handler[h] \in HandlerType
  BY ThisHandler DEF IInv
<1>2. handler[h].step = "rebuild" /\ Proceed(h, handler[h]) /\ UNCHANGED Window
  BY DEF Rebuilt, Answered
<1>3. /\ handler[h].kind = "apply"
      /\ ~handler[h].drifted => Settled(handler[h].base, handler[h].winners)
  BY <1>1, <1>2 DEF Sound, ApplySound, Reviewing
<1> QED
  BY <1>1, <1>2, <1>3, ProceedStep

LEMMA ConfirmStep ==
  ASSUME IInv, NEW h \in Slots, Confirm(h)
  PROVE  IInv'
<1>1. TypeInv' /\ EditsKept'
  BY WindowStays DEF IInv, Confirm
<1>2. Sound(handler[h]) /\ handler[h] \in HandlerType
  BY ThisHandler DEF IInv
<1>3. PICK old \in HandlerType : old = handler[h]
  BY <1>2
<1>4. old.step = "confirm" /\ Ask(h, [old EXCEPT !.step = "stream"])
  BY <1>3 DEF Confirm, OnTop
<1>5. /\ old.kind = "apply"
      /\ ~old.drifted => old.plan = Placed(old.base) /\ old.winners \subseteq old.plan
  BY <1>2, <1>3, <1>4 DEF Sound, ApplySound, Reviewing
<1> DEFINE rec == [old EXCEPT !.step = "stream"]
<1>6. rec \in HandlerType
  BY DEF HandlerType, Steps, Reviewing
<1>7. /\ rec.kind = old.kind /\ rec.step = "stream" /\ rec.base = old.base
      /\ rec.plan = old.plan /\ rec.winners = old.winners /\ rec.drifted = old.drifted
  BY DEF HandlerType
<1>8. Ask(h, rec)
  BY <1>4
<1> HIDE DEF rec
<1>9. Sound(rec)
  BY <1>5, <1>6, <1>7
  DEF Sound, EditSound, AnchorSound, LoopSound, ApplySound, Loops, Reviewing, Fresh
<1> QED
  BY <1>1, <1>8, <1>9, Asked DEF IInv

LEMMA StreamedStep ==
  ASSUME IInv, NEW h \in Slots, Streamed(h)
  PROVE  IInv'
<1>1. Put(h, Idle) /\ UNCHANGED Window
  BY DEF Streamed
<1> QED
  BY <1>1, WindowStays, IdleSound, OneHandler DEF IInv

-----------------------------------------------------------------------------
(* The invariant                                                           *)

LEMMA AtFirst == Init => IInv
<1> SUFFICES ASSUME Init PROVE IInv
  OBVIOUS
<1>1. TypeInv /\ EditsKept
  BY NoRows DEF Init, TypeInv, EditsKept
<1>2. HandlersSound
  BY IdleSound DEF Init, HandlersSound
<1> QED
  BY <1>1, <1>2 DEF IInv

LEMMA UserStep ==
  ASSUME IInv, NEW h \in Slots, User(h)
  PROVE  IInv'
BY OnPathsDroppedStep, OnPreviewClickedStep, OnApplyClickedStep, OnSettingsClickedStep,
   OnSourceRowActivatedStep, OnGroupAnchorRequestedStep, OnSetImdbRequestedStep,
   OnOverrideRequestedStep, OnToggleSkipRequestedStep, SaveStep, CancelStep, PickStep,
   EntersStep, SettingsEnteredStep, ReviewStep, ConfirmStep
DEF User

LEMMA ResumesStep ==
  ASSUME IInv, NEW h \in Slots, Resumes(h)
  PROVE  IInv'
<1>1. Failed(h) => Caught(h)
  BY DEF Failed
<1> QED
  BY <1>1, StartedStep, PaneClosesStep, CaughtStep, LoadedStep, SavedStep, OrphanSavedStep,
     GroupAnchoredStep, FoundStep, RowEditedStep, SettingsSavedStep, BuiltStep, SkippedStep,
     RebuiltStep, StreamedStep
  DEF Resumes

LEMMA EachStep == IInv /\ [Next]_vars => IInv'
<1> SUFFICES ASSUME IInv, [Next]_vars PROVE IInv'
  OBVIOUS
<1>1. ASSUME NEW h \in Slots, User(h) \/ Resumes(h) \/ Refused(h) PROVE IInv'
  BY <1>1, UserStep, ResumesStep, CaughtStep DEF Refused
<1>2. CASE EngineDies
  <2>1. handler' = handler /\ UNCHANGED Window
    BY <1>2 DEF EngineDies
  <2> QED
    BY <2>1, WindowStays, NoHandler DEF IInv
<1>3. CASE Restarted
  <2>1. handler' = handler /\ UNCHANGED Window
    BY <1>3 DEF Restarted
  <2> QED
    BY <2>1, WindowStays, NoHandler DEF IInv
<1>4. CASE UNCHANGED vars
  <2>1. handler' = handler /\ UNCHANGED Window
    BY <1>4 DEF vars, Window
  <2> QED
    BY <2>1, WindowStays, NoHandler DEF IInv
<1> QED
  BY <1>1, <1>2, <1>3, <1>4 DEF Next

LEMMA Invariance == Spec => []IInv
<1> QED
  BY AtFirst, EachStep, PTL DEF Spec

-----------------------------------------------------------------------------
(* Theorems                                                                *)

\* No answer that comes back to MainWindow undoes an edit made while it was
\* away, unless its request left with rows the window no longer has: the rows
\* shown are at all times what the user has made of them.
THEOREM EditsStay == Spec => []EditsKept
<1>1. IInv => EditsKept
  BY DEF IInv
<1> QED
  BY <1>1, Invariance, PTL

\* What OnApplyClicked sends to apply_plan has every placed row of the list and
\* every file picked among the colliding ones, whatever was skipped in between,
\* unless the rows changed while the collisions were on screen.
THEOREM NothingIsLeftOut == Spec => NothingLeftOut
<1> DEFINE A == \A h \in Slots :
                  handler[h].step # "stream" /\ handler'[h].step = "stream" /\ ~handler'[h].drifted =>
                    /\ handler'[h].plan = Placed(handler'[h].base)
                    /\ handler'[h].winners \subseteq handler'[h].plan
<1>1. IInv' => A
  BY DEF IInv, HandlersSound, Sound, ApplySound
<1>2. IInv' => [A]_vars
  BY <1>1
<1> HIDE DEF A
<1>3. Spec => [][A]_vars
  BY <1>2, Invariance, PTL
<1> QED
  BY <1>3 DEF A, NothingLeftOut
=============================================================================
