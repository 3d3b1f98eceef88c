---------------------------- MODULE ReviewProofs ----------------------------
(***************************************************************************)
(* What ReviewQueue guarantees for every list of files, every planner,     *)
(* every number of workers, keys and I/O errors.                           *)
(***************************************************************************)
EXTENDS ReviewQueue, SequenceTheorems, FiniteSetTheorems, WellFoundedInduction, TLAPS

-----------------------------------------------------------------------------
(* The inductive invariant, in named parts                                 *)

Anchor == Candidate \cup {NoAnchor}
RowType == [file : Files, anchor : Anchor]

\* Plans: some files and where each goes.
Plans == UNION { [F -> Target] : F \in SUBSET Files }
Overrides(K) == UNION { [D -> Anchor] : D \in SUBSET K }
Injective(ops) == \A f, g \in DOMAIN ops : ops[f] = ops[g] => f = g

\* Files the loader has brought so far.
Brought == { f \in Files : f < next }

Steps == {"idle", "op", "copy", "clean", "done"}
WorkerType == [step : Steps, ops : Plans, todo : SUBSET Files, failed : BOOLEAN,
               unlink : SUBSET Files, converted : SUBSET Files]

RowsTyped ==
  /\ rows \in Seq(RowType) /\ next \in 1 .. MaxFiles + 1
  /\ table \in Seq(DOMAIN rows)
  /\ cursor \in Nat \ {0}
  /\ table # <<>> => cursor \in DOMAIN table
  /\ Listed \subseteq Brought

ScreenTyped ==
  /\ screen \in [kind : {"none", "detail", "delete", "confirm"}, file : Brought \cup {0},
                 ops : Plans]
  /\ screen.kind = "detail" => screen.file \in Files
  /\ DOMAIN screen.ops \subseteq Brought
  /\ Injective(screen.ops)

OverridesTyped ==
  /\ overrides \in [groups : Overrides(Range(Group)), rows : Overrides(Files)]

DiskTyped ==
  /\ source \subseteq Files
  /\ library \in [Target -> Files \cup {Absent, Partial}]

Sound(rec) ==
  /\ rec \in WorkerType
  /\ DOMAIN rec.ops \subseteq Brought
  /\ rec.todo \subseteq DOMAIN rec.ops
  /\ rec.unlink \subseteq DOMAIN rec.ops
  /\ rec.step = "copy" => rec.todo # {}
  /\ rec.step = "clean" => rec.todo = {} /\ ~rec.failed
WorkersTyped ==
  /\ worker \in [Workers -> WorkerType]
  /\ \A w \in Workers : Sound(worker[w])

TypeInv == RowsTyped /\ ScreenTyped /\ OverridesTyped /\ DiskTyped /\ WorkersTyped

\* What the loader has yet to bring is where it was.
Unbrought == Files \ Brought \subseteq source

\* No plan under way has two files for one path, and no two have a file or a
\* path in common but those counted as risked.
Apart ==
  /\ \A w \in Workers : Injective(worker[w].ops)
  /\ \A v, w \in Workers : v # w /\ Busy(v) /\ Busy(w) =>
       \A f \in DOMAIN worker[v].ops \ risked :
         /\ f \notin DOMAIN worker[w].ops
         /\ \A g \in DOMAIN worker[w].ops : worker[w].ops[g] # worker[v].ops[f]

\* What stands at a path an apply will write to is its own file or risked.
Cleared ==
  \A w \in Workers : Busy(w) =>
    \A g \in DOMAIN worker[w].ops :
      library[worker[w].ops[g]] \in {Absent, Partial, g} \cup risked

\* As long as nothing failed, what an apply has behind it is in the library.
Arrived ==
  \A w \in Workers : Busy(w) /\ ~worker[w].failed =>
    \A f \in DOMAIN worker[w].ops \ (worker[w].todo \cup risked) :
      library[worker[w].ops[f]] = f

\* An apply owes the list every file it may take, or none asked for the row.
Owed ==
  /\ \A w \in Workers : Busy(w) => DOMAIN worker[w].ops \subseteq worker[w].converted \cup hidden
  /\ \A f \in Listed : f \in source \cup hidden \/ \E w \in Workers : Busy(w) /\ f \in worker[w].converted

\* The file holds the overrides unless its last save failed; the rows they name
\* are movies, and in the list unless decided on late.
OverridesFit ==
  /\ ~unsaved => saved = overrides
  /\ DOMAIN overrides.rows \subseteq (Listed \cup late) \ Tv

\* A row shows what the user decided last, and the overrides say the same.
Settled ==
  /\ settled \subseteq Brought
  /\ \A i \in DOMAIN rows :
       rows[i].file \in settled => rows[i].anchor = AnchorIn(overrides, rows[i].file)

IInv == /\ TypeInv /\ Unbrought /\ Apart /\ Cleared /\ Arrived /\ Owed
        /\ NothingLost /\ OverridesFit /\ Settled

-----------------------------------------------------------------------------
(* Lists                                                                   *)

LEMMA LeastNat ==
  ASSUME NEW T \in SUBSET Nat, T # {}
  PROVE  \E x \in T : \A y \in T : x <= y
<1> DEFINE R == {ss \in Nat \X Nat : ss[1] < ss[2]}
<1>1. IsWellFoundedOn(R, Nat)
  BY NatLessThanWellFounded DEF OpToRel
<1>2. PICK x \in T : \A y \in T : <<y, x>> \notin R
  <2> HIDE DEF R
  <2> QED BY <1>1, WFMin
<1>3. ASSUME NEW y \in T PROVE x <= y
  <2>1. x \in Nat /\ y \in Nat /\ <<y, x>> \notin R
    BY <1>2
  <2> QED BY <2>1
<1> QED
  BY <1>3

\* R orders P.
Orders(R, P) ==
  /\ \A i \in P : <<i, i>> \in R
  /\ \A i, j \in P : <<i, j>> \in R \/ <<j, i>> \in R
  /\ \A i, j \in P : <<i, j>> \in R /\ <<j, i>> \in R => i = j
  /\ \A i, j, k \in P : <<i, j>> \in R /\ <<j, k>> \in R => <<i, k>> \in R

RankIn(R, P) == [i \in P |-> Cardinality({j \in P : <<j, i>> \in R})]

\* Every n of 1 .. Cardinality is the rank of one element.
LEMMA Ranks ==
  ASSUME NEW P, IsFiniteSet(P), NEW R, Orders(R, P)
  PROVE  /\ RankIn(R, P) \in Injection(P, 1 .. Cardinality(P))
         /\ \A n \in 1 .. Cardinality(P) : \E i \in P : RankIn(R, P)[i] = n
<1> USE DEF Orders
<1> DEFINE Upto(i) == {j \in P : <<j, i>> \in R}
           rank == RankIn(R, P)
<1>1. ASSUME NEW i \in P
      PROVE  IsFiniteSet(Upto(i)) /\ Cardinality(Upto(i)) \in 1 .. Cardinality(P)
  <2>1. Upto(i) \in SUBSET P /\ i \in Upto(i)
    OBVIOUS
  <2>2. IsFiniteSet(Upto(i)) /\ Cardinality(Upto(i)) <= Cardinality(P)
    BY <2>1, FS_Subset
  <2>3. Cardinality(Upto(i)) # 0
    BY <2>1, <2>2, FS_EmptySet
  <2>4. Cardinality(Upto(i)) \in Nat /\ Cardinality(P) \in Nat
    BY <2>2, FS_CardinalityType
  <2> HIDE DEF Upto
  <2> QED BY <2>2, <2>3, <2>4
<1>2. ASSUME NEW i \in P, NEW k \in P, i # k, <<i, k>> \in R
      PROVE  Cardinality(Upto(i)) # Cardinality(Upto(k))
  <2>1. Upto(i) \in SUBSET Upto(k) /\ k \in Upto(k) /\ k \notin Upto(i)
    BY <1>2
  <2> HIDE DEF Upto
  <2> QED BY <1>1, <2>1, FS_Subset
<1>3. rank \in Injection(P, 1 .. Cardinality(P))
  <2>1. \A i \in P : rank[i] = Cardinality(Upto(i))
    BY DEF RankIn
  <2>2. rank \in [P -> 1 .. Cardinality(P)]
    <3>1. rank = [i \in P |-> Cardinality(Upto(i))]
      BY DEF RankIn
    <3> HIDE DEF Upto, rank
    <3> QED BY <1>1, <3>1
  <2>3. \A i, k \in P : rank[i] = rank[k] => i = k
    <3> SUFFICES ASSUME NEW i \in P, NEW k \in P, rank[i] = rank[k], i # k PROVE FALSE
      OBVIOUS
    <3>1. Cardinality(Upto(i)) = Cardinality(Upto(k))
      BY <2>1
    <3>2. <<i, k>> \in R \/ <<k, i>> \in R
      OBVIOUS
    <3> HIDE DEF Upto, rank
    <3> QED BY <1>2, <3>1, <3>2
  <2> HIDE DEF Upto, rank
  <2> QED BY <2>2, <2>3 DEF Injection, IsInjective
<1>4. Cardinality(P) \in Nat
  BY FS_CardinalityType
<1>5. IsFiniteSet(1 .. Cardinality(P)) /\ Cardinality(1 .. Cardinality(P)) = Cardinality(P)
  BY <1>4, FS_Interval
<1>6. rank \in Surjection(P, 1 .. Cardinality(P))
  BY <1>3, <1>5, FS_Injection
<1> QED BY <1>3, <1>6 DEF Surjection

\* A ranked list has the elements of s at the ranked places, and no others.
LEMMA RankedIs ==
  ASSUME NEW S, NEW s \in Seq(S), NEW P \in SUBSET DOMAIN s,
         NEW rank \in Injection(P, 1 .. Cardinality(P)),
         \A n \in 1 .. Cardinality(P) : \E i \in P : rank[i] = n
  PROVE  /\ Ranked(s, rank) \in Seq(S)
         /\ Len(Ranked(s, rank)) = Cardinality(P)
         /\ Range(Ranked(s, rank)) = {s[i] : i \in P}
         /\ \A i \in P : Ranked(s, rank)[rank[i]] = s[i]
<1> DEFINE place(n) == CHOOSE i \in P : rank[i] = n
           m == Cardinality(P)
<1>1. DOMAIN rank = P /\ \A i \in P : rank[i] \in 1 .. m
  BY DEF Injection, IsInjective
<1>2. m \in Nat
  <2>1. IsFiniteSet(DOMAIN s)
    BY FS_Interval
  <2> QED BY <2>1, FS_Subset, FS_CardinalityType
<1>3. ASSUME NEW n \in 1 .. m PROVE place(n) \in P /\ rank[place(n)] = n
  OBVIOUS
<1>4. ASSUME NEW i \in P PROVE place(rank[i]) = i
  BY <1>1, <1>3 DEF Injection, IsInjective
<1>5. Ranked(s, rank) = [n \in 1 .. m |-> s[place(n)]]
  BY <1>1 DEF Ranked
<1> HIDE DEF place, m
<1>6. \A n \in 1 .. m : s[place(n)] \in S
  BY <1>3
<1>7. Ranked(s, rank) \in Seq(S) /\ Len(Ranked(s, rank)) = m
  BY <1>2, <1>5, <1>6
<1>8. \A i \in P : Ranked(s, rank)[rank[i]] = s[i]
  BY <1>1, <1>4, <1>5
<1>9. DOMAIN Ranked(s, rank) = 1 .. m
  BY <1>5
<1>10. Range(Ranked(s, rank)) = {s[i] : i \in P}
  <2>1. Range(Ranked(s, rank)) = {Ranked(s, rank)[n] : n \in 1 .. m}
    BY <1>9 DEF Range
  <2>2. \A n \in 1 .. m : Ranked(s, rank)[n] = s[place(n)]
    BY <1>5
  <2> QED BY <1>1, <1>3, <1>8, <2>1, <2>2
<1> QED BY <1>7, <1>8, <1>10 DEF m

\* A kept list has the elements of s at the places, and starts with the first.
LEMMA KeptIs ==
  ASSUME NEW S, NEW s \in Seq(S), NEW places
  PROVE  /\ Kept(s, places) \in Seq(S)
         /\ Range(Kept(s, places)) = {s[i] : i \in places \cap DOMAIN s}
         /\ 1 \in places /\ s # <<>> => Kept(s, places) # <<>> /\ Kept(s, places)[1] = s[1]
<1> DEFINE P == places \cap DOMAIN s
           R == {p \in P \X P : p[1] <= p[2]}
           rank == [i \in P |-> Cardinality({j \in P : j <= i})]
<1>1. IsFiniteSet(P) /\ P \in SUBSET Nat
  BY FS_Interval, FS_Subset
<1>2. rank = RankIn(R, P)
  <2>1. ASSUME NEW i \in P PROVE {j \in P : j <= i} = {j \in P : <<j, i>> \in R}
    OBVIOUS
  <2> QED BY <2>1 DEF RankIn
<1>3. Orders(R, P)
  BY <1>1 DEF Orders
<1>4. Kept(s, places) = Ranked(s, rank)
  BY DEF Kept
<1>5. 1 \in P => rank[1] = 1
  <2> SUFFICES ASSUME 1 \in P PROVE rank[1] = 1
    OBVIOUS
  <2>1. {j \in P : j <= 1} = {1}
    BY <1>1
  <2> QED BY <2>1, FS_Singleton
<1>6. P \in SUBSET DOMAIN s
  OBVIOUS
<1>7. s # <<>> => 1 \in DOMAIN s
  BY EmptySeq
<1>8. 1 \in places /\ s # <<>> => 1 \in P
  BY <1>7
<1>9. P = places \cap DOMAIN s
  OBVIOUS
<1> HIDE DEF P, R, rank
<1>10. rank \in Injection(P, 1 .. Cardinality(P)) /\ \A n \in 1 .. Cardinality(P) : \E i \in P : rank[i] = n
  BY <1>1, <1>2, <1>3, Ranks
<1>11. /\ Ranked(s, rank) \in Seq(S)
       /\ Len(Ranked(s, rank)) = Cardinality(P)
       /\ Range(Ranked(s, rank)) = {s[i] : i \in P}
       /\ \A i \in P : Ranked(s, rank)[rank[i]] = s[i]
  BY <1>6, <1>10, RankedIs
<1>12. 1 \in P => Ranked(s, rank) # <<>> /\ Ranked(s, rank)[1] = s[1]
  <2> SUFFICES ASSUME 1 \in P PROVE Ranked(s, rank) # <<>> /\ Ranked(s, rank)[1] = s[1]
    OBVIOUS
  <2>1. Cardinality(P) # 0
    BY <1>1, FS_EmptySet
  <2>2. Ranked(s, rank) # <<>>
    BY <1>11, <2>1, EmptySeq
  <2> QED BY <1>5, <1>11, <2>2
<1> QED BY <1>4, <1>8, <1>9, <1>11, <1>12

LEMMA Refreshed ==
  ASSUME NEW rs \in Seq(RowType), NEW mode, cursor \in Nat \ {0}, Refresh(rs, mode)
  PROVE  /\ table' \in Seq(DOMAIN rs)
         /\ cursor' \in Nat \ {0}
         /\ table' # <<>> => cursor' \in DOMAIN table'
<1> DEFINE places == { i \in DOMAIN rs : mode = "all" \/ rs[i].anchor = NoAnchor }
           all == [i \in DOMAIN rs |-> i]
<1>1. all \in Seq(DOMAIN rs)
  OBVIOUS
<1>2. table' = Kept(all, places)
  BY DEF Refresh, Visible
<1>3. table' \in Seq(DOMAIN rs)
  <2> HIDE DEF all, places
  <2> QED BY <1>1, <1>2, KeptIs
<1>4. CASE table' = <<>>
  BY <1>3, <1>4 DEF Refresh
<1>5. CASE table' # <<>>
  <2>1. Len(table') \in Nat \ {0} /\ DOMAIN table' = 1 .. Len(table')
    BY <1>3, <1>5
  <2>2. cursor' = Min({cursor, Len(table')})
    BY <1>5 DEF Refresh
  <2>3. ASSUME NEW a \in Nat \ {0}, NEW b \in Nat \ {0} PROVE Min({a, b}) \in 1 .. b
    <3>1. \E x \in {a, b} : \A y \in {a, b} : x <= y
      <4>1. CASE a <= b  BY <4>1
      <4>2. CASE b <= a  BY <4>2
      <4> QED BY <4>1, <4>2
    <3>2. Min({a, b}) \in {a, b} /\ \A y \in {a, b} : Min({a, b}) <= y
      BY <3>1 DEF Min
    <3> QED BY <3>2
  <2>4. cursor' \in 1 .. Len(table')
    BY <2>1, <2>2, <2>3
  <2> QED BY <1>3, <2>1, <2>4
<1> QED BY <1>4, <1>5

LEMMA Removed ==
  ASSUME RowsTyped, OverridesTyped, NEW files, RemoveRows(files)
  PROVE  /\ rows' \in Seq(RowType)
         /\ Listed' = Listed \ files
         /\ table' \in Seq(DOMAIN rows')
         /\ cursor' \in Nat \ {0}
         /\ table' # <<>> => cursor' \in DOMAIN table'
         /\ overrides' \in [groups : Overrides(Range(Group)), rows : Overrides(Files)]
         /\ DOMAIN overrides'.rows = DOMAIN overrides.rows \ (files \cap Listed)
         /\ \A f : f \notin files => AnchorIn(overrides', f) = AnchorIn(overrides, f)
         /\ \A i \in DOMAIN rows' : \E j \in DOMAIN rows : rows'[i] = rows[j] /\ rows[j].file \notin files
         /\ UNCHANGED <<overrides, saved, unsaved>> \/ (~unsaved' => saved' = overrides')
<1> DEFINE places == { i \in DOMAIN rows : rows[i].file \notin files }
<1>1. rows' = Kept(rows, places) /\ rows \in Seq(RowType)
  BY DEF RemoveRows, RowsTyped
<1>2. rows' \in Seq(RowType) /\ Range(rows') = { rows[i] : i \in DOMAIN rows \cap places }
  <2> HIDE DEF places
  <2>1. Kept(rows, places) \in Seq(RowType)
    BY <1>1, KeptIs
  <2>2. Range(Kept(rows, places)) = { rows[i] : i \in DOMAIN rows \cap places }
    BY <1>1, KeptIs
  <2> QED BY <1>1, <2>1, <2>2
<1>3. Listed' = { r.file : r \in Range(rows') } /\ Listed = { r.file : r \in Range(rows) }
  BY DEF Listed, Range
<1>4. Listed' = Listed \ files
  <2>1. Listed' = { r.file : r \in { rows[i] : i \in DOMAIN rows \cap places } }
    BY <1>2, <1>3
  <2> QED BY <2>1 DEF Listed
<1>5. Refresh(rows', filter)
  BY DEF RemoveRows
<1>6. /\ table' \in Seq(DOMAIN rows')
      /\ cursor' \in Nat \ {0}
      /\ table' # <<>> => cursor' \in DOMAIN table'
  BY <1>2, <1>5, Refreshed DEF RowsTyped
<1> DEFINE kept == Restrict(overrides.rows, DOMAIN overrides.rows \ (files \cap Listed))
<1>7. PICK g \in Overrides(Range(Group)), m \in Overrides(Files) : overrides = [groups |-> g, rows |-> m]
  BY DEF OverridesTyped
<1>8. overrides' = [groups |-> g, rows |-> Restrict(m, DOMAIN m \ (files \cap Listed))]
  <2>1. CASE files \cap Listed = {}
    <3>1. m = [k \in DOMAIN m |-> m[k]]
      BY DEF Overrides
    <3>2. DOMAIN m \ (files \cap Listed) = DOMAIN m
      BY <2>1
    <3>3. overrides' = overrides
      BY <2>1 DEF RemoveRows, saving
    <3> QED BY <1>7, <3>1, <3>2, <3>3 DEF Restrict
  <2>2. CASE files \cap Listed # {}
    BY <1>7, <2>2 DEF RemoveRows, PersistOverrides
  <2> QED BY <2>1, <2>2
<1>9. /\ Restrict(m, DOMAIN m \ (files \cap Listed)) \in Overrides(Files)
      /\ DOMAIN Restrict(m, DOMAIN m \ (files \cap Listed)) = DOMAIN m \ (files \cap Listed)
  <2>1. PICK D \in SUBSET Files : m \in [D -> Anchor]
    BY DEF Overrides
  <2>2. Restrict(m, D \ (files \cap Listed)) \in [D \ (files \cap Listed) -> Anchor]
    BY <2>1 DEF Restrict
  <2>3. DOMAIN m = D /\ D \ (files \cap Listed) \in SUBSET Files
    BY <2>1
  <2> QED BY <2>2, <2>3 DEF Overrides
<1>10. ASSUME NEW f, f \notin files PROVE AnchorIn(overrides', f) = AnchorIn(overrides, f)
  <2>1. f \in DOMAIN m \ (files \cap Listed) <=> f \in DOMAIN m
    BY <1>10
  <2>2. f \in DOMAIN m => Restrict(m, DOMAIN m \ (files \cap Listed))[f] = m[f]
    BY <2>1 DEF Restrict
  <2>3. overrides'.groups = overrides.groups
    BY <1>7, <1>8
  <2> QED BY <1>7, <1>8, <1>9, <2>1, <2>2, <2>3 DEF AnchorIn
<1>11. UNCHANGED <<overrides, saved, unsaved>> \/ (~unsaved' => saved' = overrides')
  BY DEF RemoveRows, PersistOverrides, saving
<1>13. ASSUME NEW i \in DOMAIN rows'
       PROVE  \E j \in DOMAIN rows : rows'[i] = rows[j] /\ rows[j].file \notin files
  <2>1. rows'[i] \in Range(rows')
    BY DEF Range
  <2> QED BY <1>2, <2>1
<1>12. /\ overrides' \in [groups : Overrides(Range(Group)), rows : Overrides(Files)]
       /\ DOMAIN overrides'.rows = DOMAIN overrides.rows \ (files \cap Listed)
  BY <1>7, <1>8, <1>9
<1> QED BY <1>2, <1>4, <1>6, <1>10, <1>11, <1>12, <1>13

LEMMA RecordedIs ==
  ASSUME NEW K, NEW m \in Overrides(K), NEW key \in K, NEW anchor \in Anchor
  PROVE  /\ Recorded(m, key, anchor) \in Overrides(K)
         /\ DOMAIN Recorded(m, key, anchor) \subseteq DOMAIN m \cup {key}
         /\ anchor = (IF key \in DOMAIN Recorded(m, key, anchor)
                      THEN Recorded(m, key, anchor)[key] ELSE NoAnchor)
         /\ \A k : k # key => (k \in DOMAIN Recorded(m, key, anchor) <=> k \in DOMAIN m)
         /\ \A k : k # key => (k \in DOMAIN m => Recorded(m, key, anchor)[k] = m[k])
<1>1. PICK D \in SUBSET K : m \in [D -> Anchor]
  BY DEF Overrides
<1> DEFINE new == Recorded(m, key, anchor)
<1>2. CASE anchor = NoAnchor
  <2>1. new = [k \in D \ {key} |-> m[k]]
    BY <1>1, <1>2 DEF Recorded, Restrict
  <2> HIDE DEF new
  <2>2. new \in [D \ {key} -> Anchor] /\ D \ {key} \in SUBSET K
    BY <1>1, <2>1
  <2>3. new \in Overrides(K) /\ DOMAIN new \subseteq DOMAIN m \cup {key}
    BY <1>1, <2>2 DEF Overrides
  <2>4. key \notin DOMAIN new
    BY <2>1
  <2>5. /\ \A k : k # key => (k \in DOMAIN new <=> k \in DOMAIN m)
        /\ \A k : k # key => (k \in DOMAIN m => new[k] = m[k])
    BY <1>1, <2>1
  <2> QED BY <1>2, <2>3, <2>4, <2>5 DEF new
<1>3. CASE anchor # NoAnchor
  <2>1. new = [k \in D \cup {key} |-> IF k = key THEN anchor ELSE m[k]]
    BY <1>1, <1>3 DEF Recorded
  <2> HIDE DEF new
  <2>2. new \in [D \cup {key} -> Anchor] /\ D \cup {key} \in SUBSET K
    BY <1>1, <2>1
  <2>3. new \in Overrides(K) /\ DOMAIN new \subseteq DOMAIN m \cup {key}
    BY <1>1, <2>2 DEF Overrides
  <2>4. key \in DOMAIN new /\ new[key] = anchor
    BY <2>1
  <2>5. /\ \A k : k # key => (k \in DOMAIN new <=> k \in DOMAIN m)
        /\ \A k : k # key => (k \in DOMAIN m => new[k] = m[k])
    BY <1>1, <2>1
  <2> QED BY <2>3, <2>4, <2>5 DEF new
<1> QED BY <1>2, <1>3

\* A plan sends every file it has to a path of its own.
LEMMA PlanIs ==
  ASSUME NEW rs \in Seq(RowType)
  PROVE  /\ PlanOf(rs) \in Plans /\ Injective(PlanOf(rs))
         /\ DOMAIN PlanOf(rs) \subseteq { rs[i].file : i \in DOMAIN rs }
<1> DEFINE placed == { i \in DOMAIN rs :
                         rs[i].anchor # NoAnchor /\ Dest[rs[i].file, rs[i].anchor] # NoTarget }
           to(i)  == Dest[rs[i].file, rs[i].anchor]
           alone  == { i \in placed : \A j \in placed : to(j) = to(i) => j = i }
           ops    == PlanOf(rs)
           at(f)  == CHOOSE i \in alone : rs[i].file = f
<1>1. ops = [f \in { rs[i].file : i \in alone } |-> to(at(f))]
  BY DEF PlanOf
<1>2. ASSUME NEW i \in alone PROVE to(i) \in Target /\ rs[i].file \in Files
  <2>a. i \in DOMAIN rs /\ rs[i].anchor # NoAnchor /\ to(i) # NoTarget
    OBVIOUS
  <2>b. rs[i] \in RowType
    <3> HIDE DEF alone, to
    <3> QED BY <2>a
  <2>1. rs[i] \in RowType /\ rs[i].anchor # NoAnchor /\ to(i) # NoTarget
    BY <2>a, <2>b
  <2>2. rs[i].file \in Files /\ rs[i].anchor \in Candidate
    BY <2>1 DEF RowType, Anchor
  <2> QED BY <2>1, <2>2, QueueAssumption
<1>3. ASSUME NEW i \in alone, NEW j \in alone, to(i) = to(j) PROVE i = j
  BY <1>3
<1>4. ASSUME NEW f \in { rs[i].file : i \in alone } PROVE at(f) \in alone /\ rs[at(f)].file = f
  <2>1. \E i \in alone : rs[i].file = f
    OBVIOUS
  <2> HIDE DEF alone
  <2> QED BY <2>1
<1>5. alone \subseteq DOMAIN rs
  OBVIOUS
<1> HIDE DEF alone, at, to, ops
<1>6. DOMAIN ops = { rs[i].file : i \in alone } /\ \A f \in DOMAIN ops : ops[f] = to(at(f))
  BY <1>1
<1>7. ops \in [DOMAIN ops -> Target] /\ DOMAIN ops \in SUBSET Files
  BY <1>1, <1>2, <1>4, <1>6
<1>8. ops \in Plans
  BY <1>7 DEF Plans
<1>9. Injective(ops)
  <2> SUFFICES ASSUME NEW f \in DOMAIN ops, NEW g \in DOMAIN ops, ops[f] = ops[g] PROVE f = g
    BY DEF Injective
  <2>1. at(f) = at(g)
    BY <1>3, <1>4, <1>6
  <2> QED BY <2>1, <1>4, <1>6
<1>10. DOMAIN ops \subseteq { rs[i].file : i \in DOMAIN rs }
  BY <1>5, <1>6
<1> QED BY <1>8, <1>9, <1>10 DEF ops

-----------------------------------------------------------------------------
(* Types                                                                   *)

LEMMA RowFiles ==
  ASSUME RowsTyped
  PROVE  \A i \in DOMAIN rows : rows[i].file \in Files
<1>1. \A i \in DOMAIN rows : rows[i] \in RowType
  BY DEF RowsTyped
<1> QED BY <1>1 DEF RowType

\* The highlighted row is a row.
LEMMA CursorRowIs ==
  ASSUME RowsTyped, table # <<>>
  PROVE  CursorRow \in RowType /\ CursorRow.file \in Listed /\ CursorRow.file \in Files
<1>1. table[cursor] \in DOMAIN rows
  BY DEF RowsTyped
<1>2. CursorRow \in RowType
  BY <1>1 DEF RowsTyped, CursorRow
<1>3. CursorRow.file \in Listed
  BY <1>1 DEF CursorRow, Listed
<1> QED BY <1>2, <1>3 DEF RowType

LEMMA AnchoredIs ==
  ASSUME RowsTyped, NEW indices, NEW anchor \in Anchor, rows' = Anchored(indices, anchor)
  PROVE  /\ rows' \in Seq(RowType) /\ Listed' = Listed
         /\ DOMAIN rows' = DOMAIN rows
         /\ \A i \in DOMAIN rows :
              /\ rows'[i].file = rows[i].file
              /\ rows'[i].anchor = IF i \in indices THEN anchor ELSE rows[i].anchor
<1>1. \A i \in DOMAIN rows : rows[i] \in RowType
  BY DEF RowsTyped
<1>2. ASSUME NEW i \in DOMAIN rows
      PROVE  /\ rows'[i] \in RowType /\ rows'[i].file = rows[i].file
             /\ rows'[i].anchor = IF i \in indices THEN anchor ELSE rows[i].anchor
  <2>1. rows'[i] = IF i \in indices THEN [rows[i] EXCEPT !.anchor = anchor] ELSE rows[i]
    BY DEF Anchored
  <2>2. PICK f \in Files, a \in Anchor : rows[i] = [file |-> f, anchor |-> a]
    BY <1>1 DEF RowType
  <2> QED BY <2>1, <2>2 DEF RowType
<1>3. DOMAIN rows' = DOMAIN rows
  BY DEF Anchored
<1>4. rows' = [i \in 1 .. Len(rows) |-> rows'[i]] /\ Len(rows) \in Nat
  BY DEF Anchored, RowsTyped
<1>5. rows' \in Seq(RowType)
  BY <1>2, <1>4 DEF RowsTyped
<1>6. Listed' = Listed
  BY <1>2, <1>3 DEF Listed
<1> QED BY <1>2, <1>3, <1>5, <1>6

\* What a step does to the list of files.
LEMMA ListStep ==
  ASSUME TypeInv, [Next]_vars
  PROVE  /\ rows' \in Seq(RowType) /\ next' \in 1 .. MaxFiles + 1 /\ next <= next'
         /\ table' \in Seq(DOMAIN rows')
         /\ cursor' \in Nat \ {0}
         /\ table' # <<>> => cursor' \in DOMAIN table'
         /\ Listed' \subseteq Listed \cup (IF next' = next THEN {} ELSE {next})
<1> USE DEF TypeInv
<1> DEFINE Goal == /\ rows' \in Seq(RowType) /\ next' \in 1 .. MaxFiles + 1 /\ next <= next'
                   /\ table' \in Seq(DOMAIN rows')
                   /\ cursor' \in Nat \ {0}
                   /\ table' # <<>> => cursor' \in DOMAIN table'
                   /\ Listed' \subseteq Listed \cup (IF next' = next THEN {} ELSE {next})
<1> SUFFICES Goal
  OBVIOUS
<1>0. MaxFiles \in Nat /\ next \in 1 .. MaxFiles + 1 /\ rows \in Seq(RowType) /\ cursor \in Nat \ {0}
  BY QueueAssumption DEF RowsTyped
<1>1. CASE UNCHANGED <<ui, next>>
  BY <1>0, <1>1 DEF RowsTyped, ui, Listed
<1>2. CASE AppendPlanRow
  <2>1. PICK anchor \in Anchors \cup {NoAnchor} : rows' = Append(rows, [file |-> next, anchor |-> anchor])
    BY <1>2 DEF AppendPlanRow
  <2>2. [file |-> next, anchor |-> anchor] \in RowType
    BY <1>0, <1>2 DEF RowType, Anchor, Candidate, Files, AppendPlanRow
  <2>3. rows' \in Seq(RowType)
    BY <1>0, <2>1, <2>2
  <2>4. next' = next + 1 /\ next' \in 1 .. MaxFiles + 1 /\ next' # next
    BY <1>0, <1>2 DEF AppendPlanRow
  <2>5. Listed' \subseteq Listed \cup {next}
    <3>1. DOMAIN rows' = 1 .. Len(rows) + 1 /\ DOMAIN rows = 1 .. Len(rows) /\ Len(rows) \in Nat
      BY <1>0, <2>1
    <3>2. \A i \in DOMAIN rows' : rows'[i] = IF i = Len(rows) + 1 THEN [file |-> next, anchor |-> anchor] ELSE rows[i]
      BY <1>0, <2>1
    <3>3. \A i \in DOMAIN rows' : i # Len(rows) + 1 => i \in DOMAIN rows
      BY <3>1
    <3> QED BY <3>2, <3>3 DEF Listed
  <2>6. Refresh(rows', filter)
    BY <1>2 DEF AppendPlanRow
  <2> QED BY <1>0, <2>3, <2>4, <2>5, <2>6, Refreshed
<1>3. CASE LoaderFails
  BY <1>0, <1>3 DEF LoaderFails, ui, RowsTyped, Listed
<1>4. CASE MoveCursor
  <2>1. cursor' \in DOMAIN table /\ UNCHANGED <<rows, table, next>>
    BY <1>4 DEF MoveCursor
  <2>2. DOMAIN table \subseteq Nat \ {0}
    BY DEF RowsTyped
  <2> QED BY <1>0, <2>1, <2>2 DEF RowsTyped, Listed
<1>5. CASE CycleFilter \/ EditTargets
  <2>1. PICK mode : Refresh(rows, mode) /\ UNCHANGED <<rows, next>>
    BY <1>5 DEF CycleFilter, EditTargets
  <2> QED BY <1>0, <2>1, Refreshed DEF Listed
<1>6. CASE \E files : RemoveRows(files) /\ UNCHANGED next
  <2>1. PICK files : RemoveRows(files) /\ UNCHANGED next
    BY <1>6
  <2>2. Listed' = Listed \ files
    BY <2>1, Removed
  <2>3. rows' \in Seq(RowType)
    BY <2>1, Removed
  <2>4. table' \in Seq(DOMAIN rows')
    BY <2>1, Removed
  <2>5. cursor' \in Nat \ {0} /\ (table' # <<>> => cursor' \in DOMAIN table')
    BY <2>1, Removed
  <2> QED BY <1>0, <2>1, <2>2, <2>3, <2>4, <2>5
<1>7. CASE MutateAnchor \/ ApplyTvdbSwitch
  <2>1. PICK anchor \in Anchor : \E f, wide : rows' = Anchored(Scope(f, wide), anchor)
    BY <1>7 DEF MutateAnchor, ApplyTvdbSwitch, Anchor, Candidate
  <2>2. Refresh(rows', filter) /\ UNCHANGED next
    BY <1>7 DEF MutateAnchor, ApplyTvdbSwitch
  <2>3. rows' \in Seq(RowType) /\ Listed' = Listed
    BY <2>1, AnchoredIs
  <2>4. /\ table' \in Seq(DOMAIN rows')
        /\ cursor' \in Nat \ {0}
        /\ table' # <<>> => cursor' \in DOMAIN table'
    BY <1>0, <2>2, <2>3, Refreshed
  <2> QED BY <1>0, <2>2, <2>3, <2>4
<1>8. CASE RemoveRow \/ RemoveFromDetail
  BY <1>6, <1>8 DEF RemoveRow, RemoveFromDetail
<1>9. CASE ConfirmDelete
  BY <1>1, <1>6, <1>9 DEF ConfirmDelete
<1>10. ASSUME NEW w \in Workers, Applies(w) PROVE Goal
  <2>1. CASE BeginOp(w) \/ EndCopy(w) \/ Gate(w) \/ Unlink(w)
    BY <1>1, <2>1 DEF BeginOp, EndCopy, Gate, Unlink, Works
  <2>2. CASE AfterApplyComplete(w)
    BY <1>6, <2>2 DEF AfterApplyComplete
  <2> QED BY <1>10, <2>1, <2>2 DEF Applies
<1>11. CASE DeleteSource \/ PressEnter \/ ConvertRow \/ Apply \/ Cancel \/ DeleteFromDetail
            \/ ConfirmApply \/ OnRowSelected
  BY <1>1, <1>11 DEF DeleteSource, PressEnter, ConvertRow, Apply, Cancel, DeleteFromDetail,
       ConfirmApply, OnRowSelected
<1>12. CASE UNCHANGED vars
  BY <1>1, <1>12 DEF vars, ui
<1> HIDE DEF Goal
<1> QED
  BY <1>2, <1>3, <1>4, <1>5, <1>7, <1>8, <1>9, <1>10, <1>11, <1>12 DEF Next, User

\* The file an apply does next is one it has to do.
LEMMA FirstIs ==
  ASSUME NEW files \in SUBSET Files, files # {}
  PROVE  First(files) \in files
<1> DEFINE T == IF files \subseteq Tv THEN files ELSE files \ Tv
<1>1. T # {} /\ T \subseteq files /\ T \in SUBSET Nat
  BY QueueAssumption DEF Files
<1>2. \E x \in T : \A y \in T : x <= y
  BY <1>1, LeastNat
<1>3. Min(T) \in T
  <2> HIDE DEF T
  <2> QED BY <1>2 DEF Min
<1> QED BY <1>1, <1>3 DEF First

\* An apply starts from a plan for rows in the list, or for rows that were in
\* it when the question was asked.
LEMMA Starts ==
  ASSUME TypeInv, ConvertRow \/ ConfirmApply
  PROVE  \E ops \in Plans, converted \in SUBSET Files :
           /\ Injective(ops) /\ DOMAIN ops \subseteq Brought
           /\ ApplyInBackground(ops, converted)
           /\ UNCHANGED <<ui, next, disk, saving, deleted>>
<1> USE DEF TypeInv
<1>1. CASE ConvertRow
  <2>1. CursorRow \in RowType /\ CursorRow.file \in Listed /\ CursorRow.file \in Files
    BY <1>1, CursorRowIs DEF ConvertRow, KeyOnRow
  <2> DEFINE rs == <<CursorRow>>
  <2>2. rs \in Seq(RowType) /\ { rs[i].file : i \in DOMAIN rs } \subseteq {CursorRow.file}
    BY <2>1
  <2>3. PlanOf(rs) \in Plans /\ Injective(PlanOf(rs)) /\ DOMAIN PlanOf(rs) \subseteq Brought
    <3> HIDE DEF rs
    <3> QED BY <2>1, <2>2, PlanIs DEF RowsTyped
  <2>4. /\ ApplyInBackground(PlanOf(rs), {CursorRow.file})
        /\ UNCHANGED <<ui, next, disk, saving, deleted>>
    BY <1>1 DEF ConvertRow
  <2> HIDE DEF rs
  <2> QED BY <2>1, <2>3, <2>4
<1>2. CASE ConfirmApply
  <2> DEFINE shown == { rows[i].file : i \in { j \in DOMAIN rows : HasTarget(rows[j]) } }
  <2>1. shown \in SUBSET Files
    BY RowFiles
  <2>2. /\ ApplyInBackground(screen.ops, shown)
        /\ UNCHANGED <<ui, next, disk, saving, deleted>>
    BY <1>2 DEF ConfirmApply
  <2>3. screen.ops \in Plans /\ Injective(screen.ops) /\ DOMAIN screen.ops \subseteq Brought
    BY DEF ScreenTyped
  <2> HIDE DEF shown
  <2> QED BY <2>1, <2>2, <2>3
<1> QED BY <1>1, <1>2

LEMMA RowsStep ==
  ASSUME TypeInv, [Next]_vars
  PROVE  RowsTyped' /\ Brought \subseteq Brought'
<1>1. /\ rows' \in Seq(RowType) /\ next' \in 1 .. MaxFiles + 1 /\ next <= next'
      /\ table' \in Seq(DOMAIN rows')
      /\ cursor' \in Nat \ {0}
      /\ table' # <<>> => cursor' \in DOMAIN table'
  BY ListStep
<1>2. Listed' \subseteq Listed \cup (IF next' = next THEN {} ELSE {next})
  BY ListStep
<1>3. Listed \subseteq Brought /\ next \in 1 .. MaxFiles + 1 /\ MaxFiles \in Nat
  BY QueueAssumption DEF TypeInv, RowsTyped
<1>4. Brought \subseteq Brought'
  BY <1>1, <1>3 DEF Brought, Files
<1>5. next' # next => next \in Brought'
  BY <1>1, <1>3 DEF Brought, Files
<1>6. Listed' \subseteq Brought'
  BY <1>2, <1>3, <1>4, <1>5
<1> QED BY <1>1, <1>4, <1>6 DEF RowsTyped

LEMMA ScreenStep ==
  ASSUME TypeInv, [Next]_vars
  PROVE  ScreenTyped'
<1> USE DEF TypeInv
<1>0. Brought \subseteq Brought'
  BY RowsStep
<1>1. PICK k \in {"none", "detail", "delete", "confirm"}, f \in Brought \cup {0}, ops \in Plans :
        /\ screen = [kind |-> k, file |-> f, ops |-> ops]
        /\ k = "detail" => f \in Files
        /\ DOMAIN ops \subseteq Brought /\ Injective(ops)
  BY DEF ScreenTyped
<1>2. <<>> \in Plans /\ DOMAIN <<>> \subseteq Brought' /\ Injective(<<>>)
  <2>1. <<>> \in [{} -> Target]
    OBVIOUS
  <2>2. <<>> \in Plans
    BY <2>1 DEF Plans
  <2> QED BY <2>2 DEF Injective
<1> DEFINE Typed(sc) ==
             \E kk \in {"none", "detail", "delete", "confirm"}, ff \in Brought' \cup {0}, oo \in Plans :
               /\ sc = [kind |-> kk, file |-> ff, ops |-> oo]
               /\ kk = "detail" => ff \in Files
               /\ DOMAIN oo \subseteq Brought' /\ Injective(oo)
<1>3. SUFFICES Typed(screen')
  BY DEF ScreenTyped
<1>4. CASE screen' = screen
  BY <1>0, <1>1, <1>4
<1>5. Typed(NoScreen)
  BY <1>2 DEF NoScreen
<1>6. CASE screen' = NoScreen
  BY <1>5, <1>6
<1>7. CASE DeleteSource
  <2>1. CursorRow.file \in Brought'
    BY <1>0, <1>7, CursorRowIs DEF DeleteSource, KeyOnRow, RowsTyped
  <2>2. screen' = [kind |-> "delete", file |-> CursorRow.file, ops |-> <<>>]
    BY <1>7 DEF DeleteSource, NoScreen
  <2> QED BY <1>2, <2>1, <2>2
<1>8. CASE OnRowSelected
  <2>1. CASE Head(pressed) \in DOMAIN rows
    <3>1. rows[Head(pressed)].file \in Files /\ rows[Head(pressed)].file \in Brought'
      BY <1>0, <2>1, RowFiles DEF RowsTyped, Listed
    <3>2. screen' = [kind |-> "detail", file |-> rows[Head(pressed)].file, ops |-> <<>>]
      BY <1>8, <2>1 DEF OnRowSelected, NoScreen
    <3> QED BY <1>2, <3>1, <3>2
  <2>2. CASE Head(pressed) \notin DOMAIN rows
    BY <1>6, <1>8, <2>2 DEF OnRowSelected
  <2> QED BY <2>1, <2>2
<1>9. CASE Apply
  <2>1. PlanOf(rows) \in Plans /\ Injective(PlanOf(rows)) /\ DOMAIN PlanOf(rows) \subseteq Listed
    BY PlanIs DEF RowsTyped, Listed
  <2>2. screen' = [kind |-> "confirm", file |-> 0, ops |-> PlanOf(rows)]
    BY <1>9 DEF Apply, NoScreen
  <2>3. DOMAIN PlanOf(rows) \subseteq Brought'
    BY <1>0, <2>1 DEF RowsTyped
  <2> QED BY <2>1, <2>2, <2>3
<1>10. CASE DeleteFromDetail
  <2>1. CASE screen' = [screen EXCEPT !.kind = "delete"]
    <3>1. screen' = [kind |-> "delete", file |-> f, ops |-> ops]
      BY <1>1, <2>1
    <3> QED BY <1>0, <1>1, <3>1
  <2> QED BY <1>6, <1>10, <2>1 DEF DeleteFromDetail
<1>11. CASE Cancel \/ MutateAnchor \/ ApplyTvdbSwitch \/ RemoveFromDetail \/ ConfirmDelete \/ ConfirmApply
  BY <1>6, <1>11 DEF Cancel, MutateAnchor, ApplyTvdbSwitch, RemoveFromDetail, ConfirmDelete,
       ConfirmApply, Closes
<1>12. CASE MoveCursor \/ CycleFilter \/ EditTargets \/ RemoveRow \/ PressEnter \/ ConvertRow
            \/ AppendPlanRow \/ LoaderFails
  BY <1>4, <1>12 DEF MoveCursor, CycleFilter, EditTargets, RemoveRow, PressEnter, ConvertRow,
       AppendPlanRow, LoaderFails
<1>13. ASSUME NEW w \in Workers, Applies(w) PROVE Typed(screen')
  BY <1>4, <1>13 DEF Applies, BeginOp, EndCopy, Gate, Unlink, Works, AfterApplyComplete
<1>14. CASE UNCHANGED vars
  BY <1>4, <1>14 DEF vars
<1> HIDE DEF Typed
<1> QED
  BY <1>7, <1>8, <1>9, <1>10, <1>11, <1>12, <1>13, <1>14 DEF Next, User

LEMMA OverridesStep ==
  ASSUME TypeInv, [Next]_vars
  PROVE  OverridesTyped' /\ (OverridesFit => OverridesFit')
<1> USE DEF TypeInv
<1> DEFINE Goal == /\ overrides' \in [groups : Overrides(Range(Group)), rows : Overrides(Files)]
                   /\ OverridesFit => OverridesFit'
<1> SUFFICES Goal
  BY DEF OverridesTyped
<1>0. overrides \in [groups : Overrides(Range(Group)), rows : Overrides(Files)]
  BY DEF OverridesTyped
<1>1. CASE UNCHANGED <<saving, late>> /\ Listed \subseteq Listed'
  BY <1>0, <1>1 DEF OverridesFit, saving
<1>2. CASE UNCHANGED <<rows, saving, late>>
  BY <1>1, <1>2 DEF Listed
<1>3. CASE AppendPlanRow
  <2>1. PICK row : rows' = Append(rows, row)
    BY <1>3 DEF AppendPlanRow
  <2>2. \A i \in DOMAIN rows : i \in DOMAIN rows' /\ rows'[i] = rows[i]
    BY <2>1 DEF RowsTyped
  <2>3. Listed \subseteq Listed'
    BY <2>2 DEF Listed
  <2> QED BY <1>1, <1>3, <2>3 DEF AppendPlanRow, history
<1>4. CASE \E files : RemoveRows(files) /\ UNCHANGED late
  <2>1. PICK files : RemoveRows(files) /\ UNCHANGED late
    BY <1>4
  <2>2. Listed' = Listed \ files
    BY <2>1, Removed
  <2>3. overrides' \in [groups : Overrides(Range(Group)), rows : Overrides(Files)]
    BY <2>1, Removed
  <2>4. DOMAIN overrides'.rows = DOMAIN overrides.rows \ (files \cap Listed)
    BY <2>1, Removed
  <2>5. UNCHANGED <<overrides, saved, unsaved>> \/ (~unsaved' => saved' = overrides')
    BY <2>1, Removed
  <2> QED BY <2>1, <2>2, <2>3, <2>4, <2>5 DEF OverridesFit
<1>5. CASE MutateAnchor
  <2> DEFINE f == screen.file
  <2>1. PICK anchor \in Anchors \cup {NoAnchor} :
          /\ rows' = Anchored(Scope(f, f \in Tv), anchor)
          /\ PersistOverrides(IF f \in Tv
                              THEN [overrides EXCEPT !.groups = Recorded(@, Group[f], anchor)]
                              ELSE [overrides EXCEPT !.rows = Recorded(@, f, anchor)], {})
    BY <1>5 DEF MutateAnchor
  <2>2. anchor \in Anchor /\ f \in Files
    BY <1>5 DEF MutateAnchor, Closes, Anchor, Candidate, ScreenTyped
  <2>3. Listed' = Listed
    BY <2>1, <2>2, AnchoredIs
  <2>4. late' = IF f \in Listed THEN late ELSE late \cup {f}
    BY <1>5 DEF MutateAnchor
  <2>5. /\ overrides' = IF f \in Tv
                        THEN [overrides EXCEPT !.groups = Recorded(@, Group[f], anchor)]
                        ELSE [overrides EXCEPT !.rows = Recorded(@, f, anchor)]
        /\ ~unsaved' => saved' = overrides'
    BY <2>1 DEF PersistOverrides
  <2>6. PICK g \in Overrides(Range(Group)), m \in Overrides(Files) : overrides = [groups |-> g, rows |-> m]
    BY <1>0
  <2>8. CASE f \in Tv
    <3>1. Group[f] \in Range(Group)
      BY <2>8, QueueAssumption DEF Range
    <3>2. Recorded(g, Group[f], anchor) \in Overrides(Range(Group))
      BY <2>2, <3>1, RecordedIs
    <3>3. overrides' = [groups |-> Recorded(g, Group[f], anchor), rows |-> m]
      BY <2>5, <2>6, <2>8
    <3> QED BY <2>3, <2>4, <2>5, <2>6, <3>2, <3>3 DEF OverridesFit
  <2>9. CASE f \notin Tv
    <3>1. Recorded(m, f, anchor) \in Overrides(Files)
      BY <2>2, RecordedIs
    <3>2. DOMAIN Recorded(m, f, anchor) \subseteq DOMAIN m \cup {f}
      BY <2>2, RecordedIs
    <3>3. overrides' = [groups |-> g, rows |-> Recorded(m, f, anchor)]
      BY <2>5, <2>6, <2>9
    <3> QED BY <2>3, <2>4, <2>5, <2>6, <2>9, <3>1, <3>2, <3>3 DEF OverridesFit
  <2> QED BY <2>8, <2>9
<1>6. CASE ApplyTvdbSwitch
  <2>1. PICK anchor \in Anchor : \E f, wide : rows' = Anchored(Scope(f, wide), anchor)
    BY <1>6 DEF ApplyTvdbSwitch, Anchor, Candidate
  <2>2. Listed' = Listed
    BY <2>1, AnchoredIs
  <2> QED BY <1>1, <1>6, <2>2 DEF ApplyTvdbSwitch
<1>7. CASE RemoveRow \/ RemoveFromDetail
  BY <1>4, <1>7 DEF RemoveRow, RemoveFromDetail, history
<1>8. CASE ConfirmDelete
  BY <1>2, <1>4, <1>8 DEF ConfirmDelete, ui
<1>9. ASSUME NEW w \in Workers, Applies(w) PROVE Goal
  <2>1. CASE BeginOp(w) \/ EndCopy(w) \/ Gate(w) \/ Unlink(w)
    BY <1>2, <2>1 DEF BeginOp, EndCopy, Gate, Unlink, Works, ui, history
  <2>2. CASE AfterApplyComplete(w)
    BY <1>4, <2>2 DEF AfterApplyComplete, history
  <2> QED BY <1>9, <2>1, <2>2 DEF Applies
<1>10. CASE ConvertRow \/ ConfirmApply
  BY <1>2, <1>10 DEF ConvertRow, ConfirmApply, ui
<1>11. CASE LoaderFails \/ MoveCursor \/ CycleFilter \/ EditTargets \/ DeleteSource \/ PressEnter
            \/ OnRowSelected \/ Apply \/ Cancel \/ DeleteFromDetail
  BY <1>2, <1>11 DEF LoaderFails, MoveCursor, CycleFilter, EditTargets, DeleteSource, PressEnter,
       OnRowSelected, Apply, Cancel, DeleteFromDetail, ui, history
<1>12. CASE UNCHANGED vars
  BY <1>2, <1>12 DEF vars, saving
<1> HIDE DEF Goal
<1> QED
  BY <1>3, <1>5, <1>6, <1>7, <1>8, <1>9, <1>10, <1>11, <1>12 DEF Next, User

\* What recording an anchor for a file, or for its show, makes of the others.
LEMMA RecordedReads ==
  ASSUME TypeInv, OverridesFit, MutateAnchor
  PROVE  \E anchor \in Anchor :
           LET f == screen.file
               wide == f \in Tv
               decided(g) == g = f \/ (wide /\ g \in Tv /\ Group[g] = Group[f])
           IN /\ f \in Files
              /\ rows' = Anchored(Scope(f, wide), anchor)
              /\ \A g \in Files : AnchorIn(overrides', g) =
                                  IF decided(g) THEN anchor ELSE AnchorIn(overrides, g)
<1> DEFINE f == screen.file
           decided(g) == g = f \/ (f \in Tv /\ g \in Tv /\ Group[g] = Group[f])
<1> USE DEF TypeInv
<1>1. PICK anchor \in Anchors \cup {NoAnchor} :
        /\ rows' = Anchored(Scope(f, f \in Tv), anchor)
        /\ overrides' = IF f \in Tv
                        THEN [overrides EXCEPT !.groups = Recorded(@, Group[f], anchor)]
                        ELSE [overrides EXCEPT !.rows = Recorded(@, f, anchor)]
  BY DEF MutateAnchor, PersistOverrides
<1>2. anchor \in Anchor /\ f \in Files
  BY DEF MutateAnchor, Closes, Anchor, Candidate, ScreenTyped
<1>3. PICK gs \in Overrides(Range(Group)), m \in Overrides(Files) : overrides = [groups |-> gs, rows |-> m]
  BY DEF OverridesTyped
<1>4. DOMAIN m \cap Tv = {}
  BY <1>3 DEF OverridesFit
<1>5. ASSUME NEW g \in Files
      PROVE  AnchorIn(overrides', g) = IF decided(g) THEN anchor ELSE AnchorIn(overrides, g)
  <2>1. CASE f \in Tv
    <3>1. Group[f] \in Range(Group)
      BY <2>1, QueueAssumption DEF Range
    <3> DEFINE new == Recorded(gs, Group[f], anchor)
    <3>2. overrides' = [groups |-> new, rows |-> m]
      BY <1>1, <1>3, <2>1
    <3>3. anchor = IF Group[f] \in DOMAIN new THEN new[Group[f]] ELSE NoAnchor
      BY <1>2, <3>1, RecordedIs
    <3>4. \A k : k # Group[f] => /\ k \in DOMAIN new <=> k \in DOMAIN gs
                                 /\ k \in DOMAIN gs => new[k] = gs[k]
      BY <1>2, <3>1, RecordedIs
    <3> HIDE DEF new
    <3>5. CASE decided(g)
      <4>1. g \in Tv /\ Group[g] = Group[f] /\ g \notin DOMAIN m
        BY <1>4, <2>1, <3>5
      <4> QED BY <3>2, <3>3, <3>5, <4>1 DEF AnchorIn
    <3>6. CASE ~decided(g)
      <4>1. g \in Tv => Group[g] # Group[f]
        BY <2>1, <3>6
      <4> QED BY <1>3, <3>2, <3>4, <3>6, <4>1 DEF AnchorIn
    <3> QED BY <3>5, <3>6
  <2>2. CASE f \notin Tv
    <3> DEFINE new == Recorded(m, f, anchor)
    <3>1. overrides' = [groups |-> gs, rows |-> new]
      BY <1>1, <1>3, <2>2
    <3>2. anchor = IF f \in DOMAIN new THEN new[f] ELSE NoAnchor
      BY <1>2, RecordedIs
    <3>3. \A k : k # f => /\ k \in DOMAIN new <=> k \in DOMAIN m
                          /\ k \in DOMAIN m => new[k] = m[k]
      BY <1>2, RecordedIs
    <3> HIDE DEF new
    <3>4. CASE g = f
      BY <2>2, <3>1, <3>2, <3>4 DEF AnchorIn
    <3>5. CASE g # f
      BY <1>3, <2>2, <3>1, <3>3, <3>5 DEF AnchorIn
    <3> QED BY <3>4, <3>5
  <2> QED BY <2>1, <2>2
<1> QED BY <1>1, <1>2, <1>5

LEMMA SettledStep ==
  ASSUME TypeInv, OverridesFit, Settled, [Next]_vars
  PROVE  Settled'
<1> USE DEF TypeInv
<1>0. Brought \subseteq Brought' /\ \A i \in DOMAIN rows : rows[i].file \in Files
  BY RowsStep, RowFiles
<1>1. CASE UNCHANGED <<rows, overrides, settled>>
  BY <1>0, <1>1 DEF Settled
<1>2. CASE AppendPlanRow
  <2>1. PICK anchor : rows' = Append(rows, [file |-> next, anchor |-> anchor])
    BY <1>2 DEF AppendPlanRow
  <2>2. UNCHANGED <<overrides, settled>>
    BY <1>2 DEF AppendPlanRow, saving, history
  <2>3. next \notin settled
    BY DEF Settled, Brought, RowsTyped
  <2>4. ASSUME NEW i \in DOMAIN rows'
        PROVE  rows'[i].file = next \/ (i \in DOMAIN rows /\ rows'[i] = rows[i])
    BY <2>1 DEF RowsTyped
  <2> QED BY <1>0, <2>2, <2>3, <2>4 DEF Settled
<1>3. CASE \E files : RemoveRows(files) /\ UNCHANGED settled
  <2>1. PICK files : RemoveRows(files) /\ UNCHANGED settled
    BY <1>3
  <2>2. \A i \in DOMAIN rows' : \E j \in DOMAIN rows : rows'[i] = rows[j] /\ rows[j].file \notin files
    BY <2>1, Removed
  <2>3. \A f : f \notin files => AnchorIn(overrides', f) = AnchorIn(overrides, f)
    BY <2>1, Removed
  <2> QED BY <1>0, <2>1, <2>2, <2>3 DEF Settled
<1>4. CASE MutateAnchor
  <2> DEFINE f == screen.file
             decided(g) == g = f \/ (f \in Tv /\ g \in Tv /\ Group[g] = Group[f])
  <2>1. PICK anchor \in Anchor :
          /\ rows' = Anchored(Scope(f, f \in Tv), anchor)
          /\ \A g \in Files : AnchorIn(overrides', g) =
                              IF decided(g) THEN anchor ELSE AnchorIn(overrides, g)
    BY <1>4, RecordedReads
  <2>2. /\ DOMAIN rows' = DOMAIN rows
        /\ \A i \in DOMAIN rows :
             /\ rows'[i].file = rows[i].file
             /\ rows'[i].anchor = IF i \in Scope(f, f \in Tv) THEN anchor ELSE rows[i].anchor
    BY <2>1, AnchoredIs
  <2>3. \A i \in DOMAIN rows : i \in Scope(f, f \in Tv) <=> decided(rows[i].file)
    BY DEF Scope
  <2>4. settled' = settled \cup FilesAt(Scope(f, f \in Tv))
    BY <1>4 DEF MutateAnchor
  <2>5. FilesAt(Scope(f, f \in Tv)) \subseteq Listed
    BY DEF FilesAt, Scope, Listed
  <2>6. \A i \in DOMAIN rows : rows[i].file \in settled' /\ ~decided(rows[i].file)
                               => rows[i].file \in settled
    BY <2>3, <2>4 DEF FilesAt, Scope
  <2> HIDE DEF decided
  <2> QED BY <1>0, <2>1, <2>2, <2>3, <2>4, <2>5, <2>6 DEF Settled, RowsTyped
<1>5. CASE ApplyTvdbSwitch
  <2>1. PICK anchor \in Anchor : \E f, wide : /\ rows' = Anchored(Scope(f, wide), anchor)
                                             /\ settled' = settled \ FilesAt(Scope(f, wide))
    BY <1>5 DEF ApplyTvdbSwitch, Anchor, Candidate
  <2> PICK f, wide : /\ rows' = Anchored(Scope(f, wide), anchor)
                     /\ settled' = settled \ FilesAt(Scope(f, wide))
    BY <2>1
  <2>2. /\ DOMAIN rows' = DOMAIN rows
        /\ \A i \in DOMAIN rows :
             /\ rows'[i].file = rows[i].file
             /\ rows'[i].anchor = IF i \in Scope(f, wide) THEN anchor ELSE rows[i].anchor
    BY AnchoredIs
  <2>3. \A i \in DOMAIN rows : rows[i].file \in settled' => i \notin Scope(f, wide)
    BY DEF FilesAt
  <2>4. UNCHANGED overrides
    BY <1>5 DEF ApplyTvdbSwitch, saving
  <2> QED BY <1>0, <2>2, <2>3, <2>4 DEF Settled
<1>6. CASE RemoveRow \/ RemoveFromDetail
  BY <1>3, <1>6 DEF RemoveRow, RemoveFromDetail, history
<1>7. CASE ConfirmDelete
  BY <1>1, <1>3, <1>7 DEF ConfirmDelete, ui, saving
<1>8. ASSUME NEW w \in Workers, Applies(w) PROVE Settled'
  <2>1. CASE BeginOp(w) \/ EndCopy(w) \/ Gate(w) \/ Unlink(w)
    BY <1>1, <2>1 DEF BeginOp, EndCopy, Gate, Unlink, Works, ui, saving, history
  <2>2. CASE AfterApplyComplete(w)
    BY <1>3, <2>2 DEF AfterApplyComplete, history
  <2> QED BY <1>8, <2>1, <2>2 DEF Applies
<1>9. CASE ConvertRow \/ ConfirmApply
  BY <1>1, <1>9 DEF ConvertRow, ConfirmApply, ui, saving
<1>10. CASE LoaderFails \/ MoveCursor \/ CycleFilter \/ EditTargets \/ DeleteSource \/ PressEnter
            \/ OnRowSelected \/ Apply \/ Cancel \/ DeleteFromDetail
  BY <1>1, <1>10 DEF LoaderFails, MoveCursor, CycleFilter, EditTargets, DeleteSource, PressEnter,
       OnRowSelected, Apply, Cancel, DeleteFromDetail, ui, saving, history
<1>11. CASE UNCHANGED vars
  BY <1>1, <1>11 DEF vars
<1> QED
  BY <1>2, <1>4, <1>5, <1>6, <1>7, <1>8, <1>9, <1>10, <1>11 DEF Next, User

LEMMA CurrentIs ==
  ASSUME TypeInv, NEW w \in Workers, worker[w].todo # {}
  PROVE  Current(w) \in worker[w].todo /\ Current(w) \in DOMAIN worker[w].ops
<1>1. worker[w].todo \in SUBSET Files /\ worker[w].todo \subseteq DOMAIN worker[w].ops
  BY DEF TypeInv, WorkersTyped, Sound, WorkerType
<1> QED BY <1>1, FirstIs DEF Current

\* What a worker is once it has an op behind it.
LEMMA BehindIs ==
  ASSUME TypeInv, NEW w \in Workers, NEW failed \in BOOLEAN
  PROVE  /\ Sound(Behind(w, failed))
         /\ Behind(w, failed).ops = worker[w].ops
         /\ Behind(w, failed).todo = worker[w].todo \ {Current(w)}
         /\ Behind(w, failed).failed = (worker[w].failed \/ failed)
         /\ Behind(w, failed).step = "op"
         /\ Behind(w, failed).converted = worker[w].converted
<1> PICK r \in WorkerType : r = worker[w]
  BY DEF TypeInv, WorkersTyped, Sound
<1> PICK b \in BOOLEAN : b = (worker[w].failed \/ failed)
  OBVIOUS
<1> DEFINE moved == [r EXCEPT !.step = "op", !.todo = r.todo \ {Current(w)}, !.failed = b]
<1>1. Behind(w, failed) = moved
  BY DEF Behind
<1>2. moved \in WorkerType
  BY DEF WorkerType, Steps
<1>3. /\ moved.ops = r.ops /\ moved.todo = r.todo \ {Current(w)} /\ moved.failed = b
      /\ moved.step = "op" /\ moved.converted = r.converted /\ moved.unlink = r.unlink
  BY DEF WorkerType
<1>4. Sound(r)
  BY DEF TypeInv, WorkersTyped
<1> HIDE DEF moved
<1>5. Sound(Behind(w, failed))
  BY <1>1, <1>2, <1>3, <1>4 DEF Sound
<1> QED BY <1>1, <1>3, <1>5

LEMMA OneWorker ==
  ASSUME TypeInv, Brought \subseteq Brought', NEW w \in Workers, NEW rec, Sound(rec),
         worker' = [worker EXCEPT ![w] = rec]
  PROVE  WorkersTyped'
<1>1. \A v \in Workers : Sound(worker'[v])
  BY DEF TypeInv, WorkersTyped
<1>2. \A v \in Workers : Sound(worker'[v]) => Sound(worker[v])'
  BY DEF Sound
<1>3. worker' \in [Workers -> WorkerType]
  BY DEF TypeInv, WorkersTyped, Sound
<1> QED BY <1>1, <1>2, <1>3 DEF WorkersTyped

LEMMA IdleIs == Sound(Idle)
<1>1. <<>> \in Plans
  <2>1. <<>> \in [{} -> Target]
    OBVIOUS
  <2> QED BY <2>1 DEF Plans
<1> QED BY <1>1 DEF Sound, Idle, WorkerType, Steps

\* A worker that has just been given a plan.
LEMMA StartedIs ==
  ASSUME NEW ops \in Plans, NEW converted \in SUBSET Files, DOMAIN ops \subseteq Brought
  PROVE  LET rec == [Idle EXCEPT !.step = "op", !.ops = ops, !.todo = DOMAIN ops,
                                 !.converted = converted]
         IN /\ Sound(rec) /\ rec.step = "op" /\ rec.ops = ops /\ rec.todo = DOMAIN ops
            /\ rec.converted = converted
<1>2. DOMAIN ops \in SUBSET Files
  BY DEF Plans
<1> PICK r \in WorkerType : r = Idle /\ r.unlink = {} /\ r.step = "idle"
  BY IdleIs DEF Sound, Idle
<1> DEFINE rec == [r EXCEPT !.step = "op", !.ops = ops, !.todo = DOMAIN ops, !.converted = converted]
<1>3. rec \in WorkerType
  BY <1>2 DEF WorkerType, Steps
<1>4. /\ rec.step = "op" /\ rec.ops = ops /\ rec.todo = DOMAIN ops
      /\ rec.converted = converted /\ rec.unlink = {}
  BY DEF WorkerType
<1>5. rec = [Idle EXCEPT !.step = "op", !.ops = ops, !.todo = DOMAIN ops, !.converted = converted]
  OBVIOUS
<1> HIDE DEF rec
<1>6. Sound(rec)
  BY <1>3, <1>4 DEF Sound
<1> QED BY <1>4, <1>5, <1>6

LEMMA WorkersStep ==
  ASSUME TypeInv, [Next]_vars
  PROVE  WorkersTyped'
<1>0. Brought \subseteq Brought'
  BY RowsStep
<1>1. CASE UNCHANGED worker
  <2>1. \A w \in Workers : Sound(worker[w])'
    BY <1>0, <1>1 DEF TypeInv, WorkersTyped, Sound
  <2> QED BY <1>1, <2>1 DEF TypeInv, WorkersTyped
<1>2. CASE ConvertRow \/ ConfirmApply
  <2>1. PICK ops \in Plans, converted \in SUBSET Files :
           DOMAIN ops \subseteq Brought /\ ApplyInBackground(ops, converted)
    BY <1>2, Starts
  <2> DEFINE rec == [Idle EXCEPT !.step = "op", !.ops = ops, !.todo = DOMAIN ops,
                                 !.converted = converted]
  <2>2. PICK w \in Workers : worker' = [worker EXCEPT ![w] = rec]
    BY <2>1 DEF ApplyInBackground
  <2>3. Sound(rec)
    BY <2>1, StartedIs
  <2> HIDE DEF rec
  <2> QED BY <1>0, <2>2, <2>3, OneWorker
<1>3. ASSUME NEW w \in Workers, Applies(w) PROVE WorkersTyped'
  <2>0. Sound(worker[w]) /\ worker[w] \in WorkerType
    BY DEF TypeInv, WorkersTyped, Sound
  <2>1. SUFFICES \E rec : Sound(rec) /\ worker' = [worker EXCEPT ![w] = rec]
    BY <1>0, OneWorker
  <2>2. CASE BeginOp(w)
    <3>1. CASE \E failed \in BOOLEAN : Works(w, Behind(w, failed))
      BY <3>1, BehindIs DEF Works
    <3>2. CASE Works(w, [worker[w] EXCEPT !.step = "copy"])
      <4> PICK r \in WorkerType : r = worker[w]
        BY <2>0
      <4> DEFINE rec == [r EXCEPT !.step = "copy"]
      <4>1. rec \in WorkerType /\ rec.ops = r.ops /\ rec.todo = r.todo /\ rec.unlink = r.unlink
            /\ rec.step = "copy"
        BY DEF WorkerType, Steps
      <4>2. worker' = [worker EXCEPT ![w] = rec] /\ r.todo # {}
        BY <2>2, <3>2 DEF Works, BeginOp
      <4> HIDE DEF rec
      <4>3. Sound(rec)
        BY <2>0, <4>1, <4>2 DEF Sound
      <4> QED BY <4>2, <4>3
    <3> QED BY <2>2, <3>1, <3>2 DEF BeginOp
  <2>3. CASE EndCopy(w)
    <3>1. CASE Works(w, Behind(w, Current(w) \notin source))
      <4>1. PICK b \in BOOLEAN : b = (Current(w) \notin source)
        OBVIOUS
      <4>2. Sound(Behind(w, Current(w) \notin source))
        BY <4>1, BehindIs
      <4> QED BY <3>1, <4>2 DEF Works
    <3>2. CASE Works(w, Behind(w, TRUE))
      BY <3>2, BehindIs DEF Works
    <3> QED BY <2>3, <3>1, <3>2 DEF EndCopy
  <2>4. CASE Gate(w)
    <3> PICK r \in WorkerType : r = worker[w]
      BY <2>0
    <3>1. CASE r.failed
      <4> DEFINE rec == [r EXCEPT !.step = "done"]
      <4>1. rec \in WorkerType /\ rec.ops = r.ops /\ rec.todo = r.todo /\ rec.unlink = r.unlink
            /\ rec.step = "done"
        BY DEF WorkerType, Steps
      <4>2. worker' = [worker EXCEPT ![w] = rec]
        BY <2>4, <3>1 DEF Works, Gate
      <4> HIDE DEF rec
      <4>3. Sound(rec)
        BY <2>0, <4>1 DEF Sound
      <4> QED BY <4>2, <4>3
    <3>2. CASE ~r.failed
      <4> DEFINE rec == [r EXCEPT !.step = "clean", !.unlink = DOMAIN r.ops]
      <4>0. DOMAIN r.ops \in SUBSET Files
        BY DEF WorkerType, Plans
      <4>1. rec \in WorkerType /\ rec.ops = r.ops /\ rec.todo = r.todo /\ rec.unlink = DOMAIN r.ops
            /\ rec.step = "clean" /\ rec.failed = r.failed
        BY <4>0 DEF WorkerType, Steps
      <4>2. worker' = [worker EXCEPT ![w] = rec] /\ r.todo = {}
        BY <2>4, <3>2 DEF Works, Gate
      <4> HIDE DEF rec
      <4>3. Sound(rec)
        BY <2>0, <3>2, <4>1, <4>2 DEF Sound
      <4> QED BY <4>2, <4>3
    <3> QED BY <3>1, <3>2
  <2>5. CASE Unlink(w)
    <3> PICK r \in WorkerType : r = worker[w]
      BY <2>0
    <3>1. PICK rec : /\ worker' = [worker EXCEPT ![w] = rec]
                     /\ \/ rec = [r EXCEPT !.step = "done"]
                        \/ rec = [r EXCEPT !.unlink = @ \ {First(@)}]
                        \/ rec = [r EXCEPT !.step = "done", !.failed = TRUE]
      BY <2>5 DEF Unlink, Works
    <3>2. /\ rec \in WorkerType /\ rec.ops = r.ops /\ rec.todo = r.todo
          /\ rec.unlink \subseteq r.unlink /\ rec.step \in {r.step, "done"}
          /\ rec.step # "done" => rec.failed = r.failed
      BY <3>1 DEF WorkerType, Steps
    <3>3. Sound(rec)
      BY <2>0, <3>2 DEF Sound
    <3> QED BY <3>1, <3>3
  <2>6. CASE AfterApplyComplete(w)
    BY <2>6, IdleIs DEF AfterApplyComplete
  <2> QED BY <1>3, <2>2, <2>3, <2>4, <2>5, <2>6 DEF Applies
<1>4. CASE AppendPlanRow \/ LoaderFails \/ OnRowSelected
  BY <1>1, <1>4 DEF AppendPlanRow, LoaderFails, OnRowSelected
<1>5. CASE MoveCursor \/ CycleFilter \/ EditTargets \/ RemoveRow \/ DeleteSource \/ PressEnter \/ Apply
            \/ Cancel \/ MutateAnchor \/ ApplyTvdbSwitch \/ RemoveFromDetail \/ DeleteFromDetail
            \/ ConfirmDelete
  BY <1>1, <1>5 DEF MoveCursor, CycleFilter, EditTargets, RemoveRow, DeleteSource, PressEnter, Apply,
       Cancel, MutateAnchor, ApplyTvdbSwitch, RemoveFromDetail, DeleteFromDetail, ConfirmDelete
<1>6. CASE UNCHANGED vars
  BY <1>1, <1>6 DEF vars
<1> QED
  BY <1>2, <1>3, <1>4, <1>5, <1>6 DEF Next, User

-----------------------------------------------------------------------------
(* What a step does to the files                                           *)

\* Steps of the screen and of the loader that start no apply.
Quiet ==
  /\ UNCHANGED <<library, worker, risked, hidden>>
  /\ deleted \subseteq deleted' /\ source' \subseteq source
  /\ \A f \in source \ source' : f \in deleted' /\ f \notin Listed' /\ f \in Brought \cup {0}

LEMMA QuietSteps ==
  ASSUME TypeInv, [Next]_vars
  PROVE  \/ Quiet
         \/ ConvertRow \/ ConfirmApply
         \/ \E w \in Workers : Applies(w)
<1>1. CASE UNCHANGED <<disk, worker, risked, hidden, deleted>>
  BY <1>1 DEF Quiet, disk
<1>2. CASE ConfirmDelete
  <2>1. CASE screen.file \in source
    <3>1. RemoveRows({screen.file}) /\ source' = source \ {screen.file} /\ deleted' = deleted \cup {screen.file}
      BY <1>2, <2>1 DEF ConfirmDelete
    <3>2. Listed' = Listed \ {screen.file}
      BY <3>1, Removed DEF TypeInv
    <3>3. screen.file \in Brought \cup {0}
      BY DEF TypeInv, ScreenTyped
    <3> QED BY <1>2, <3>1, <3>2, <3>3 DEF Quiet, ConfirmDelete
  <2>2. CASE screen.file \notin source
    BY <1>1, <1>2, <2>2 DEF ConfirmDelete, disk
  <2> QED BY <2>1, <2>2
<1>3. CASE AppendPlanRow \/ LoaderFails \/ OnRowSelected
  BY <1>1, <1>3 DEF AppendPlanRow, LoaderFails, OnRowSelected, history
<1>4. CASE MoveCursor \/ CycleFilter \/ EditTargets \/ RemoveRow \/ DeleteSource \/ PressEnter \/ Apply
            \/ Cancel \/ MutateAnchor \/ ApplyTvdbSwitch \/ RemoveFromDetail \/ DeleteFromDetail
  BY <1>1, <1>4 DEF MoveCursor, CycleFilter, EditTargets, RemoveRow, DeleteSource, PressEnter, Apply,
       Cancel, MutateAnchor, ApplyTvdbSwitch, RemoveFromDetail, DeleteFromDetail, history
<1>5. CASE UNCHANGED vars
  BY <1>1, <1>5 DEF vars, disk
<1> QED
  BY <1>2, <1>3, <1>4, <1>5 DEF Next, User

\* What a worker does to itself.
LEMMA WorkerKeeps ==
  ASSUME TypeInv, NEW w \in Workers, Applies(w)
  PROVE  /\ Busy(w) /\ UNCHANGED <<next, deleted, risked, hidden>>
         /\ \A v \in Workers \ {w} : worker'[v] = worker[v]
         /\ \/ AfterApplyComplete(w) /\ worker'[w] = Idle
            \/ /\ Busy(w)' /\ worker'[w].ops = worker[w].ops
               /\ worker'[w].converted = worker[w].converted
<1>1. worker[w] \in WorkerType /\ worker \in [Workers -> WorkerType]
  BY DEF TypeInv, WorkersTyped, Sound
<1>2. Busy(w) /\ UNCHANGED <<next, deleted, risked, hidden>>
  BY DEF Applies, BeginOp, EndCopy, Gate, Unlink, AfterApplyComplete, Works, Busy, history
<1>3. \A v \in Workers \ {w} : worker'[v] = worker[v]
  BY <1>1 DEF Applies, BeginOp, EndCopy, Gate, Unlink, AfterApplyComplete, Works
<1>5. CASE \E failed \in BOOLEAN : Works(w, Behind(w, failed))
  <2>1. PICK failed \in BOOLEAN : worker'[w] = Behind(w, failed)
    BY <1>1, <1>5 DEF Works
  <2>2. worker'[w].ops = worker[w].ops
    BY <2>1, BehindIs
  <2>3. worker'[w].converted = worker[w].converted
    BY <2>1, BehindIs
  <2>4. Busy(w)'
    BY <2>1, BehindIs DEF Busy
  <2> QED BY <1>2, <1>3, <2>2, <2>3, <2>4
<1>6. CASE \/ Works(w, [worker[w] EXCEPT !.step = "copy"])
           \/ Works(w, [worker[w] EXCEPT !.step = "done"])
           \/ Works(w, [worker[w] EXCEPT !.step = "clean", !.unlink = DOMAIN worker[w].ops])
           \/ Works(w, [worker[w] EXCEPT !.unlink = @ \ {First(@)}])
           \/ Works(w, [worker[w] EXCEPT !.step = "done", !.failed = TRUE])
  <2>1. worker'[w].ops = worker[w].ops /\ worker'[w].converted = worker[w].converted
    BY <1>1, <1>6 DEF Works, WorkerType
  <2>2. Busy(w)'
    BY <1>1, <1>2, <1>6 DEF Works, WorkerType, Busy
  <2> QED BY <1>2, <1>3, <2>1, <2>2
<1>7. PICK gone \in BOOLEAN : gone = (Current(w) \notin source)
  OBVIOUS
<1>8. CASE BeginOp(w)
  BY <1>5, <1>6, <1>8 DEF BeginOp
<1>9. CASE EndCopy(w)
  BY <1>5, <1>7, <1>9 DEF EndCopy
<1>10. CASE Gate(w) \/ Unlink(w)
  BY <1>6, <1>10 DEF Gate, Unlink
<1>11. CASE AfterApplyComplete(w)
  BY <1>1, <1>2, <1>3, <1>11 DEF AfterApplyComplete
<1> QED BY <1>8, <1>9, <1>10, <1>11 DEF Applies

\* What a worker does to the disk: only at files of its plan and their paths.
LEMMA WorkerTouches ==
  ASSUME TypeInv, NEW w \in Workers, Applies(w)
  PROVE  /\ source' \subseteq source /\ source \ source' \subseteq DOMAIN worker[w].ops
         /\ \/ library' = library
            \/ \E f \in DOMAIN worker[w].ops, x \in Files \cup {Partial} :
                 x \in {f, Partial} /\ library' = [library EXCEPT ![worker[w].ops[f]] = x]
<1>0. /\ worker[w].unlink \in SUBSET Files
      /\ worker[w].unlink \subseteq DOMAIN worker[w].ops
      /\ DOMAIN worker[w].ops \subseteq Files
      /\ worker[w].step = "copy" => worker[w].todo # {}
  BY DEF TypeInv, WorkersTyped, Sound, WorkerType, Plans
<1>1. CASE BeginOp(w)
  <2>1. Current(w) \in DOMAIN worker[w].ops
    BY <1>1, CurrentIs DEF BeginOp
  <2> QED BY <1>0, <1>1, <2>1 DEF BeginOp, disk
<1>2. CASE EndCopy(w)
  <2>1. Current(w) \in DOMAIN worker[w].ops
    BY <1>0, <1>2, CurrentIs DEF EndCopy
  <2>2. CASE library' = library
    BY <1>2, <2>2 DEF EndCopy
  <2>3. CASE \E x \in {Current(w), Partial} : library' = [library EXCEPT ![worker[w].ops[Current(w)]] = x]
    BY <1>0, <1>2, <2>1, <2>3 DEF EndCopy
  <2>4. \/ library' = library
        \/ \E x \in {Current(w), Partial} : library' = [library EXCEPT ![worker[w].ops[Current(w)]] = x]
    BY <1>2 DEF EndCopy
  <2> QED BY <2>2, <2>3, <2>4
<1>3. CASE Gate(w) \/ AfterApplyComplete(w)
  BY <1>3 DEF Gate, AfterApplyComplete, disk
<1>4. CASE Unlink(w)
  <2>1. worker[w].unlink # {} => First(worker[w].unlink) \in DOMAIN worker[w].ops
    BY <1>0, FirstIs
  <2> QED BY <1>4, <2>1 DEF Unlink
<1> QED BY <1>1, <1>2, <1>3, <1>4 DEF Applies

LEMMA DiskStep ==
  ASSUME TypeInv, [Next]_vars
  PROVE  DiskTyped' /\ (Unbrought => Unbrought')
<1> USE DEF TypeInv, DiskTyped
<1>0. Brought \subseteq Brought'
  BY RowsStep
<1>1. CASE Quiet
  <2>1. 0 \notin Files
    BY DEF Files
  <2> QED BY <1>0, <1>1, <2>1 DEF Quiet, Unbrought
<1>2. CASE ConvertRow \/ ConfirmApply
  BY <1>0, <1>2, Starts DEF disk, Unbrought
<1>3. ASSUME NEW w \in Workers, Applies(w) PROVE DiskTyped' /\ (Unbrought => Unbrought')
  <2>1. /\ source' \subseteq source /\ source \ source' \subseteq DOMAIN worker[w].ops
        /\ \/ library' = library
           \/ \E f \in DOMAIN worker[w].ops, x \in Files \cup {Partial} :
                x \in {f, Partial} /\ library' = [library EXCEPT ![worker[w].ops[f]] = x]
    BY <1>3, WorkerTouches
  <2>2. DOMAIN worker[w].ops \subseteq Brought
    BY DEF WorkersTyped, Sound
  <2> QED BY <1>0, <2>1, <2>2 DEF Unbrought
<1> QED BY <1>1, <1>2, <1>3, QuietSteps

LEMMA TypeStep ==
  ASSUME TypeInv, [Next]_vars
  PROVE  TypeInv'
<1>1. RowsTyped'
  BY RowsStep
<1>2. ScreenTyped'
  BY ScreenStep
<1>3. OverridesTyped'
  BY OverridesStep
<1>4. DiskTyped'
  BY DiskStep
<1>5. WorkersTyped'
  BY WorkersStep
<1> QED BY <1>1, <1>2, <1>3, <1>4, <1>5 DEF TypeInv

-----------------------------------------------------------------------------
(* Applies keep apart                                                      *)

\* The apply that starts, and what it meets.
LEMMA StartIs ==
  ASSUME TypeInv, ConvertRow \/ ConfirmApply
  PROVE  \E w \in Workers, ops \in Plans, converted \in SUBSET Files :
           /\ ~Busy(w) /\ Injective(ops) /\ DOMAIN ops \subseteq Files
           /\ worker'[w].step = "op" /\ worker'[w].ops = ops /\ worker'[w].todo = DOMAIN ops
           /\ worker'[w].converted = converted
           /\ \A v \in Workers \ {w} : worker'[v] = worker[v]
           /\ risked' = risked \cup Meetings(ops)
           /\ hidden' = hidden \cup (DOMAIN ops \ converted)
           /\ UNCHANGED <<ui, next, disk, deleted>>
<1>1. PICK ops \in Plans, converted \in SUBSET Files :
           /\ Injective(ops) /\ DOMAIN ops \subseteq Brought
           /\ ApplyInBackground(ops, converted)
           /\ UNCHANGED <<ui, next, disk, saving, deleted>>
  BY Starts
<1> DEFINE rec == [Idle EXCEPT !.step = "op", !.ops = ops, !.todo = DOMAIN ops, !.converted = converted]
<1>2. PICK w \in Workers : ~Busy(w) /\ worker' = [worker EXCEPT ![w] = rec]
  BY <1>1 DEF ApplyInBackground
<1>3. rec.step = "op" /\ rec.ops = ops /\ rec.todo = DOMAIN ops /\ rec.converted = converted
  BY <1>1, StartedIs
<1> HIDE DEF rec
<1>4. worker'[w] = rec /\ \A v \in Workers \ {w} : worker'[v] = worker[v]
  BY <1>2 DEF TypeInv, WorkersTyped
<1>5. DOMAIN ops \subseteq Files
  BY DEF Plans
<1>6. /\ risked' = risked \cup Meetings(ops)
      /\ hidden' = hidden \cup (DOMAIN ops \ converted)
  BY <1>1 DEF ApplyInBackground
<1> QED BY <1>1, <1>2, <1>3, <1>4, <1>5, <1>6

\* Files an apply has in common with one it meets are among its meetings.
LEMMA MeetingsHave ==
  ASSUME TypeInv, NEW ops \in Plans, NEW v \in Workers, Busy(v), NEW f \in Files
  PROVE  /\ f \in DOMAIN ops /\ f \in DOMAIN worker[v].ops => f \in Meetings(ops)
         /\ \A g \in DOMAIN worker[v].ops :
              f \in DOMAIN ops /\ ops[f] = worker[v].ops[g] => f \in Meetings(ops)
         /\ \A g \in DOMAIN ops :
              f \in DOMAIN worker[v].ops /\ worker[v].ops[f] = ops[g] => f \in Meetings(ops)
<1> DEFINE others == { worker[x].ops : x \in { x \in Workers : Busy(x) } }
<1>1. worker[v].ops \in others
  OBVIOUS
<1>2. /\ { h \in DOMAIN ops : \E o \in others : h \in DOMAIN o \/ ops[h] \in Range(o) } \subseteq Meetings(ops)
      /\ { h \in Files : \E o \in others : h \in DOMAIN o /\ o[h] \in Range(ops) } \subseteq Meetings(ops)
  BY DEF Meetings
<1>3. \A o : \A g \in DOMAIN o : o[g] \in Range(o)
  BY DEF Range
<1> HIDE DEF others
<1> QED BY <1>1, <1>2, <1>3

LEMMA ApartStep ==
  ASSUME TypeInv, Apart, [Next]_vars
  PROVE  Apart'
<1>1. CASE Quiet
  BY <1>1 DEF Quiet, Apart, Busy
<1>2. CASE ConvertRow \/ ConfirmApply
  <2>1. PICK w \in Workers, ops \in Plans :
           /\ ~Busy(w) /\ Injective(ops) /\ DOMAIN ops \subseteq Files
           /\ worker'[w].step = "op" /\ worker'[w].ops = ops
           /\ \A v \in Workers \ {w} : worker'[v] = worker[v]
           /\ risked' = risked \cup Meetings(ops)
    BY <1>2, StartIs
  <2>2. \A v \in Workers : Injective(worker'[v].ops)
    BY <2>1 DEF Apart
  <2>3. ASSUME NEW v \in Workers, NEW u \in Workers, v # u, Busy(v)', Busy(u)',
               NEW f \in DOMAIN worker'[v].ops \ risked'
        PROVE  /\ f \notin DOMAIN worker'[u].ops
               /\ \A g \in DOMAIN worker'[u].ops : worker'[u].ops[g] # worker'[v].ops[f]
    <3>0. \A x \in Workers : DOMAIN worker[x].ops \subseteq Files
      BY DEF TypeInv, WorkersTyped, Sound, WorkerType, Plans
    <3>1. CASE v # w /\ u # w
      BY <2>1, <2>3, <3>1 DEF Apart, Busy
    <3>2. CASE v = w
      <4>1. worker'[u] = worker[u] /\ Busy(u) /\ f \in DOMAIN ops /\ f \in Files /\ f \notin Meetings(ops)
        BY <2>1, <2>3, <3>2 DEF Busy
      <4>2. f \notin DOMAIN worker[u].ops
        BY <4>1, MeetingsHave
      <4>3. \A g \in DOMAIN worker[u].ops : ops[f] # worker[u].ops[g]
        BY <4>1, MeetingsHave
      <4> QED BY <2>1, <3>2, <4>1, <4>2, <4>3
    <3>3. CASE u = w
      <4>1. worker'[v] = worker[v] /\ Busy(v) /\ f \in DOMAIN worker[v].ops /\ f \in Files /\ f \notin Meetings(ops)
        BY <2>1, <2>3, <3>0, <3>3 DEF Busy
      <4>2. f \notin DOMAIN ops
        BY <4>1, MeetingsHave
      <4>3. \A g \in DOMAIN ops : worker[v].ops[f] # ops[g]
        BY <4>1, MeetingsHave
      <4> QED BY <2>1, <3>3, <4>1, <4>2, <4>3
    <3> QED BY <3>1, <3>2, <3>3
  <2> HIDE DEF Apart
  <2>4. \A v, u \in Workers : v # u /\ Busy(v)' /\ Busy(u)' =>
          \A f \in DOMAIN worker'[v].ops \ risked' :
            /\ f \notin DOMAIN worker'[u].ops
            /\ \A g \in DOMAIN worker'[u].ops : worker'[u].ops[g] # worker'[v].ops[f]
    BY <2>3
  <2> QED BY <2>2, <2>4 DEF Apart
<1>3. ASSUME NEW w \in Workers, Applies(w) PROVE Apart'
  <2>1. /\ Busy(w) /\ UNCHANGED risked
        /\ \A v \in Workers \ {w} : worker'[v] = worker[v]
        /\ worker'[w] = Idle \/ worker'[w].ops = worker[w].ops
    BY <1>3, WorkerKeeps
  <2>2. \A v \in Workers : Busy(v)' => Busy(v) /\ worker'[v].ops = worker[v].ops
    BY <2>1 DEF Busy, Idle
  <2>3. \A v \in Workers : worker'[v].ops = worker[v].ops \/ worker'[v].ops = <<>>
    BY <2>1 DEF Idle
  <2>4. \A v \in Workers : Injective(worker'[v].ops)
    BY <2>3 DEF Apart, Injective
  <2>5. \A v, u \in Workers : v # u /\ Busy(v)' /\ Busy(u)' =>
          \A f \in DOMAIN worker'[v].ops \ risked' :
            /\ f \notin DOMAIN worker'[u].ops
            /\ \A g \in DOMAIN worker'[u].ops : worker'[u].ops[g] # worker'[v].ops[f]
    BY <2>1, <2>2 DEF Apart
  <2> QED BY <2>4, <2>5 DEF Apart
<1> QED BY <1>1, <1>2, <1>3, QuietSteps

LEMMA OwedStep ==
  ASSUME TypeInv, Unbrought, Owed, [Next]_vars
  PROVE  Owed'
<1> DEFINE Kept1 == \A w \in Workers : Busy(w)' => DOMAIN worker'[w].ops \subseteq worker'[w].converted \cup hidden'
           Kept2 == \A f \in Listed' : f \in source' \cup hidden' \/ \E w \in Workers : Busy(w)' /\ f \in worker'[w].converted
<1> SUFFICES Kept1 /\ Kept2
  BY DEF Owed
<1>0. \A f \in Listed' : f \in Listed \/ (f \in source /\ f \notin Brought)
  <2>1. Listed' \subseteq Listed \cup {next} /\ next \notin Brought
    BY ListStep DEF TypeInv, RowsTyped, Brought
  <2>2. Listed' \subseteq Files
    BY RowsStep DEF RowsTyped, Brought
  <2> QED BY <2>1, <2>2 DEF Unbrought
<1>1. CASE Quiet
  BY <1>0, <1>1 DEF Quiet, Owed, Busy
<1>2. CASE ConvertRow \/ ConfirmApply
  <2>1. PICK w \in Workers, ops \in Plans, converted \in SUBSET Files :
           /\ ~Busy(w)
           /\ worker'[w].step = "op" /\ worker'[w].ops = ops
           /\ worker'[w].converted = converted
           /\ \A v \in Workers \ {w} : worker'[v] = worker[v]
           /\ hidden' = hidden \cup (DOMAIN ops \ converted)
           /\ UNCHANGED <<ui, next, disk, deleted>>
    BY <1>2, StartIs
  <2>2. Kept1
    BY <2>1 DEF Owed, Busy
  <2>3. \A v \in Workers : Busy(v) => Busy(v)' /\ worker'[v].converted = worker[v].converted
    BY <2>1 DEF Busy
  <2>4. Kept2
    BY <1>0, <2>1, <2>3 DEF Owed, disk
  <2> QED BY <2>2, <2>4
<1>3. ASSUME NEW w \in Workers, Applies(w) PROVE Kept1 /\ Kept2
  <2>1. /\ Busy(w) /\ UNCHANGED hidden
        /\ \A v \in Workers \ {w} : worker'[v] = worker[v]
        /\ \/ AfterApplyComplete(w) /\ worker'[w] = Idle
           \/ /\ Busy(w)' /\ worker'[w].ops = worker[w].ops
              /\ worker'[w].converted = worker[w].converted
    BY <1>3, WorkerKeeps
  <2>2. Kept1
    BY <2>1 DEF Owed, Busy, Idle
  <2>3. source \ source' \subseteq DOMAIN worker[w].ops /\ DOMAIN worker[w].ops \subseteq Brought
    BY <1>3, WorkerTouches DEF TypeInv, WorkersTyped, Sound
  <2>4. ASSUME NEW f \in Listed'
        PROVE  f \in source' \cup hidden' \/ \E v \in Workers : Busy(v)' /\ f \in worker'[v].converted
    <3>1. \/ f \in source' \cup hidden
          \/ \E v \in Workers : Busy(v) /\ f \in worker[v].converted
      BY <1>0, <2>1, <2>3 DEF Owed
    <3>2. ASSUME NEW v \in Workers, Busy(v), f \in worker[v].converted, AfterApplyComplete(w), v = w
          PROVE  f \in source'
      <4>1. RemoveRows(worker[w].converted \ source) /\ source' = source
        BY <3>2 DEF AfterApplyComplete, disk
      <4>2. Listed' = Listed \ (worker[w].converted \ source)
        BY <4>1, Removed DEF TypeInv
      <4> QED BY <3>2, <4>1, <4>2
    <3> QED BY <2>1, <3>1, <3>2 DEF Busy
  <2> QED BY <2>2, <2>4
<1> HIDE DEF Kept1, Kept2
<1> QED BY <1>1, <1>2, <1>3, QuietSteps

\* Nothing an apply does puts a file not risked in the way of another.
LEMMA ClearedStep ==
  ASSUME TypeInv, Apart, Cleared, [Next]_vars
  PROVE  Cleared'
<1> SUFFICES ASSUME NEW v \in Workers, Busy(v)', NEW g \in DOMAIN worker'[v].ops
             PROVE  library'[worker'[v].ops[g]] \in {Absent, Partial, g} \cup risked'
  BY DEF Cleared
<1>0. \A x \in Workers : \A f \in DOMAIN worker[x].ops : f \in Files /\ worker[x].ops[f] \in Target
  BY DEF TypeInv, WorkersTyped, Sound, WorkerType, Plans
<1>1. CASE Quiet
  BY <1>1 DEF Quiet, Cleared, Busy
<1>2. CASE ConvertRow \/ ConfirmApply
  <2>1. PICK w \in Workers, ops \in Plans :
           /\ ~Busy(w) /\ DOMAIN ops \subseteq Files
           /\ worker'[w].step = "op" /\ worker'[w].ops = ops
           /\ \A x \in Workers \ {w} : worker'[x] = worker[x]
           /\ risked' = risked \cup Meetings(ops)
           /\ library' = library
    BY <1>2, StartIs DEF disk
  <2>2. CASE v = w
    <3>1. g \in DOMAIN ops /\ ops[g] \in Target
      BY <2>1, <2>2 DEF Plans
    <3>2. library[ops[g]] \in Files \cup {Absent, Partial}
      BY <3>1 DEF TypeInv, DiskTyped
    <3>3. \A f \in Files : g # f /\ library[ops[g]] = f => f \in Meetings(ops)
      BY <3>1 DEF Meetings
    <3> QED BY <2>1, <2>2, <3>2, <3>3
  <2>3. CASE v # w
    BY <2>1, <2>3 DEF Cleared, Busy
  <2> QED BY <2>2, <2>3
<1>3. ASSUME NEW w \in Workers, Applies(w)
      PROVE  library'[worker'[v].ops[g]] \in {Absent, Partial, g} \cup risked'
  <2>1. /\ Busy(w) /\ UNCHANGED risked
        /\ \A x \in Workers \ {w} : worker'[x] = worker[x]
        /\ worker'[w] = Idle \/ worker'[w].ops = worker[w].ops
    BY <1>3, WorkerKeeps
  <2>2. Busy(v) /\ worker'[v].ops = worker[v].ops
    BY <2>1 DEF Busy, Idle
  <2>3. CASE library' = library
    BY <2>1, <2>2, <2>3 DEF Cleared
  <2>4. ASSUME NEW f \in DOMAIN worker[w].ops, NEW x \in Files \cup {Partial}, x \in {f, Partial},
               library' = [library EXCEPT ![worker[w].ops[f]] = x]
        PROVE  library'[worker'[v].ops[g]] \in {Absent, Partial, g} \cup risked'
    <3>1. CASE worker[v].ops[g] # worker[w].ops[f]
      BY <1>0, <2>1, <2>2, <2>4, <3>1 DEF Cleared, TypeInv, DiskTyped
    <3>2. CASE worker[v].ops[g] = worker[w].ops[f]
      <4>1. library'[worker'[v].ops[g]] = x
        BY <1>0, <2>2, <2>4, <3>2 DEF TypeInv, DiskTyped
      <4>2. v = w => f = g
        BY <2>2, <3>2 DEF Apart, Injective
      <4>3. v # w => f \in risked
        BY <2>1, <2>2, <3>2 DEF Apart
      <4> QED BY <2>1, <2>4, <4>1, <4>2, <4>3
    <3> QED BY <3>1, <3>2
  <2>5. \/ library' = library
        \/ \E f \in DOMAIN worker[w].ops, x \in Files \cup {Partial} :
             x \in {f, Partial} /\ library' = [library EXCEPT ![worker[w].ops[f]] = x]
    BY <1>3, WorkerTouches
  <2> QED BY <2>3, <2>4, <2>5
<1> QED BY <1>1, <1>2, <1>3, QuietSteps

-----------------------------------------------------------------------------
(* Nothing is lost                                                         *)

\* A worker writes its file's own bytes, or less while the file is at its
\* source, or is risked.
LEMMA WorkerWrites ==
  ASSUME TypeInv, Apart, NEW w \in Workers, Applies(w)
  PROVE  LET c == Current(w)
             t == worker[w].ops[c]
         IN \/ /\ library' = library
               /\ source' = source \/ Unlink(w)
               /\ Busy(w)' /\ ~worker'[w].failed => worker'[w].todo = worker[w].todo
            \/ /\ c \in worker[w].todo
               /\ library' = [library EXCEPT ![t] = c] /\ source \ source' \subseteq {c}
               /\ worker'[w].todo = worker[w].todo \ {c}
            \/ /\ c \in worker[w].todo
               /\ library' = [library EXCEPT ![t] = Partial] /\ source' = source
               /\ \/ c \in source /\ worker'[w].todo = worker[w].todo
                  \/ c \in risked /\ worker'[w].todo = worker[w].todo \ {c}
<1> DEFINE c == Current(w)
           t == worker[w].ops[c]
           Same == /\ library' = library
                   /\ source' = source \/ Unlink(w)
                   /\ Busy(w)' /\ ~worker'[w].failed => worker'[w].todo = worker[w].todo
           Whole == /\ c \in worker[w].todo
                    /\ library' = [library EXCEPT ![t] = c] /\ source \ source' \subseteq {c}
                    /\ worker'[w].todo = worker[w].todo \ {c}
           Part == /\ c \in worker[w].todo
                   /\ library' = [library EXCEPT ![t] = Partial] /\ source' = source
                   /\ \/ c \in source /\ worker'[w].todo = worker[w].todo
                      \/ c \in risked /\ worker'[w].todo = worker[w].todo \ {c}
<1> SUFFICES Same \/ Whole \/ Part
  OBVIOUS
<1>0. /\ worker[w] \in WorkerType /\ worker \in [Workers -> WorkerType]
      /\ \A v \in Workers : worker[v].step = "copy" => worker[v].todo # {}
  BY DEF TypeInv, WorkersTyped, Sound
<1>1. CASE BeginOp(w)
  <2>1. c \in worker[w].todo
    BY <1>1, CurrentIs DEF BeginOp
  <2>2. CASE Works(w, Behind(w, TRUE)) /\ UNCHANGED disk
    <3>1. worker'[w] = Behind(w, TRUE)
      BY <1>0, <2>2 DEF Works
    <3>2. worker'[w].failed
      BY <3>1, BehindIs
    <3> QED BY <2>2, <3>2 DEF disk
  <2>3. CASE Works(w, Behind(w, FALSE)) /\ source' = source \ {c} /\ library' = [library EXCEPT ![t] = c]
    <3>1. worker'[w] = Behind(w, FALSE)
      BY <1>0, <2>3 DEF Works
    <3>2. worker'[w].todo = worker[w].todo \ {c}
      BY <3>1, BehindIs
    <3> QED BY <2>1, <2>3, <3>2
  <2>4. CASE /\ c \in source /\ Works(w, [worker[w] EXCEPT !.step = "copy"])
             /\ library' = [library EXCEPT ![t] = Partial] /\ UNCHANGED source
    <3>1. worker'[w].todo = worker[w].todo
      BY <1>0, <2>4 DEF Works, WorkerType
    <3> QED BY <2>1, <2>4, <3>1
  <2> QED BY <1>1, <2>2, <2>3, <2>4 DEF BeginOp
<1>2. CASE EndCopy(w)
  <2>1. c \in worker[w].todo /\ c \in DOMAIN worker[w].ops
    BY <1>0, <1>2, CurrentIs DEF EndCopy
  <2>2. PICK gone \in BOOLEAN : gone = (c \notin source)
    OBVIOUS
  <2> DEFINE shared == \E v \in Workers \ {w} :
                         worker[v].step = "copy" /\ worker[v].ops[Current(v)] = t
  <2>3. CASE Works(w, Behind(w, TRUE)) /\ UNCHANGED <<library, source>>
    <3>1. worker'[w] = Behind(w, TRUE)
      BY <1>0, <2>3 DEF Works
    <3>2. worker'[w].failed
      BY <3>1, BehindIs
    <3> QED BY <2>3, <3>2
  <2>4. CASE /\ \E whole \in {TRUE, ~shared} : library' = [library EXCEPT ![t] = IF whole THEN c ELSE Partial]
             /\ Works(w, Behind(w, c \notin source)) /\ UNCHANGED source
    <3>1. worker'[w] = Behind(w, gone)
      BY <1>0, <2>2, <2>4 DEF Works
    <3>2. worker'[w].todo = worker[w].todo \ {c}
      BY <3>1, BehindIs
    <3>3. CASE library' = [library EXCEPT ![t] = c]
      BY <2>1, <2>4, <3>2, <3>3
    <3>4. CASE shared /\ library' = [library EXCEPT ![t] = Partial]
      <4>1. PICK v \in Workers \ {w} : worker[v].step = "copy" /\ worker[v].ops[Current(v)] = t
        BY <3>4
      <4>2. Current(v) \in DOMAIN worker[v].ops
        BY <1>0, <4>1, CurrentIs
      <4>3. Busy(v) /\ Busy(w)
        BY <1>2, <4>1 DEF Busy, EndCopy
      <4>4. c \in risked
        BY <2>1, <4>1, <4>2, <4>3 DEF Apart
      <4> QED BY <2>1, <2>4, <3>2, <3>4, <4>4
    <3> QED BY <2>4, <3>3, <3>4
  <2>5. \/ Works(w, Behind(w, TRUE)) /\ UNCHANGED <<library, source>>
        \/ /\ \E whole \in {TRUE, ~shared} : library' = [library EXCEPT ![t] = IF whole THEN c ELSE Partial]
           /\ Works(w, Behind(w, c \notin source)) /\ UNCHANGED source
    BY <1>2 DEF EndCopy
  <2> QED BY <2>3, <2>4, <2>5
<1>3. CASE Gate(w)
  <2>1. worker'[w].todo = worker[w].todo
    BY <1>0, <1>3 DEF Gate, Works, WorkerType
  <2> QED BY <1>3, <2>1 DEF Gate, disk
<1>4. CASE Unlink(w)
  <2>1. worker'[w].todo = worker[w].todo
    BY <1>0, <1>4 DEF Unlink, Works, WorkerType
  <2> QED BY <1>4, <2>1 DEF Unlink
<1>5. CASE AfterApplyComplete(w)
  <2>1. ~Busy(w)'
    BY <1>0, <1>5 DEF AfterApplyComplete, Busy, Idle
  <2> QED BY <1>5, <2>1 DEF AfterApplyComplete, disk
<1> HIDE DEF Same, Whole, Part
<1> QED BY <1>1, <1>2, <1>3, <1>4, <1>5 DEF Applies

\* A failure is not forgotten before the apply is over.
LEMMA FailedStays ==
  ASSUME TypeInv, NEW w \in Workers, Applies(w), Busy(w)', worker[w].failed
  PROVE  worker'[w].failed
<1>0. worker[w] \in WorkerType /\ worker \in [Workers -> WorkerType]
  BY DEF TypeInv, WorkersTyped, Sound
<1>1. CASE \E failed \in BOOLEAN : Works(w, Behind(w, failed))
  <2>1. PICK failed \in BOOLEAN : worker'[w] = Behind(w, failed)
    BY <1>0, <1>1 DEF Works
  <2> QED BY <2>1, BehindIs
<1>2. CASE \/ Works(w, [worker[w] EXCEPT !.step = "copy"])
           \/ Works(w, [worker[w] EXCEPT !.step = "done"])
           \/ Works(w, [worker[w] EXCEPT !.step = "clean", !.unlink = DOMAIN worker[w].ops])
           \/ Works(w, [worker[w] EXCEPT !.unlink = @ \ {First(@)}])
           \/ Works(w, [worker[w] EXCEPT !.step = "done", !.failed = TRUE])
  BY <1>0, <1>2 DEF Works, WorkerType
<1>3. PICK gone \in BOOLEAN : gone = (Current(w) \notin source)
  OBVIOUS
<1>4. CASE BeginOp(w)
  BY <1>1, <1>2, <1>4 DEF BeginOp
<1>5. CASE EndCopy(w)
  BY <1>1, <1>3, <1>5 DEF EndCopy
<1>6. CASE Gate(w) \/ Unlink(w)
  BY <1>2, <1>6 DEF Gate, Unlink
<1>7. ~AfterApplyComplete(w)
  BY <1>0 DEF AfterApplyComplete, Busy, Idle
<1> QED BY <1>4, <1>5, <1>6, <1>7 DEF Applies

LEMMA ArrivedStep ==
  ASSUME TypeInv, Apart, Arrived, [Next]_vars
  PROVE  Arrived'
<1> SUFFICES ASSUME NEW v \in Workers, Busy(v)', ~worker'[v].failed,
                    NEW f \in DOMAIN worker'[v].ops \ (worker'[v].todo \cup risked')
             PROVE  library'[worker'[v].ops[f]] = f
  BY DEF Arrived
<1>0. \A x \in Workers : \A g \in DOMAIN worker[x].ops : g \in Files /\ worker[x].ops[g] \in Target
  BY DEF TypeInv, WorkersTyped, Sound, WorkerType, Plans
<1>1. CASE Quiet
  BY <1>1 DEF Quiet, Arrived, Busy
<1>2. CASE ConvertRow \/ ConfirmApply
  <2>1. PICK w \in Workers, ops \in Plans :
           /\ ~Busy(w)
           /\ worker'[w].ops = ops /\ worker'[w].todo = DOMAIN ops
           /\ \A x \in Workers \ {w} : worker'[x] = worker[x]
           /\ risked' = risked \cup Meetings(ops)
           /\ library' = library
    BY <1>2, StartIs DEF disk
  <2>2. v # w
    BY <2>1
  <2> QED BY <2>1, <2>2 DEF Arrived, Busy
<1>3. ASSUME NEW w \in Workers, Applies(w)
      PROVE  library'[worker'[v].ops[f]] = f
  <2>1. /\ Busy(w) /\ UNCHANGED risked
        /\ \A x \in Workers \ {w} : worker'[x] = worker[x]
        /\ worker'[w] = Idle \/ worker'[w].ops = worker[w].ops
    BY <1>3, WorkerKeeps
  <2>2. /\ Busy(v) /\ worker'[v].ops = worker[v].ops /\ f \notin risked
        /\ f \in Files /\ worker[v].ops[f] \in Target
    BY <1>0, <2>1 DEF Busy, Idle
  <2>3. CASE v # w
    <3>1. library[worker[v].ops[f]] = f
      BY <2>1, <2>2, <2>3 DEF Arrived
    <3>2. \A g \in DOMAIN worker[w].ops : worker[w].ops[g] # worker[v].ops[f]
      BY <2>1, <2>2, <2>3 DEF Apart
    <3>3. \/ library' = library
          \/ \E g \in DOMAIN worker[w].ops, x \in Files \cup {Partial} :
               x \in {g, Partial} /\ library' = [library EXCEPT ![worker[w].ops[g]] = x]
      BY <1>3, WorkerTouches
    <3> QED BY <2>2, <3>1, <3>2, <3>3 DEF TypeInv, DiskTyped
  <2>4. CASE v = w
    <3> DEFINE c == Current(w)
               t == worker[w].ops[c]
    <3>1. ~worker[w].failed
      BY <1>3, <2>4, FailedStays
    <3>2. CASE f \notin worker[w].todo
      <4>1. library[worker[w].ops[f]] = f
        BY <2>2, <2>4, <3>1, <3>2 DEF Arrived
      <4>2. ASSUME c \in worker[w].todo PROVE worker[w].ops[f] # t
        <5>1. c \in DOMAIN worker[w].ops /\ c # f
          BY <3>2, <4>2 DEF TypeInv, WorkersTyped, Sound
        <5> QED BY <2>2, <2>4, <5>1 DEF Apart, Injective
      <4>3. \/ library' = library
            \/ c \in worker[w].todo /\ \E x : library' = [library EXCEPT ![t] = x]
        BY <1>3, WorkerWrites
      <4> HIDE DEF t, c
      <4> QED BY <2>2, <2>4, <4>1, <4>2, <4>3 DEF TypeInv, DiskTyped
    <3>3. CASE f \in worker[w].todo
      <4>1. f = c /\ library' = [library EXCEPT ![t] = c]
        BY <1>3, <2>2, <2>4, <3>3, WorkerWrites
      <4> QED BY <2>2, <2>4, <4>1 DEF TypeInv, DiskTyped
    <3> QED BY <3>2, <3>3
  <2> QED BY <2>3, <2>4
<1> QED BY <1>1, <1>2, <1>3, QuietSteps

LEMMA LostStep ==
  ASSUME TypeInv, Apart, Cleared, Arrived, NothingLost, [Next]_vars
  PROVE  NothingLost'
<1> SUFFICES ASSUME NEW f \in Files, f \notin source', f \notin deleted', f \notin risked'
             PROVE  \E t \in Target : library'[t] = f
  BY DEF NothingLost
<1>0. \A x \in Workers : \A g \in DOMAIN worker[x].ops : g \in Files /\ worker[x].ops[g] \in Target
  BY DEF TypeInv, WorkersTyped, Sound, WorkerType, Plans
<1>1. CASE Quiet
  BY <1>1 DEF Quiet, NothingLost
<1>2. CASE ConvertRow \/ ConfirmApply
  <2>1. UNCHANGED <<disk, deleted>> /\ risked \subseteq risked'
    BY <1>2, StartIs
  <2> QED BY <2>1 DEF NothingLost, disk
<1>3. ASSUME NEW w \in Workers, Applies(w)
      PROVE  \E t \in Target : library'[t] = f
  <2> DEFINE c == Current(w)
             t == worker[w].ops[c]
  <2>1. Busy(w) /\ UNCHANGED <<deleted, risked>>
    BY <1>3, WorkerKeeps
  <2>2. c \in worker[w].todo => c \in DOMAIN worker[w].ops /\ c \in Files /\ t \in Target
    BY <1>0 DEF TypeInv, WorkersTyped, Sound
  <2>3. f \in {Absent, Partial} => FALSE
    BY QueueAssumption DEF Files, Absent, Partial
  <2>4. CASE /\ library' = library
             /\ source' = source \/ Unlink(w)
    <3>1. CASE f \notin source
      BY <2>1, <2>4, <3>1 DEF NothingLost
    <3>2. CASE f \in source
      <4>1. /\ Unlink(w) /\ f \in DOMAIN worker[w].ops
            /\ worker[w].todo = {} /\ ~worker[w].failed
        BY <1>3, <2>4, <3>2, WorkerTouches DEF Unlink, TypeInv, WorkersTyped, Sound
      <4>2. library[worker[w].ops[f]] = f
        BY <2>1, <4>1 DEF Arrived
      <4> QED BY <1>0, <2>4, <4>1, <4>2
    <3> QED BY <3>1, <3>2
  <2>5. CASE /\ c \in worker[w].todo
             /\ library' = [library EXCEPT ![t] = c] /\ source \ source' \subseteq {c}
    <3>1. library'[t] = c
      BY <2>2, <2>5 DEF TypeInv, DiskTyped
    <3>2. CASE f = c
      BY <2>2, <2>5, <3>1, <3>2
    <3>3. CASE f # c
      <4>1. PICK u \in Target : library[u] = f
        BY <2>1, <2>5, <3>3 DEF NothingLost
      <4>2. u # t
        BY <2>1, <2>2, <2>3, <2>5, <3>3, <4>1 DEF Cleared
      <4> QED BY <2>5, <4>1, <4>2 DEF TypeInv, DiskTyped
    <3> QED BY <3>2, <3>3
  <2>6. CASE /\ c \in worker[w].todo
             /\ library' = [library EXCEPT ![t] = Partial] /\ source' = source
             /\ c \in source \/ c \in risked
    <3>1. f # c
      BY <2>1, <2>6
    <3>2. PICK u \in Target : library[u] = f
      BY <2>1, <2>6 DEF NothingLost
    <3>3. u # t
      BY <2>1, <2>2, <2>3, <2>6, <3>1, <3>2 DEF Cleared
    <3> QED BY <2>6, <3>2, <3>3 DEF TypeInv, DiskTyped
  <2> HIDE DEF c, t
  <2>7. \/ library' = library /\ (source' = source \/ Unlink(w))
        \/ /\ c \in worker[w].todo
           /\ library' = [library EXCEPT ![t] = c] /\ source \ source' \subseteq {c}
        \/ /\ c \in worker[w].todo
           /\ library' = [library EXCEPT ![t] = Partial] /\ source' = source
           /\ c \in source \/ c \in risked
    BY <1>3, WorkerWrites DEF c, t
  <2> QED BY <2>4, <2>5, <2>6, <2>7
<1> QED BY <1>1, <1>2, <1>3, QuietSteps

-----------------------------------------------------------------------------
(* Theorems                                                                *)

LEMMA InitInv == Init => IInv
<1> SUFFICES ASSUME Init PROVE IInv
  OBVIOUS
<1> USE DEF Init
<1>1. <<>> \in Plans /\ Injective(<<>>) /\ DOMAIN <<>> = {}
  <2>1. <<>> \in [{} -> Target]
    OBVIOUS
  <2>2. <<>> \in Plans
    BY <2>1 DEF Plans
  <2> QED BY <2>2 DEF Injective
<1>2. Listed = {} /\ MaxFiles \in Nat
  BY QueueAssumption DEF Listed
<1>3. RowsTyped
  BY <1>2 DEF RowsTyped
<1>4. ScreenTyped
  BY <1>1 DEF ScreenTyped, NoScreen
<1>5. OverridesTyped /\ DOMAIN overrides.rows = {}
  <2>1. \A K : <<>> \in Overrides(K)
    <3>1. \A K : {} \in SUBSET K /\ <<>> \in [{} -> Anchor]
      OBVIOUS
    <3> QED BY <3>1 DEF Overrides
  <2> QED BY <2>1 DEF OverridesTyped, NoOverrides
<1>6. DiskTyped
  BY DEF DiskTyped
<1>7. WorkersTyped
  <2>1. \A w \in Workers : worker[w] = Idle
    OBVIOUS
  <2> QED BY <2>1, IdleIs DEF WorkersTyped, Sound
<1>8. Unbrought /\ Owed /\ NothingLost
  BY <1>2 DEF Unbrought, Owed, NothingLost, Busy, Idle
<1>9. Apart /\ Cleared /\ Arrived
  BY <1>1 DEF Apart, Cleared, Arrived, Busy, Idle
<1>10. OverridesFit /\ Settled
  BY <1>5 DEF OverridesFit, Settled
<1> QED BY <1>3, <1>4, <1>5, <1>6, <1>7, <1>8, <1>9, <1>10 DEF IInv, TypeInv

LEMMA Invariance == Spec => []IInv
<1>1. Init => IInv
  BY InitInv
<1>2. IInv /\ [Next]_vars => IInv'
  <2> SUFFICES ASSUME IInv, [Next]_vars PROVE IInv'
    OBVIOUS
  <2> USE DEF IInv
  <2>1. TypeInv'
    BY TypeStep
  <2>2. Unbrought'
    BY DiskStep
  <2>3. Apart'
    BY ApartStep
  <2>4. Cleared'
    BY ClearedStep
  <2>5. Arrived'
    BY ArrivedStep
  <2>6. Owed'
    BY OwedStep
  <2>7. NothingLost'
    BY LostStep
  <2>8. OverridesFit'
    BY OverridesStep
  <2>9. Settled'
    BY SettledStep
  <2> QED BY <2>1, <2>2, <2>3, <2>4, <2>5, <2>6, <2>7, <2>8, <2>9
<1> QED BY <1>1, <1>2, PTL DEF Spec

\* A file is at its source or whole in the library, unless the user deleted it
\* or two applies met at it, however many applies run at once (NothingLost).
THEOREM NothingIsLost == Spec => []NothingLost
<1>1. IInv => NothingLost
  BY DEF IInv
<1> QED BY <1>1, Invariance, PTL

\* With no apply under way no row is left of a file that is gone, but of those
\* sent to apply without a target in the table (NoGhosts).
THEOREM NoGhostsRemain == Spec => []NoGhosts
<1>1. IInv => NoGhosts
  BY DEF IInv, Owed, NoGhosts
<1> QED BY <1>1, Invariance, PTL

\* Unless the last save failed, what the user decided last for a row, and has
\* not switched to TVDB since, is what the file says of it, whatever rows came
\* and went and whichever saves before failed (DecisionsAreSaved).
THEOREM SavedDecisions == Spec => []DecisionsAreSaved
<1>1. IInv => DecisionsAreSaved
  BY DEF IInv, OverridesFit, Settled, DecisionsAreSaved
<1> QED BY <1>1, Invariance, PTL

\* A row leaves the list only for its file being gone, or because the user
\* excluded that row, whichever rows the workers removed meanwhile
\* (RowsLeaveForCause).
THEOREM RowsStay == Spec => RowsLeaveForCause
<1>1. IInv /\ [Next]_vars => [\A f \in Listed : f \in Listed' \/ f \notin source' \/ f \in Excluded]_vars
  <2> SUFFICES ASSUME IInv, Next
               PROVE  \A f \in Listed : f \in Listed' \/ f \notin source' \/ f \in Excluded
    OBVIOUS
  <2> USE DEF IInv, TypeInv
  <2>1. CASE UNCHANGED rows
    BY <2>1 DEF Listed
  <2>2. CASE AppendPlanRow
    <3>1. PICK row : rows' = Append(rows, row)
      BY <2>2 DEF AppendPlanRow
    <3>2. \A i \in DOMAIN rows : i \in DOMAIN rows' /\ rows'[i] = rows[i]
      BY <3>1 DEF RowsTyped
    <3> QED BY <3>2 DEF Listed
  <2>3. CASE MutateAnchor \/ ApplyTvdbSwitch
    <3>1. PICK anchor \in Anchor : \E f, wide : rows' = Anchored(Scope(f, wide), anchor)
      BY <2>3 DEF MutateAnchor, ApplyTvdbSwitch, Anchor, Candidate
    <3> QED BY <3>1, AnchoredIs
  <2>4. CASE RemoveRow
    <3>1. Listed' = Listed \ {CursorRow.file}
      BY <2>4, Removed DEF RemoveRow
    <3>2. Excluded = {CursorRow.file}
      BY <2>4 DEF RemoveRow, KeyOnRow, Key, Ready, Excluded
    <3> QED BY <3>1, <3>2
  <2>5. CASE RemoveFromDetail
    <3>1. Listed' = Listed \ {screen.file}
      BY <2>5, Removed DEF RemoveFromDetail
    <3>2. screen.kind = "detail" /\ screen # NoScreen
      BY <2>5 DEF RemoveFromDetail, Closes, NoScreen
    <3>3. Excluded = {screen.file}
      BY <3>2 DEF Excluded
    <3> QED BY <3>1, <3>3
  <2>6. CASE ConfirmDelete
    <3>1. CASE screen.file \in source
      <4>1. RemoveRows({screen.file}) /\ source' = source \ {screen.file}
        BY <2>6, <3>1 DEF ConfirmDelete
      <4>2. Listed' = Listed \ {screen.file}
        BY <4>1, Removed
      <4> QED BY <4>1, <4>2
    <3>2. CASE screen.file \notin source
      BY <2>1, <2>6, <3>2 DEF ConfirmDelete, ui
    <3> QED BY <3>1, <3>2
  <2>7. ASSUME NEW w \in Workers, Applies(w)
        PROVE  \A f \in Listed : f \in Listed' \/ f \notin source' \/ f \in Excluded
    <3>1. CASE BeginOp(w) \/ EndCopy(w) \/ Gate(w) \/ Unlink(w)
      BY <2>1, <3>1 DEF BeginOp, EndCopy, Gate, Unlink, Works, ui
    <3>2. CASE AfterApplyComplete(w)
      <4>1. RemoveRows(worker[w].converted \ source) /\ source' = source
        BY <3>2 DEF AfterApplyComplete, disk
      <4>2. Listed' = Listed \ (worker[w].converted \ source)
        BY <4>1, Removed
      <4> QED BY <4>1, <4>2
    <3> QED BY <2>7, <3>1, <3>2 DEF Applies
  <2>8. CASE ConvertRow \/ ConfirmApply \/ LoaderFails \/ MoveCursor \/ CycleFilter \/ EditTargets
              \/ DeleteSource \/ PressEnter \/ OnRowSelected \/ Apply \/ Cancel \/ DeleteFromDetail
    BY <2>1, <2>8 DEF ConvertRow, ConfirmApply, LoaderFails, MoveCursor, CycleFilter, EditTargets,
         DeleteSource, PressEnter, OnRowSelected, Apply, Cancel, DeleteFromDetail, ui
  <2> QED BY <2>2, <2>3, <2>4, <2>5, <2>6, <2>7, <2>8 DEF Next, User
<1> QED BY <1>1, Invariance, PTL DEF Spec, RowsLeaveForCause
=============================================================================
