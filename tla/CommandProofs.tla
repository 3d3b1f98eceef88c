--------------------------- MODULE CommandProofs ----------------------------
(***************************************************************************)
(* Theorems about CommandLine, for any dropped tree, any catalogue of      *)
(* TMDB, any anchors file and any answers at the prompts of a review.      *)
(***************************************************************************)
EXTENDS CommandLine, SequenceTheorems, FiniteSetTheorems, WellFoundedInduction, TLAPS

-----------------------------------------------------------------------------
(* The inductive invariant, in named parts                                 *)

\* None is Python's None, and not a tuple or a record.
NoneIsNoFunction == None # [x \in DOMAIN None |-> None[x]]

IsList(s) == s \in Seq(ToSet(s))

\* What a search in TMDB offers.
InCatalogue(c) == \E r \in ToSet(Catalogue) : c = ToCandidate(r, c.conf)

SessionInv ==
  session # None =>
    /\ session = [groups |-> session.groups, at |-> session.at, acc |-> session.acc,
                  save |-> session.save, made |-> session.made]
    /\ session.made \subseteq DOMAIN session.acc
    /\ IsList(session.groups) /\ session.at \in DOMAIN session.groups
    /\ \A g \in ToSet(session.groups) : \A n \in DOMAIN g.rows[1].alts : InCatalogue(g.rows[1].alts[n])

\* A pick is in the file it went to, and in what the review that made it holds.
PickHolds(key, c, path) ==
  /\ InCatalogue(c)
  /\ path \in DOMAIN files =>
       key \in DOMAIN files[path].groups /\ files[path].groups[key] = _candidate_to_anchor(c)
  /\ session # None => /\ path = session.save /\ path \in DOMAIN files
                       /\ key \in DOMAIN session.acc /\ session.acc[key] = _candidate_to_anchor(c)

ChoiceInv == \A key \in DOMAIN choice : PickHolds(key, choice[key].c, choice[key].path)

\* A report is of the tree and the file as they are.
ReportInv ==
  report # None =>
    /\ session = None
    /\ report.of = build_report(Rows, _collect_overrides(report.path, report.flags), Up)
    /\ report.path # None => report.path \in DOMAIN files

\* A dropped tree is a list of files, and its videos have names.
TreeInv ==
  /\ IsList(tree.files)
  /\ \A f \in ToSet(tree.files) : is_video(f) => IsName(f.name)

\* What the rows are planned with: the resolver's answers, or a user's pick.
Answer(c, p) == IF p.kind = c.kind THEN c ELSE IF Resolver(p) = Raised THEN None ELSE Resolver(p)
PickedPlan(c) ==
  build_plan_from_pairs([i \in DOMAIN Media(Rows) |-> <<Media(Rows)[i], Answer(c, Media(Rows)[i])>>],
                        <<>>, Up, scene.editions)

\* A plan is of the tree as it is.
PlanInv ==
  plan # None => \/ plan = build_plan(Rows, Resolver, Up, scene.editions)
                 \/ \E c \in Picks : plan = PickedPlan(c)

-----------------------------------------------------------------------------
(* Lists                                                                   *)

LEMMA LeastNat ==
  ASSUME NEW T \in SUBSET Nat, T # {}
  PROVE  \E x \in T : \A y \in T : x <= y
<1> DEFINE R == {ss \in Nat \X Nat : ss[1] < ss[2]}
<1>1. IsWellFoundedOn(R, Nat)
  BY NatLessThanWellFounded DEF OpToRel
<1>2. PICK x \in T : \A y \in T : <<y, x>> \notin R
  <2> HIDE DEF R
  <2> QED BY <1>1, WFMin
<1>3. ASSUME NEW y \in T PROVE x <= y
  <2>1. x \in Nat /\ y \in Nat /\ <<y, x>> \notin R
    BY <1>2
  <2> QED BY <2>1
<1> QED
  BY <1>3

\* Induction over the naturals, for a set.
LEMMA SetInduction ==
  ASSUME NEW P, 0 \in P, \A n \in Nat : n \in P => n + 1 \in P
  PROVE  Nat \subseteq P
<1> SUFFICES ASSUME Nat \ P # {} PROVE FALSE
  OBVIOUS
<1>1. PICK x \in Nat \ P : \A y \in Nat \ P : x <= y
  BY LeastNat
<1>2. x - 1 \in Nat /\ x - 1 \notin Nat \ P
  BY <1>1
<1> QED
  BY <1>1, <1>2

\* The definition of FlattenSeq describes a function.
FlattenStep(ss, f, i) == IF i = 1 THEN ss[i] ELSE f[i - 1] \o ss[i]
Flattens(ss, f) == f = [i \in 1 .. Len(ss) |-> FlattenStep(ss, f, i)]

LEMMA FlattenDefined ==
  ASSUME NEW S, NEW ss \in Seq(S), Len(ss) # 0
  PROVE  \E f : Flattens(ss, f) /\ FlattenSeq(ss) = f[Len(ss)]
<1> DEFINE Upto(m) == \E f : f = [i \in 1 .. m |-> FlattenStep(ss, f, i)]
           P == {m \in Nat : Upto(m)}
<1>1. 0 \in P
  <2> DEFINE f == [i \in 1 .. 0 |-> <<>>]
  <2>1. f = [i \in 1 .. 0 |-> FlattenStep(ss, f, i)]
    OBVIOUS
  <2> HIDE DEF f
  <2> QED BY <2>1
<1>2. ASSUME NEW m \in Nat, m \in P PROVE m + 1 \in P
  <2>1. PICK f : f = [i \in 1 .. m |-> FlattenStep(ss, f, i)]
    BY <1>2
  <2> DEFINE last == FlattenStep(ss, f, m + 1)
             g == [i \in 1 .. m + 1 |-> IF i = m + 1 THEN last ELSE f[i]]
  <2>2. ASSUME NEW i \in 1 .. m + 1 PROVE g[i] = FlattenStep(ss, g, i)
    <3> HIDE DEF last
    <3>1. CASE i = m + 1
      <4>1. g[i] = last /\ (i # 1 => g[i - 1] = f[i - 1])
        BY <3>1
      <4> QED BY <4>1, <3>1 DEF FlattenStep, last
    <3>2. CASE i \in 1 .. m
      <4>1. g[i] = f[i] /\ (i # 1 => g[i - 1] = f[i - 1])
        BY <3>2
      <4>2. f[i] = FlattenStep(ss, f, i)
        BY <2>1, <3>2
      <4> QED BY <4>1, <4>2 DEF FlattenStep
    <3> QED BY <3>1, <3>2
  <2>3. g = [i \in 1 .. m + 1 |-> FlattenStep(ss, g, i)]
    BY <2>2
  <2> HIDE DEF g
  <2> QED BY <2>3
<1>3. Len(ss) \in P
  <2> HIDE DEF P
  <2> QED BY <1>1, <1>2, SetInduction
<1>4. \E f : Flattens(ss, f)
  <2>1. Upto(Len(ss))
    BY <1>3
  <2> QED BY <2>1 DEF Flattens
<1> DEFINE F == CHOOSE f : Flattens(ss, f)
<1>5. Flattens(ss, F)
  BY <1>4
<1>6. FlattenSeq(ss) = F[Len(ss)]
  BY DEF FlattenSeq, FlattenStep, Flattens
<1> HIDE DEF F
<1> QED BY <1>5, <1>6

LEMMA FlattenType ==
  ASSUME NEW S, NEW ss \in Seq(Seq(S))
  PROVE  FlattenSeq(ss) \in Seq(S)
<1>1. CASE Len(ss) = 0
  <2>1. ss = <<>>
    BY <1>1, EmptySeq
  <2>2. FlattenSeq(ss) = <<>>
    BY <2>1 DEF FlattenSeq
  <2> QED BY <2>2
<1>2. CASE Len(ss) # 0
  <2>1. PICK f : Flattens(ss, f) /\ FlattenSeq(ss) = f[Len(ss)]
    BY <1>2, FlattenDefined
  <2> DEFINE P == {n \in Nat : n + 1 <= Len(ss) => f[n + 1] \in Seq(S)}
  <2>2. 0 \in P
    <3> SUFFICES f[1] \in Seq(S)
      OBVIOUS
    <3>1. 1 \in 1 .. Len(ss)
      BY <1>2
    <3>2. f[1] = ss[1]
      BY <2>1, <3>1 DEF Flattens, FlattenStep
    <3> QED BY <3>1, <3>2
  <2>3. ASSUME NEW n \in Nat, n \in P PROVE n + 1 \in P
    <3> SUFFICES ASSUME (n + 1) + 1 <= Len(ss) PROVE f[(n + 1) + 1] \in Seq(S)
      OBVIOUS
    <3> DEFINE k == (n + 1) + 1
    <3>1. k \in 1 .. Len(ss) /\ k # 1 /\ k - 1 = n + 1
      OBVIOUS
    <3>2. f[n + 1] \in Seq(S)
      BY <2>3
    <3>3. f[k] = f[n + 1] \o ss[k]
      <4> HIDE DEF k
      <4> QED BY <2>1, <3>1 DEF Flattens, FlattenStep
    <3>4. ss[k] \in Seq(S)
      BY <3>1
    <3> HIDE DEF k
    <3>5. f[k] \in Seq(S)
      BY <3>2, <3>3, <3>4, ConcatProperties
    <3> QED BY <3>5 DEF k
  <2>4. Len(ss) - 1 \in P
    <3>1. Len(ss) - 1 \in Nat
      BY <1>2
    <3> HIDE DEF P
    <3> QED BY <2>2, <2>3, <3>1, SetInduction
  <2>5. (Len(ss) - 1) + 1 = Len(ss)
    BY <1>2
  <2> QED BY <2>1, <2>4, <2>5
<1> QED BY <1>1, <1>2

LEMMA FlattenAppend ==
  ASSUME NEW S, NEW ss \in Seq(Seq(S)), NEW x \in Seq(S)
  PROVE  FlattenSeq(Append(ss, x)) = FlattenSeq(ss) \o x
<1> DEFINE tt == Append(ss, x)
           m == Len(ss)
<1>1. /\ tt \in Seq(Seq(S)) /\ Len(tt) = m + 1 /\ tt[m + 1] = x /\ m \in Nat
      /\ \A i \in 1 .. m : tt[i] = ss[i]
  BY AppendProperties, LenProperties
<1> HIDE DEF tt
<1>2. PICK g : Flattens(tt, g) /\ FlattenSeq(tt) = g[m + 1]
  <2>1. Len(tt) # 0
    BY <1>1
  <2> QED BY <1>1, <2>1, FlattenDefined
<1>3. CASE m = 0
  <2>1. ss = <<>>
    BY <1>3, EmptySeq
  <2>2. FlattenSeq(ss) = <<>>
    BY <2>1 DEF FlattenSeq
  <2>3. g[1] = x
    BY <1>1, <1>2, <1>3 DEF Flattens, FlattenStep
  <2> QED BY <1>2, <1>3, <2>2, <2>3, ConcatEmptySeq DEF tt
<1>4. CASE m # 0
  <2>1. PICK f : Flattens(ss, f) /\ FlattenSeq(ss) = f[m]
    BY <1>4, FlattenDefined
  <2> DEFINE P == {n \in Nat : n + 1 <= m => f[n + 1] = g[n + 1]}
  <2>2. 0 \in P
    <3> SUFFICES f[1] = g[1]
      OBVIOUS
    <3>1. 1 \in 1 .. m /\ 1 \in 1 .. Len(tt)
      BY <1>1, <1>4
    <3>2. f[1] = ss[1]
      BY <2>1, <3>1 DEF Flattens, FlattenStep
    <3>3. g[1] = tt[1]
      BY <1>2, <3>1 DEF Flattens, FlattenStep
    <3> QED BY <1>1, <3>1, <3>2, <3>3
  <2>3. ASSUME NEW n \in Nat, n \in P PROVE n + 1 \in P
    <3> SUFFICES ASSUME (n + 1) + 1 <= m PROVE f[(n + 1) + 1] = g[(n + 1) + 1]
      OBVIOUS
    <3> DEFINE k == (n + 1) + 1
    <3>1. k \in 1 .. m /\ k \in 1 .. Len(tt) /\ k # 1 /\ k - 1 = n + 1
      BY <1>1
    <3>2. f[n + 1] = g[n + 1]
      BY <2>3
    <3> HIDE DEF k
    <3>3. f[k] = f[n + 1] \o ss[k]
      BY <2>1, <3>1 DEF Flattens, FlattenStep
    <3>4. g[k] = g[n + 1] \o tt[k]
      BY <1>2, <3>1 DEF Flattens, FlattenStep
    <3>5. f[k] = g[k]
      BY <1>1, <3>1, <3>2, <3>3, <3>4
    <3> QED BY <3>5 DEF k
  <2>4. m - 1 \in P
    <3>1. m - 1 \in Nat
      BY <1>1, <1>4
    <3> HIDE DEF P
    <3> QED BY <2>2, <2>3, <3>1, SetInduction
  <2>5. (m - 1) + 1 = m
    BY <1>1
  <2>6. f[m] = g[m]
    BY <2>4, <2>5
  <2>7. g[m + 1] = g[m] \o x
    <3>1. m + 1 \in 1 .. Len(tt) /\ m + 1 # 1 /\ (m + 1) - 1 = m
      BY <1>1, <1>4
    <3> QED BY <1>1, <1>2, <3>1 DEF Flattens, FlattenStep
  <2> QED BY <1>2, <2>1, <2>6, <2>7 DEF tt
<1> QED BY <1>3, <1>4

\* R orders P.
Orders(R, P) ==
  /\ \A i \in P : <<i, i>> \in R
  /\ \A i, j \in P : <<i, j>> \in R \/ <<j, i>> \in R
  /\ \A i, j \in P : <<i, j>> \in R /\ <<j, i>> \in R => i = j
  /\ \A i, j, k \in P : <<i, j>> \in R /\ <<j, k>> \in R => <<i, k>> \in R

RankIn(R, P) == [i \in P |-> Cardinality({j \in P : <<j, i>> \in R})]

\* Every n of 1 .. Cardinality is the rank of one element.
LEMMA Ranks ==
  ASSUME NEW P, IsFiniteSet(P), NEW R, Orders(R, P)
  PROVE  /\ RankIn(R, P) \in Injection(P, 1 .. Cardinality(P))
         /\ \A n \in 1 .. Cardinality(P) : \E i \in P : RankIn(R, P)[i] = n
<1> USE DEF Orders
<1> DEFINE Upto(i) == {j \in P : <<j, i>> \in R}
           rank == RankIn(R, P)
<1>1. ASSUME NEW i \in P
      PROVE  IsFiniteSet(Upto(i)) /\ Cardinality(Upto(i)) \in 1 .. Cardinality(P)
  <2>1. Upto(i) \in SUBSET P /\ i \in Upto(i)
    OBVIOUS
  <2>2. IsFiniteSet(Upto(i)) /\ Cardinality(Upto(i)) <= Cardinality(P)
    BY <2>1, FS_Subset
  <2>3. Cardinality(Upto(i)) # 0
    BY <2>1, <2>2, FS_EmptySet
  <2>4. Cardinality(Upto(i)) \in Nat /\ Cardinality(P) \in Nat
    BY <2>2, FS_CardinalityType
  <2> HIDE DEF Upto
  <2> QED BY <2>2, <2>3, <2>4
<1>2. ASSUME NEW i \in P, NEW k \in P, i # k, <<i, k>> \in R
      PROVE  Cardinality(Upto(i)) # Cardinality(Upto(k))
  <2>1. Upto(i) \in SUBSET Upto(k) /\ k \in Upto(k) /\ k \notin Upto(i)
    BY <1>2
  <2> HIDE DEF Upto
  <2> QED BY <1>1, <2>1, FS_Subset
<1>3. rank \in Injection(P, 1 .. Cardinality(P))
  <2>1. \A i \in P : rank[i] = Cardinality(Upto(i))
    BY DEF RankIn
  <2>2. rank \in [P -> 1 .. Cardinality(P)]
    <3>1. rank = [i \in P |-> Cardinality(Upto(i))]
      BY DEF RankIn
    <3> HIDE DEF Upto, rank
    <3> QED BY <1>1, <3>1
  <2>3. \A i, k \in P : rank[i] = rank[k] => i = k
    <3> SUFFICES ASSUME NEW i \in P, NEW k \in P, rank[i] = rank[k], i # k PROVE FALSE
      OBVIOUS
    <3>1. Cardinality(Upto(i)) = Cardinality(Upto(k))
      BY <2>1
    <3>2. <<i, k>> \in R \/ <<k, i>> \in R
      OBVIOUS
    <3> HIDE DEF Upto, rank
    <3> QED BY <1>2, <3>1, <3>2
  <2> HIDE DEF Upto, rank
  <2> QED BY <2>2, <2>3 DEF Injection, IsInjective
<1>4. Cardinality(P) \in Nat
  BY FS_CardinalityType
<1>5. IsFiniteSet(1 .. Cardinality(P)) /\ Cardinality(1 .. Cardinality(P)) = Cardinality(P)
  BY <1>4, FS_Interval
<1>6. rank \in Surjection(P, 1 .. Cardinality(P))
  BY <1>3, <1>5, FS_Injection
<1> QED BY <1>3, <1>6 DEF Surjection

\* A ranked list has the elements of s at the ranked places, and no others.
LEMMA RankedIs ==
  ASSUME NEW S, NEW s \in Seq(S), NEW P \in SUBSET DOMAIN s,
         NEW rank \in Injection(P, 1 .. Cardinality(P)),
         \A n \in 1 .. Cardinality(P) : \E i \in P : rank[i] = n
  PROVE  /\ Ranked(s, rank) \in Seq(S)
         /\ Len(Ranked(s, rank)) = Cardinality(P)
         /\ ToSet(Ranked(s, rank)) = {s[i] : i \in P}
         /\ \A i \in P : Ranked(s, rank)[rank[i]] = s[i]
<1> DEFINE place(n) == CHOOSE i \in P : rank[i] = n
           m == Cardinality(P)
<1>1. DOMAIN rank = P /\ \A i \in P : rank[i] \in 1 .. m
  BY DEF Injection, IsInjective
<1>2. m \in Nat
  <2>1. IsFiniteSet(DOMAIN s)
    BY FS_Interval
  <2> QED BY <2>1, FS_Subset, FS_CardinalityType
<1>3. ASSUME NEW n \in 1 .. m PROVE place(n) \in P /\ rank[place(n)] = n
  OBVIOUS
<1>4. ASSUME NEW i \in P PROVE place(rank[i]) = i
  BY <1>1, <1>3 DEF Injection, IsInjective
<1>5. Ranked(s, rank) = [n \in 1 .. m |-> s[place(n)]]
  BY <1>1 DEF Ranked
<1> HIDE DEF place, m
<1>6. \A n \in 1 .. m : s[place(n)] \in S
  BY <1>3
<1>7. Ranked(s, rank) \in Seq(S) /\ Len(Ranked(s, rank)) = m
  BY <1>2, <1>5, <1>6
<1>8. \A i \in P : Ranked(s, rank)[rank[i]] = s[i]
  BY <1>1, <1>4, <1>5
<1>9. DOMAIN Ranked(s, rank) = 1 .. m
  BY <1>5
<1>10. ToSet(Ranked(s, rank)) = {s[i] : i \in P}
  <2>1. ToSet(Ranked(s, rank)) = {Ranked(s, rank)[n] : n \in 1 .. m}
    BY <1>9 DEF ToSet
  <2>2. \A n \in 1 .. m : Ranked(s, rank)[n] = s[place(n)]
    BY <1>5
  <2> QED BY <1>1, <1>3, <1>8, <2>1, <2>2
<1> QED BY <1>7, <1>8, <1>10 DEF m

\* A kept list has the elements of s at the places, and starts with the first.
LEMMA KeptIs ==
  ASSUME NEW S, NEW s \in Seq(S), NEW places
  PROVE  /\ Kept(s, places) \in Seq(S)
         /\ ToSet(Kept(s, places)) = {s[i] : i \in places \cap DOMAIN s}
         /\ 1 \in places /\ s # <<>> => Kept(s, places) # <<>> /\ Kept(s, places)[1] = s[1]
<1> DEFINE P == places \cap DOMAIN s
           R == {p \in P \X P : p[1] <= p[2]}
           rank == [i \in P |-> Cardinality({j \in P : j <= i})]
<1>1. IsFiniteSet(P) /\ P \in SUBSET Nat
  BY FS_Interval, FS_Subset
<1>2. rank = RankIn(R, P)
  <2>1. ASSUME NEW i \in P PROVE {j \in P : j <= i} = {j \in P : <<j, i>> \in R}
    OBVIOUS
  <2> QED BY <2>1 DEF RankIn
<1>3. Orders(R, P)
  BY <1>1 DEF Orders
<1>4. Kept(s, places) = Ranked(s, rank)
  BY DEF Kept
<1>5. 1 \in P => rank[1] = 1
  <2> SUFFICES ASSUME 1 \in P PROVE rank[1] = 1
    OBVIOUS
  <2>1. {j \in P : j <= 1} = {1}
    BY <1>1
  <2> QED BY <2>1, FS_Singleton
<1>6. P \in SUBSET DOMAIN s
  OBVIOUS
<1>7. s # <<>> => 1 \in DOMAIN s
  BY EmptySeq
<1>8. 1 \in places /\ s # <<>> => 1 \in P
  BY <1>7
<1>9. P = places \cap DOMAIN s
  OBVIOUS
<1> HIDE DEF P, R, rank
<1>10. rank \in Injection(P, 1 .. Cardinality(P)) /\ \A n \in 1 .. Cardinality(P) : \E i \in P : rank[i] = n
  BY <1>1, <1>2, <1>3, Ranks
<1>11. /\ Ranked(s, rank) \in Seq(S)
       /\ Len(Ranked(s, rank)) = Cardinality(P)
       /\ ToSet(Ranked(s, rank)) = {s[i] : i \in P}
       /\ \A i \in P : Ranked(s, rank)[rank[i]] = s[i]
  BY <1>6, <1>10, RankedIs
<1>12. 1 \in P => Ranked(s, rank) # <<>> /\ Ranked(s, rank)[1] = s[1]
  <2> SUFFICES ASSUME 1 \in P PROVE Ranked(s, rank) # <<>> /\ Ranked(s, rank)[1] = s[1]
    OBVIOUS
  <2>1. Cardinality(P) # 0
    BY <1>1, FS_EmptySet
  <2>2. Ranked(s, rank) # <<>>
    BY <1>11, <2>1, EmptySeq
  <2> QED BY <1>5, <1>11, <2>2
<1> QED BY <1>4, <1>8, <1>9, <1>11, <1>12

-----------------------------------------------------------------------------
(* Lists of any kind                                                       *)

LEMMA ListOf ==
  ASSUME NEW S, NEW s \in Seq(S)
  PROVE  IsList(s) /\ ToSet(s) \subseteq S
<1>1. DOMAIN s = 1 .. Len(s) /\ Len(s) \in Nat /\ s = [i \in 1 .. Len(s) |-> s[i]]
  OBVIOUS
<1>2. ToSet(s) \subseteq S
  BY <1>1 DEF ToSet
<1>3. \A i \in 1 .. Len(s) : s[i] \in ToSet(s)
  BY <1>1 DEF ToSet
<1>4. s \in Seq(ToSet(s))
  BY <1>1, <1>3, IsASeq
<1> QED BY <1>2, <1>4 DEF IsList

LEMMA ListHas ==
  ASSUME NEW s, IsList(s)
  PROVE  /\ DOMAIN s = 1 .. Len(s) /\ Len(s) \in Nat
         /\ \A i \in DOMAIN s : s[i] \in ToSet(s)
         /\ \A x \in ToSet(s) : \E i \in DOMAIN s : s[i] = x
         /\ s = <<>> <=> Len(s) = 0
<1>1. s \in Seq(ToSet(s))
  BY DEF IsList
<1>2. s = <<>> <=> Len(s) = 0
  BY <1>1, EmptySeq
<1> QED BY <1>1, <1>2 DEF ToSet

\* A list that has an element has a first one.
LEMMA HeadHas ==
  ASSUME NEW s, IsList(s), NEW x \in ToSet(s)
  PROVE  1 \in DOMAIN s /\ s # <<>> /\ s[1] \in ToSet(s)
<1>1. DOMAIN s = 1 .. Len(s) /\ Len(s) \in Nat /\ (s = <<>> <=> Len(s) = 0)
  BY ListHas
<1>2. PICK i \in DOMAIN s : s[i] = x
  BY ListHas
<1>3. 1 \in DOMAIN s /\ Len(s) # 0
  BY <1>1, <1>2
<1> QED BY <1>1, <1>3, ListHas

\* A list by comprehension.
LEMMA ListOver ==
  ASSUME NEW s, IsList(s), NEW t, t = [i \in DOMAIN s |-> t[i]]
  PROVE  IsList(t) /\ DOMAIN t = DOMAIN s /\ Len(t) = Len(s)
<1>1. DOMAIN s = 1 .. Len(s) /\ Len(s) \in Nat
  BY ListHas
<1>2. \A i \in 1 .. Len(s) : t[i] \in ToSet(t)
  BY <1>1 DEF ToSet
<1>3. t \in Seq(ToSet(t))
  BY <1>1, <1>2, IsASeq
<1>4. DOMAIN t = 1 .. Len(t) /\ Len(t) \in Nat
  BY <1>3
<1>5. Len(t) = Len(s)
  BY <1>1, <1>3
<1> QED BY <1>1, <1>3, <1>5 DEF IsList

LEMMA KeptList ==
  ASSUME NEW s, IsList(s), NEW places
  PROVE  /\ IsList(Kept(s, places))
         /\ ToSet(Kept(s, places)) = {s[i] : i \in places \cap DOMAIN s}
         /\ ToSet(Kept(s, places)) \subseteq ToSet(s)
         /\ 1 \in places /\ s # <<>> => Kept(s, places) # <<>> /\ Kept(s, places)[1] = s[1]
<1>1. s \in Seq(ToSet(s))
  BY DEF IsList
<1>2. /\ Kept(s, places) \in Seq(ToSet(s))
      /\ ToSet(Kept(s, places)) = {s[i] : i \in places \cap DOMAIN s}
      /\ 1 \in places /\ s # <<>> => Kept(s, places) # <<>> /\ Kept(s, places)[1] = s[1]
  BY <1>1, KeptIs
<1> QED BY <1>2, ListOf

LEMMA DistinctList ==
  ASSUME NEW s, IsList(s)
  PROVE  IsList(Distinct(s)) /\ ToSet(Distinct(s)) \subseteq ToSet(s)
BY KeptList DEF Distinct

LEMMA ByScoreIs ==
  ASSUME NEW s, IsList(s), NEW score, \A x \in ToSet(s) : score[x] \in Int
  PROVE  IsList(ByScore(s, score)) /\ ToSet(ByScore(s, score)) = ToSet(s)
<1> DEFINE P == DOMAIN s
           above(j, i) == score[s[j]] > score[s[i]] \/ (score[s[j]] = score[s[i]] /\ j <= i)
           R == {p \in P \X P : above(p[1], p[2])}
           rank == [i \in P |-> Cardinality({j \in P : above(j, i)})]
<1>1. P = 1 .. Len(s) /\ Len(s) \in Nat /\ \A i \in P : score[s[i]] \in Int
  BY ListHas
<1>2. IsFiniteSet(P)
  BY <1>1, FS_Interval
<1>3. Orders(R, P)
  <2>1. \A i, j \in P : <<i, j>> \in R <=> above(i, j)
    OBVIOUS
  <2>2. \A i \in P : i \in Int
    BY <1>1
  <2>3. \A i \in P : score[s[i]] \in Int
    BY <1>1
  <2> DEFINE sc(i) == score[s[i]]
  <2>4. \A i, j \in P : <<i, j>> \in R <=> sc(i) > sc(j) \/ (sc(i) = sc(j) /\ i <= j)
    OBVIOUS
  <2>5. \A i \in P : sc(i) \in Int
    BY <2>3
  <2> HIDE DEF R, P, above, sc
  <2>6. \A i, j, k \in P : <<i, j>> \in R /\ <<j, k>> \in R => <<i, k>> \in R
    <3> SUFFICES ASSUME NEW i \in P, NEW j \in P, NEW k \in P, <<i, j>> \in R, <<j, k>> \in R
                 PROVE  <<i, k>> \in R
      OBVIOUS
    <3>1. sc(i) \in Int /\ sc(j) \in Int /\ sc(k) \in Int /\ i \in Int /\ j \in Int /\ k \in Int
      BY <2>2, <2>5
    <3>2. sc(i) > sc(j) \/ (sc(i) = sc(j) /\ i <= j)
      BY <2>4
    <3>3. sc(j) > sc(k) \/ (sc(j) = sc(k) /\ j <= k)
      BY <2>4
    <3>4. sc(i) > sc(k) \/ (sc(i) = sc(k) /\ i <= k)
      BY <3>1, <3>2, <3>3
    <3> QED BY <2>4, <3>4
  <2>7. ASSUME NEW i \in P, NEW j \in P
        PROVE  /\ <<i, j>> \in R \/ <<j, i>> \in R
               /\ <<i, j>> \in R /\ <<j, i>> \in R => i = j
    <3>1. sc(i) \in Int /\ sc(j) \in Int /\ i \in Int /\ j \in Int
      BY <2>2, <2>5
    <3>2. <<i, j>> \in R <=> sc(i) > sc(j) \/ (sc(i) = sc(j) /\ i <= j)
      BY <2>4
    <3>3. <<j, i>> \in R <=> sc(j) > sc(i) \/ (sc(j) = sc(i) /\ j <= i)
      BY <2>4
    <3> QED BY <3>1, <3>2, <3>3
  <2>9. \A i \in P : <<i, i>> \in R
    BY <2>2, <2>4, <2>5
  <2> QED BY <2>6, <2>7, <2>9 DEF Orders
<1>4. rank = RankIn(R, P)
  <2>1. ASSUME NEW i \in P PROVE {j \in P : above(j, i)} = {j \in P : <<j, i>> \in R}
    OBVIOUS
  <2> HIDE DEF R
  <2> QED BY <2>1 DEF RankIn
<1>5. ByScore(s, score) = Ranked(s, rank)
  BY DEF ByScore
<1>6. P \in SUBSET DOMAIN s /\ s \in Seq(ToSet(s)) /\ ToSet(s) = {s[i] : i \in P}
  BY DEF IsList, ToSet
<1> HIDE DEF P, R, rank
<1>7. rank \in Injection(P, 1 .. Cardinality(P)) /\ \A n \in 1 .. Cardinality(P) : \E i \in P : rank[i] = n
  BY <1>2, <1>3, <1>4, Ranks
<1>8. Ranked(s, rank) \in Seq(ToSet(s)) /\ ToSet(Ranked(s, rank)) = {s[i] : i \in P}
  BY <1>6, <1>7, RankedIs
<1> QED BY <1>5, <1>6, <1>8, ListOf

-----------------------------------------------------------------------------
(* What a search offers                                                    *)

LEMMA Likes ==
  ASSUME NEW a, NEW b
  PROVE  /\ Likeness(a, b) \in 0..100
         /\ token_set_ratio(a, b) \in 0..100
         /\ WRatio(a, b) \in 0..100
<1>1. Likeness(a, b) \in 0..100
  BY RatioAssumption DEF Likeness, UNRELATED
<1>2. token_set_ratio(a, b) \in 0..100
  BY <1>1 DEF token_set_ratio
<1> QED BY <1>1, <1>2 DEF WRatio

LEMMA Scores ==
  ASSUME NEW a, NEW b, NEW x, NEW y
  PROVE  /\ Score(a, b) \in Int
         /\ _blend(_title_score(a, b), _year_score(x, y)) \in Int
<1>1. token_set_ratio(a, b) \in Int /\ WRatio(a, b) \in Int
  BY Likes
<1>2. Score(a, b) \in Int
  BY <1>1 DEF Score
<1>3. _title_score(a, b) \in Int
  BY <1>1 DEF _title_score
<1>4. _year_score(x, y) \in Int
  BY DEF _year_score
<1> QED BY <1>2, <1>3, <1>4 DEF _blend

LEMMA Variants ==
  ASSUME NEW q
  PROVE  IsList(cleaned_query_variants(q)) /\ IsList(aggressive_query_variants(q))
<1> DEFINE all == <<q, WithoutNumber(q), WithoutParen(q), WithoutThe(q),
                    WithoutThe(WithoutNumber(q)), WithoutThe(WithoutParen(q))>>
           fewer == [n \in 1..3 |-> SubSeq(q, 1, Len(q) - n)]
<1>1. IsList(all)
  <2>1. \E S : all \in Seq(S)
    <3> DEFINE S == {q, WithoutNumber(q), WithoutParen(q), WithoutThe(q),
                     WithoutThe(WithoutNumber(q)), WithoutThe(WithoutParen(q))}
    <3>1. all \in Seq(S)
      OBVIOUS
    <3> QED BY <3>1
  <2> HIDE DEF all
  <2> QED BY <2>1, ListOf
<1>2. IsList(fewer)
  <2>1. fewer \in Seq({SubSeq(q, 1, Len(q) - n) : n \in 1..3})
    BY IsASeq
  <2> HIDE DEF fewer
  <2> QED BY <2>1, ListOf
<1>3. IsList(Kept(all, {i \in DOMAIN all : all[i] # <<>>}))
  <2> HIDE DEF all
  <2> QED BY <1>1, KeptList
<1>4. IsList(Distinct(Kept(all, {i \in DOMAIN all : all[i] # <<>>})))
  <2> HIDE DEF all
  <2> QED BY <1>3, DistinctList
<1>5. IsList(Kept(fewer, {n \in 1..3 : Len(q) - n >= 2}))
  <2> HIDE DEF fewer
  <2> QED BY <1>2, KeptList
<1> QED BY <1>4, <1>5 DEF cleaned_query_variants, aggressive_query_variants

LEMMA CatalogueList == IsList(Catalogue)
BY CatalogueAssumption DEF IsList

LEMMA Pooled ==
  ASSUME NEW kind, NEW title, NEW year, NEW variants, IsList(variants)
  PROVE  /\ IsList(_pooled(kind, title, year, variants))
         /\ \A c \in ToSet(_pooled(kind, title, year, variants)) : InCatalogue(c)
<1> DEFINE R == ToSet(Catalogue)
           found == [i \in DOMAIN variants |-> TmdbSearch(kind, variants[i], year)]
           pool == Distinct(FlattenSeq(found))
           conf(r) == _blend(_title_score(title, Title(r)), _year_score(year, r.year))
           scored == ByScore(pool, [r \in ToSet(pool) |-> conf(r)])
           cands == [i \in DOMAIN scored |-> ToCandidate(scored[i], conf(scored[i]))]
<1>1. found \in Seq(Seq(R))
  <2>1. ASSUME NEW q PROVE TmdbSearch(kind, q, year) \in Seq(R)
    <3>1. IsList(TmdbSearch(kind, q, year)) /\ ToSet(TmdbSearch(kind, q, year)) \subseteq R
      BY CatalogueList, KeptList DEF TmdbSearch
    <3> QED BY <3>1, SeqMonotonic DEF IsList
  <2>2. DOMAIN variants = 1 .. Len(variants) /\ Len(variants) \in Nat
    BY ListHas
  <2> QED BY <2>1, <2>2, IsASeq
<1>2. IsList(pool) /\ ToSet(pool) \subseteq R
  <2>1. FlattenSeq(found) \in Seq(R)
    <3> HIDE DEF found
    <3> QED BY <1>1, FlattenType
  <2>2. IsList(FlattenSeq(found)) /\ ToSet(FlattenSeq(found)) \subseteq R
    <3> HIDE DEF found
    <3> QED BY <2>1, ListOf
  <2> HIDE DEF found
  <2> QED BY <2>2, DistinctList
<1>3. IsList(scored) /\ ToSet(scored) = ToSet(pool)
  <2> DEFINE score == [r \in ToSet(pool) |-> conf(r)]
  <2>1. \A r : conf(r) \in Int
    BY Scores
  <2>2. \A r \in ToSet(pool) : score[r] \in Int
    <3> HIDE DEF conf, pool
    <3> QED BY <2>1
  <2>3. scored = ByScore(pool, score)
    OBVIOUS
  <2> HIDE DEF score, pool, scored
  <2> QED BY <1>2, <2>2, <2>3, ByScoreIs
<1>4. IsList(cands) /\ \A c \in ToSet(cands) : InCatalogue(c)
  <2>1. cands = [i \in DOMAIN scored |-> cands[i]]
    <3> HIDE DEF scored, conf
    <3> QED OBVIOUS
  <2>2. IsList(cands)
    <3> HIDE DEF cands, scored
    <3> QED BY <1>3, <2>1, ListOver
  <2>3. ASSUME NEW i \in DOMAIN scored PROVE InCatalogue(cands[i])
    <3>1. scored[i] \in R
      <4> HIDE DEF scored, pool
      <4> QED BY <1>2, <1>3, ListHas
    <3>2. cands[i] = ToCandidate(scored[i], conf(scored[i]))
      <4> HIDE DEF scored, conf
      <4> QED OBVIOUS
    <3>3. cands[i] = ToCandidate(scored[i], cands[i].conf)
      <4> HIDE DEF scored, conf, cands
      <4> QED BY <3>2 DEF ToCandidate
    <3> HIDE DEF scored, conf, cands
    <3> QED BY <3>1, <3>3 DEF InCatalogue
  <2>4. \A c \in ToSet(cands) : \E i \in DOMAIN scored : c = cands[i]
    <3> HIDE DEF cands, scored
    <3> QED BY <2>1 DEF ToSet
  <2> HIDE DEF cands, scored
  <2> QED BY <2>2, <2>3, <2>4
<1>5. IsList(rank_candidates(title, cands)) /\ ToSet(rank_candidates(title, cands)) = ToSet(cands)
  <2> DEFINE score == [c \in ToSet(cands) |-> Score(title, Title(c))]
  <2>1. \A c \in ToSet(cands) : score[c] \in Int
    <3> HIDE DEF cands
    <3> QED BY Scores
  <2>2. rank_candidates(title, cands) = ByScore(cands, score)
    BY DEF rank_candidates
  <2> HIDE DEF score, cands
  <2> QED BY <1>4, <2>1, <2>2, ByScoreIs
<1>6. _pooled(kind, title, year, variants) = rank_candidates(title, cands)
  BY DEF _pooled
<1> HIDE DEF cands
<1> QED BY <1>4, <1>5, <1>6

LEMMA EmptyList == IsList(<<>>) /\ ToSet(<<>>) = {} /\ DOMAIN <<>> = {}
<1> SUFFICES ASSUME NEW s, s = <<>> PROVE IsList(s) /\ ToSet(s) = {} /\ DOMAIN s = {}
  OBVIOUS
<1>1. PICK S : S = {}
  OBVIOUS
<1>2. s \in Seq(S)
  BY EmptySeq
<1>3. IsList(s) /\ ToSet(s) \subseteq S
  BY <1>2, ListOf
<1>4. DOMAIN s = {}
  OBVIOUS
<1> QED BY <1>1, <1>3, <1>4

\* Whatever is asked, a search offers candidates of TMDB.
LEMMA SearchOffers ==
  ASSUME NEW kind, NEW title, NEW year
  PROVE  /\ IsList(search_pooled(kind, title, year))
         /\ \A c \in ToSet(search_pooled(kind, title, year)) : InCatalogue(c)
<1>1. CASE title = <<>>
  BY <1>1, EmptyList DEF search_pooled
<1>2. CASE title # <<>>
  BY <1>2, Variants, Pooled DEF search_pooled, OrElse
<1> QED BY <1>1, <1>2

-----------------------------------------------------------------------------
(* Rows                                                                    *)

\* The row of a file, without its sidecars, and with them.
LEMMA ParsedFile ==
  ASSUME NEW f, NEW dirs, NEW r, r = parse_file(f, dirs)
  PROVE  /\ r = [file |-> f, kind |-> r.kind, title |-> r.title, year |-> r.year, season |-> r.season,
                 episode |-> r.episode, end |-> r.end, eptitle |-> r.eptitle, editions |-> r.editions,
                 part |-> r.part, dirs |-> dirs, skip |-> r.skip, sidecars |-> <<>>]
         /\ r.kind \in {"unknown", "movie", "tv"}
         /\ r.kind # "unknown" => r.skip = None /\ is_video(f)
<1>1. CASE classify_skip(f) # None \/ ~is_video(f)
  BY <1>1 DEF parse_file, NotVideo
<1>2. CASE ~(classify_skip(f) # None \/ ~is_video(f))
  <2> DEFINE t == _apply_parent_hints(tokenize(f.name), dirs)
             kind == _classify_kind(t)
             titles == _split_title(t, kind)
  <2>1. r = Video(f, dirs, t, kind, titles)
    BY <1>2 DEF parse_file, Classified
  <2>2. kind \in {"movie", "tv"}
    BY DEF _classify_kind
  <2> HIDE DEF t, kind, titles
  <2> QED BY <1>2, <2>1, <2>2 DEF Video
<1> QED BY <1>1, <1>2

RowOfFile(f, listed, single) ==
  [parse_file(f, IF single THEN <<>> ELSE f.dirs) EXCEPT !.sidecars =
     IF single \/ ~is_video(f) THEN @
     ELSE find_sidecars(f, Kept(listed, {j \in DOMAIN listed : listed[j].dirs = f.dirs}))]

LEMMA RowIs ==
  ASSUME NEW listed, IsList(listed), NEW single, NEW f, NEW r, r = RowOfFile(f, listed, single)
  PROVE  /\ r = [file |-> f, kind |-> r.kind, title |-> r.title, year |-> r.year, season |-> r.season,
                 episode |-> r.episode, end |-> r.end, eptitle |-> r.eptitle, editions |-> r.editions,
                 part |-> r.part, dirs |-> r.dirs, skip |-> r.skip, sidecars |-> r.sidecars]
         /\ r.kind \in {"unknown", "movie", "tv"}
         /\ r.kind # "unknown" => r.skip = None /\ is_video(f)
         /\ IsList(r.sidecars)
<1> DEFINE dirs == IF single THEN <<>> ELSE f.dirs
           near == Kept(listed, {j \in DOMAIN listed : listed[j].dirs = f.dirs})
           p == parse_file(f, dirs)
<1>1. /\ p = [file |-> f, kind |-> p.kind, title |-> p.title, year |-> p.year, season |-> p.season,
              episode |-> p.episode, end |-> p.end, eptitle |-> p.eptitle, editions |-> p.editions,
              part |-> p.part, dirs |-> dirs, skip |-> p.skip, sidecars |-> <<>>]
      /\ p.kind \in {"unknown", "movie", "tv"}
      /\ p.kind # "unknown" => p.skip = None /\ is_video(f)
  <2> HIDE DEF dirs
  <2> QED BY ParsedFile
<1>2. IsList(find_sidecars(f, near))
  <2>1. IsList(near)
    BY KeptList
  <2> HIDE DEF near
  <2> DEFINE named(g) == parse_sidecar_name(g).stem = f.name
             pairs(g) == /\ g # f
                         /\ is_subtitle(g) \/ is_metadata(g)
                         /\ named(g) \/ (is_metadata(g) /\ IsArtworkName(g.name))
             found == Kept(near, {i \in DOMAIN near : pairs(near[i])})
             t == find_sidecars(f, near)
  <2>2. IsList(found)
    <3> HIDE DEF pairs
    <3> QED BY <2>1, KeptList
  <2>3. t = [i \in DOMAIN found |-> t[i]]
    BY DEF find_sidecars
  <2> HIDE DEF t, found
  <2>4. IsList(t)
    BY <2>2, <2>3, ListOver
  <2> QED BY <2>4 DEF t
<1>3. r = [p EXCEPT !.sidecars = IF single \/ ~is_video(f) THEN @ ELSE find_sidecars(f, near)]
  BY DEF RowOfFile
<1> HIDE DEF p, near, dirs
<1>4. /\ r.kind = p.kind /\ r.skip = p.skip
      /\ r = [file |-> f, kind |-> r.kind, title |-> r.title, year |-> r.year, season |-> r.season,
              episode |-> r.episode, end |-> r.end, eptitle |-> r.eptitle, editions |-> r.editions,
              part |-> r.part, dirs |-> r.dirs, skip |-> r.skip, sidecars |-> r.sidecars]
      /\ r.sidecars \in {<<>>, find_sidecars(f, near)}
  BY <1>1, <1>3
<1>5. IsList(r.sidecars)
  BY <1>2, <1>4, EmptyList
<1> QED BY <1>1, <1>4, <1>5

\* A row is one of a file of the tree, and a file has one row.
LEMMA RowsAre ==
  ASSUME IsList(tree.files)
  PROVE  /\ IsList(Rows)
         /\ DOMAIN Rows = DOMAIN tree.files
         /\ \A i \in DOMAIN Rows : Rows[i] = RowOfFile(tree.files[i], tree.files, tree.single)
         /\ \A p \in ToSet(Rows) : /\ p = RowOfFile(p.file, tree.files, tree.single)
                                   /\ p.file \in ToSet(tree.files)
<1>1. Rows = [i \in DOMAIN tree.files |-> RowOfFile(tree.files[i], tree.files, tree.single)]
  BY DEF Rows, parse_tree, RowOfFile
<1>2. Rows = [i \in DOMAIN tree.files |-> Rows[i]] /\ DOMAIN Rows = DOMAIN tree.files
  BY <1>1
<1>3. IsList(Rows)
  BY <1>2, ListOver
<1>4. \A i \in DOMAIN Rows : Rows[i] = RowOfFile(tree.files[i], tree.files, tree.single)
  BY <1>1
<1>5. ASSUME NEW p \in ToSet(Rows)
      PROVE  p = RowOfFile(p.file, tree.files, tree.single) /\ p.file \in ToSet(tree.files)
  <2>1. PICK i \in DOMAIN Rows : p = Rows[i]
    BY <1>3, ListHas
  <2>2. p = RowOfFile(tree.files[i], tree.files, tree.single)
    BY <1>4, <2>1
  <2>3. p.file = tree.files[i]
    BY <2>2, RowIs
  <2>4. tree.files[i] \in ToSet(tree.files)
    BY <1>2, ListHas
  <2> QED BY <2>2, <2>3, <2>4
<1> QED BY <1>2, <1>3, <1>4, <1>5

-----------------------------------------------------------------------------
(* Reports                                                                 *)

LEMMA RowReported ==
  ASSUME NEW p, NEW up, NEW r, r = _attach_episode_matches(_report_one_row(p), up)
  PROVE  /\ r = [p |-> p, key |-> _group_key(p), top |-> r.top, ep |-> r.ep, alts |-> r.alts, flags |-> r.flags]
         /\ \A n \in DOMAIN r.alts : InCatalogue(r.alts[n])
<1> DEFINE ranked == IF p.kind = "unknown" THEN <<>> ELSE search_pooled(p.kind, QueryTitle(p), p.year)
           last == IF Len(ranked) > TOP_N THEN TOP_N + 1 ELSE Len(ranked)
           asked == _report_one_row(p)
           alts == SubSeq(ranked, 2, last)
<1>1. IsList(ranked) /\ \A c \in ToSet(ranked) : InCatalogue(c)
  BY SearchOffers, EmptyList
<1>2. /\ asked = [p |-> p, key |-> _group_key(p), top |-> asked.top, ep |-> None,
                  alts |-> alts, flags |-> asked.flags]
  <2>1. asked = RowReport(p, ranked)
    BY DEF _report_one_row
  <2> HIDE DEF ranked
  <2> QED BY <2>1 DEF RowReport
<1>3. \A n \in DOMAIN alts : InCatalogue(alts[n])
  <2>1. Len(ranked) \in Nat /\ DOMAIN ranked = 1 .. Len(ranked) /\ \A i \in DOMAIN ranked : InCatalogue(ranked[i])
    <3> HIDE DEF ranked
    <3> QED BY <1>1, ListHas
  <2>2. last \in Nat /\ last <= Len(ranked)
    <3> HIDE DEF ranked
    <3> QED BY <2>1 DEF TOP_N
  <2>3. alts = [i \in 1 .. last - 1 |-> ranked[i + 1]]
    <3> HIDE DEF ranked, last
    <3> QED BY <2>1, <2>2
  <2>4. \A i \in 1 .. last - 1 : i + 1 \in DOMAIN ranked
    <3> HIDE DEF ranked, last
    <3> QED BY <2>1, <2>2
  <2> HIDE DEF ranked, last, alts
  <2> QED BY <2>1, <2>3, <2>4
<1>4. \/ r = asked
      \/ \E e, flags : r = [asked EXCEPT !.ep = e, !.flags = flags]
  <2> HIDE DEF asked
  <2> QED BY DEF _attach_episode_matches, asked
<1> HIDE DEF asked, ranked, last, alts
<1>5. CASE r = asked
  BY <1>2, <1>3, <1>5
<1>6. ASSUME NEW e, NEW flags, r = [asked EXCEPT !.ep = e, !.flags = flags]
      PROVE  r = [p |-> p, key |-> _group_key(p), top |-> asked.top, ep |-> e,
                  alts |-> alts, flags |-> flags]
  <2> DEFINE key == _group_key(p)
             top == asked.top
  <2>1. PICK f : f = asked.flags
    OBVIOUS
  <2>2. asked = [p |-> p, key |-> key, top |-> top, ep |-> None, alts |-> alts, flags |-> f]
    BY <1>2, <2>1
  <2> HIDE DEF key, top
  <2>3. r = [[p |-> p, key |-> key, top |-> top, ep |-> None, alts |-> alts, flags |-> f]
               EXCEPT !.ep = e, !.flags = flags]
    BY <1>6, <2>2
  <2>4. r = [p |-> p, key |-> key, top |-> top, ep |-> e, alts |-> alts, flags |-> flags]
    BY <2>3
  <2> QED BY <2>4 DEF key, top
<1>7. CASE \E e, flags : r = [asked EXCEPT !.ep = e, !.flags = flags]
  <2>1. PICK e, flags : r = [asked EXCEPT !.ep = e, !.flags = flags]
    BY <1>7
  <2>2. r = [p |-> p, key |-> _group_key(p), top |-> asked.top, ep |-> e, alts |-> alts, flags |-> flags]
    BY <1>6, <2>1
  <2> QED BY <1>3, <2>2
<1> QED BY <1>4, <1>5, <1>7

\* The rows a report asks about, and what it finds for each.
Listed == Kept(Rows, {i \in DOMAIN Rows : Rows[i].skip = None})
Asked(up) == [i \in DOMAIN Listed |-> _attach_episode_matches(_report_one_row(Listed[i]), up)]

LEMMA AskedRows ==
  ASSUME IsList(tree.files), NEW up
  PROVE  /\ IsList(Listed) /\ ToSet(Listed) \subseteq ToSet(Rows)
         /\ IsList(Asked(up)) /\ DOMAIN Asked(up) = DOMAIN Listed
         /\ \A i \in DOMAIN Listed :
              LET r == Asked(up)[i]
              IN /\ r = [p |-> Listed[i], key |-> _group_key(Listed[i]), top |-> r.top, ep |-> r.ep,
                         alts |-> r.alts, flags |-> r.flags]
                 /\ \A n \in DOMAIN r.alts : InCatalogue(r.alts[n])
<1>1. IsList(Listed) /\ ToSet(Listed) \subseteq ToSet(Rows)
  BY RowsAre, KeptList DEF Listed
<1>2. Asked(up) = [i \in DOMAIN Listed |-> Asked(up)[i]] /\ DOMAIN Asked(up) = DOMAIN Listed
  BY DEF Asked
<1>3. IsList(Asked(up))
  BY <1>1, <1>2, ListOver
<1>4. ASSUME NEW i \in DOMAIN Listed
      PROVE  Asked(up)[i] = _attach_episode_matches(_report_one_row(Listed[i]), up)
  BY DEF Asked
<1> QED BY <1>1, <1>2, <1>3, <1>4, RowReported

\* The groups a review shows offer candidates of TMDB.
LEMMA GroupsOffer ==
  ASSUME IsList(tree.files), NEW up, NEW show, NEW groups,
         groups = _filter_groups(build_report(Rows, NoOverrides, up).groups, show)
  PROVE  /\ IsList(groups)
         /\ \A g \in ToSet(groups) : \A n \in DOMAIN g.rows[1].alts : InCatalogue(g.rows[1].alts[n])
<1> DEFINE rows == Asked(up)
           keysOf == [i \in DOMAIN rows |-> rows[i].key]
           keys == Distinct(keysOf)
           all == [i \in DOMAIN keys |-> _group_report(keys[i], rows)]
<1>1. build_report(Rows, NoOverrides, up).groups = all
  <2>1. is_empty(NoOverrides)
    BY EmptyList DEF is_empty, NoOverrides
  <2> QED BY <2>1 DEF build_report, Asked, Listed
<1>2. IsList(rows)
  BY AskedRows
<1>3. IsList(keys) /\ ToSet(keys) \subseteq ToSet(keysOf)
  <2>1. keysOf = [i \in DOMAIN rows |-> keysOf[i]]
    <3> HIDE DEF rows
    <3> QED OBVIOUS
  <2>2. IsList(keysOf)
    <3> HIDE DEF keysOf, rows
    <3> QED BY <1>2, <2>1, ListOver
  <2> HIDE DEF keysOf
  <2> QED BY <2>2, DistinctList
<1>4. IsList(all)
  <2>1. all = [i \in DOMAIN keys |-> all[i]]
    <3> HIDE DEF keys, rows
    <3> QED OBVIOUS
  <2> HIDE DEF all, keys
  <2> QED BY <1>3, <2>1, ListOver
<1>5. ASSUME NEW i \in DOMAIN keys
      PROVE  \A n \in DOMAIN all[i].rows[1].alts : InCatalogue(all[i].rows[1].alts[n])
  <2> DEFINE its == Kept(rows, {j \in DOMAIN rows : rows[j].key = keys[i]})
  <2>1. keys[i] \in ToSet(keysOf)
    <3> HIDE DEF keys, keysOf
    <3> QED BY <1>3, ListHas
  <2>2. PICK k \in DOMAIN rows : rows[k].key = keys[i]
    <3> HIDE DEF keys, rows
    <3> QED BY <2>1 DEF ToSet
  <2>3. IsList(its) /\ ToSet(its) \subseteq ToSet(rows) /\ rows[k] \in ToSet(its)
    <3> HIDE DEF keys, rows
    <3> QED BY <1>2, <2>2, KeptList
  <2>4. its[1] \in ToSet(rows)
    <3> HIDE DEF its, rows
    <3>1. Len(its) \in Nat /\ DOMAIN its = 1 .. Len(its) /\ DOMAIN its # {}
      BY <2>3, ListHas
    <3> QED BY <2>3, <3>1, ListHas
  <2>5. all[i].rows = its
    <3>1. all[i] = _group_report(keys[i], rows)
      <4> HIDE DEF keys, rows
      <4> QED OBVIOUS
    <3> HIDE DEF all, keys, rows
    <3> QED BY <3>1 DEF _group_report
  <2>6. PICK j \in DOMAIN rows : its[1] = rows[j]
    <3> HIDE DEF its, rows
    <3> QED BY <1>2, <2>4, ListHas
  <2> HIDE DEF its, all, keys
  <2> QED BY <2>5, <2>6, AskedRows
<1>6. groups = Kept(all, {i \in DOMAIN all : show = "all" \/ all[i].anchor = None
                           \/ (show = "low-conf" /\ \E j \in DOMAIN all[i].rows :
                                 all[i].rows[j].top # None /\ all[i].rows[j].top.conf < HIGH_CONFIDENCE)})
  <2> HIDE DEF all
  <2> QED BY <1>1 DEF _filter_groups
<1>7. DOMAIN all = DOMAIN keys
  OBVIOUS
<1> HIDE DEF all, keys
<1>8. IsList(groups) /\ ToSet(groups) \subseteq ToSet(all)
  BY <1>4, <1>6, KeptList
<1>9. \A g \in ToSet(all) : \E i \in DOMAIN keys : g = all[i]
  BY <1>4, <1>7, ListHas
<1> QED BY <1>5, <1>8, <1>9

-----------------------------------------------------------------------------
(* The review's decisions                                                  *)

LEMMA DropHas ==
  ASSUME NEW f, NEW x
  PROVE  /\ DOMAIN Drop(f, x) = DOMAIN f \ {x}
         /\ \A z \in DOMAIN f : z # x => Drop(f, x)[z] = f[z]
BY DEF Drop

\* A key of the review leads to another of its groups, or out of it.
LEMMA Moved ==
  ASSUME SessionInv, session # None, NEW at \in DOMAIN session.groups, NEW acc, NEW made \in SUBSET DOMAIN acc,
         session' = [groups |-> session.groups, at |-> at, acc |-> acc, save |-> session.save, made |-> made]
  PROVE  SessionInv'
BY DEF SessionInv

LEMMA ShapeOfSession ==
  ASSUME SessionInv, session # None
  PROVE  /\ session = [groups |-> session.groups, at |-> session.at, acc |-> session.acc,
                       save |-> session.save, made |-> session.made]
         /\ Len(session.groups) \in Nat /\ DOMAIN session.groups = 1 .. Len(session.groups)
         /\ session.at \in 1 .. Len(session.groups)
         /\ session.made \subseteq DOMAIN session.acc
<1>1. /\ session = [groups |-> session.groups, at |-> session.at, acc |-> session.acc,
                    save |-> session.save, made |-> session.made]
      /\ IsList(session.groups) /\ session.at \in DOMAIN session.groups
      /\ session.made \subseteq DOMAIN session.acc
  BY DEF SessionInv
<1> QED BY <1>1, ListHas

SavedInv == SessionInv /\ SavedSoFar

LEMMA Ended == session' = None => SavedInv'
BY DEF SavedInv, SessionInv, SavedSoFar

LEMMA SavedAnchored ==
  ASSUME SavedInv, session # None, NEW ref, NEW c, Anchored(ref, c)
  PROVE  SavedInv'
<1> DEFINE key == Group.key
           acc == Put(session.acc, key, ref)
<1>1. CASE session.at = Len(session.groups)
  BY <1>1, Ended DEF Anchored
<1>2. CASE session.at # Len(session.groups)
  <2>1. /\ session' = [groups |-> session.groups, at |-> session.at + 1, acc |-> acc,
                       save |-> session.save, made |-> session.made \cup {key}]
        /\ files' = Put(files, session.save, [groups |-> acc, rows |-> Empty])
    <3>1. /\ session' = [session EXCEPT !.at = @ + 1, !.acc = acc, !.made = @ \cup {key}]
          /\ files' = Put(files, session.save, [groups |-> acc, rows |-> Empty])
      BY <1>2 DEF Anchored, _persist_state
    <3> HIDE DEF acc, key
    <3> QED BY <3>1, ShapeOfSession DEF SavedInv
  <2>2. DOMAIN acc = DOMAIN session.acc \cup {key}
    BY DEF Put
  <2> HIDE DEF acc, key
  <2>3. session.at + 1 \in DOMAIN session.groups /\ session.made \cup {key} \in SUBSET DOMAIN acc
    BY <1>2, <2>2, ShapeOfSession DEF SavedInv
  <2>4. SessionInv'
    BY <2>1, <2>3, Moved DEF SavedInv
  <2>5. /\ session.save \in DOMAIN files' /\ files'[session.save] = [groups |-> acc, rows |-> Empty]
    BY <2>1 DEF Put
  <2>6. files'[session.save].groups = acc
    BY <2>5
  <2>7. SavedSoFar'
    BY <2>1, <2>3, <2>5, <2>6 DEF SavedSoFar
  <2> QED BY <2>4, <2>7 DEF SavedInv
<1> QED BY <1>1, <1>2

LEMMA SavedSkip ==
  ASSUME SavedInv, Skip
  PROVE  SavedInv'
<1> DEFINE key == Group.key
           acc == Drop(session.acc, key)
<1>1. session # None
  BY DEF Skip
<1>2. CASE ~(session.at < Len(session.groups))
  BY <1>2, Ended DEF Skip
<1>3. CASE session.at < Len(session.groups)
  <2>1. /\ session' = [groups |-> session.groups, at |-> session.at + 1, acc |-> acc,
                       save |-> session.save, made |-> session.made \ {key}]
        /\ files' = files
    <3>1. session' = [session EXCEPT !.at = @ + 1, !.acc = acc, !.made = @ \ {key}] /\ files' = files
      BY <1>3 DEF Skip
    <3> HIDE DEF acc, key
    <3> QED BY <1>1, <3>1, ShapeOfSession DEF SavedInv
  <2>2. DOMAIN acc = DOMAIN session.acc \ {key} /\ \A k \in DOMAIN session.acc : k # key => acc[k] = session.acc[k]
    BY DropHas
  <2> HIDE DEF acc, key
  <2>3. session.at + 1 \in DOMAIN session.groups /\ session.made \ {key} \in SUBSET DOMAIN acc
    BY <1>1, <1>3, <2>2, ShapeOfSession DEF SavedInv
  <2>4. SessionInv'
    BY <1>1, <2>1, <2>3, Moved DEF SavedInv
  <2>5. session.made \subseteq DOMAIN session.acc
    BY <1>1, ShapeOfSession DEF SavedInv
  <2>6. SavedSoFar'
    BY <1>1, <2>1, <2>2, <2>5 DEF SavedInv, SavedSoFar
  <2> QED BY <2>4, <2>6 DEF SavedInv
<1> QED BY <1>2, <1>3

LEMMA SavedMoves ==
  ASSUME SavedInv, Accept \/ Back
  PROVE  SavedInv'
<1>1. session # None
  BY DEF Accept, Back
<1>2. ASSUME NEW at \in DOMAIN session.groups, session' = [session EXCEPT !.at = at], files' = files
      PROVE  SavedInv'
  <2>1. session' = [groups |-> session.groups, at |-> at, acc |-> session.acc,
                    save |-> session.save, made |-> session.made]
    BY <1>1, <1>2, ShapeOfSession DEF SavedInv
  <2>2. SessionInv'
    <3>1. session.made \in SUBSET DOMAIN session.acc
      BY <1>1, ShapeOfSession DEF SavedInv
    <3> QED BY <1>1, <2>1, <3>1, Moved DEF SavedInv
  <2>3. SavedSoFar'
    BY <1>1, <1>2, <2>1 DEF SavedInv, SavedSoFar
  <2> QED BY <2>2, <2>3 DEF SavedInv
<1>3. CASE Accept
  <2>1. CASE session.at = Len(session.groups)
    BY <1>3, <2>1, Ended DEF Accept, Leave
  <2>2. CASE session.at # Len(session.groups)
    <3>1. session' = [session EXCEPT !.at = session.at + 1] /\ files' = files
      BY <1>3, <2>2 DEF Accept
    <3>2. session.at + 1 \in DOMAIN session.groups
      BY <1>1, <2>2, ShapeOfSession DEF SavedInv
    <3> QED BY <1>2, <3>1, <3>2
  <2> QED BY <2>1, <2>2
<1>4. CASE Back
  <2>1. session' = [session EXCEPT !.at = session.at - 1] /\ files' = files /\ session.at > 1
    BY <1>4 DEF Back
  <2>2. session.at - 1 \in DOMAIN session.groups
    BY <1>1, <2>1, ShapeOfSession DEF SavedInv
  <2> QED BY <1>2, <2>1, <2>2
<1> QED BY <1>3, <1>4

LEMMA SavedReview ==
  ASSUME IsList(tree.files), NEW show, NEW load, NEW save, run_review_simple(show, load, save)
  PROVE  SavedInv'
<1> DEFINE groups == _filter_groups(build_report(Rows, NoOverrides, Up).groups, show)
           acc == _preload_state(load)
<1>1. /\ session' = [groups |-> groups, at |-> 1, acc |-> acc, save |-> save, made |-> {}]
      /\ groups # <<>>
  BY DEF run_review_simple
<1>2. /\ IsList(groups)
      /\ \A g \in ToSet(groups) : \A n \in DOMAIN g.rows[1].alts : InCatalogue(g.rows[1].alts[n])
  BY GroupsOffer
<1> HIDE DEF groups, acc
<1>3. 1 \in DOMAIN groups
  BY <1>1, <1>2, ListHas
<1>4. SessionInv'
  BY <1>1, <1>2, <1>3 DEF SessionInv
<1>5. SavedSoFar'
  BY <1>1 DEF SavedSoFar
<1> QED BY <1>4, <1>5 DEF SavedInv

LEMMA SavedStep == TreeInv /\ SavedInv /\ [Next]_vars => SavedInv'
<1> SUFFICES ASSUME TreeInv, SavedInv, [Next]_vars PROVE SavedInv'
  OBVIOUS
<1>1. ASSUME NEW show, NEW load, NEW save, run_review_simple(show, load, save) PROVE SavedInv'
  BY <1>1, SavedReview DEF TreeInv
<1>2. CASE Accept \/ Back
  BY <1>2, SavedMoves
<1>3. CASE Quit \/ Killed \/ KilledSaving
  BY <1>3, Ended DEF Quit, Leave, Killed, KilledSaving
<1>4. CASE Skip
  BY <1>4, SavedSkip
<1>5. ASSUME session # None, NEW ref, NEW c, Anchored(ref, c) PROVE SavedInv'
  BY <1>5, SavedAnchored
<1>6. ASSUME NEW n, PickAlternative(n) PROVE SavedInv'
  BY <1>5, <1>6 DEF PickAlternative
<1>7. ASSUME NEW ref, _prompt_for_id(ref) PROVE SavedInv'
  BY <1>5, <1>7 DEF _prompt_for_id
<1>8. ASSUME NEW query, NEW n, _prompt_for_search(query, n) PROVE SavedInv'
  BY <1>5, <1>8 DEF _prompt_for_search
<1>9. CASE UNCHANGED <<session, files>>
  BY <1>9 DEF SavedInv, SessionInv, SavedSoFar
<1> QED BY <1>1, <1>2, <1>3, <1>4, <1>6, <1>7, <1>8, <1>9
        DEF Next, Keys, vars, run_plan, PlanPicked, run_apply, run_report

-----------------------------------------------------------------------------
(* Picks, and the file they are in                                         *)

\* A review that goes on, or ends, holds and saves the same overrides for key.
LEMMA Held ==
  ASSUME NEW key, NEW c, NEW path, PickHolds(key, c, path), session # None,
         NEW acc, key \in DOMAIN acc, acc[key] = session.acc[key],
         \/ files' = files
         \/ files' = Put(files, session.save, [groups |-> acc, rows |-> Empty]),
         session' = None \/ (session'.save = session.save /\ session'.acc = acc)
  PROVE  PickHolds(key, c, path)'
<1>1. /\ path = session.save /\ path \in DOMAIN files
      /\ key \in DOMAIN files[path].groups /\ files[path].groups[key] = _candidate_to_anchor(c)
      /\ acc[key] = _candidate_to_anchor(c) /\ InCatalogue(c)
  BY DEF PickHolds
<1>2. /\ path \in DOMAIN files'
      /\ key \in DOMAIN files'[path].groups /\ files'[path].groups[key] = _candidate_to_anchor(c)
  <2>1. CASE files' = files
    BY <1>1, <2>1
  <2>2. CASE files' = Put(files, session.save, [groups |-> acc, rows |-> Empty])
    <3>1. path \in DOMAIN files' /\ files'[path] = [groups |-> acc, rows |-> Empty]
      BY <1>1, <2>2 DEF Put
    <3>2. files'[path].groups = acc
      BY <3>1
    <3> QED BY <1>1, <3>1, <3>2
  <2> QED BY <2>1, <2>2
<1> QED BY <1>1, <1>2 DEF PickHolds

LEMMA ChoiceAnchored ==
  ASSUME SessionInv, ChoiceInv, session # None,
         NEW ref, NEW c, Anchored(ref, c), c # None => InCatalogue(c) /\ ref = _candidate_to_anchor(c)
  PROVE  ChoiceInv'
<1> DEFINE key == Group.key
           acc == Put(session.acc, key, ref)
<1>1. /\ files' = Put(files, session.save, [groups |-> acc, rows |-> Empty])
      /\ session' = None \/ (session'.save = session.save /\ session'.acc = acc)
  <2>1. /\ files' = Put(files, session.save, [groups |-> acc, rows |-> Empty])
        /\ session' = None \/ session' = [session EXCEPT !.at = @ + 1, !.acc = acc, !.made = @ \cup {key}]
    BY DEF Anchored, _persist_state
  <2> HIDE DEF acc, key
  <2> QED BY <2>1, ShapeOfSession
<1>2. acc[key] = ref /\ key \in DOMAIN acc
      /\ \A k \in DOMAIN session.acc : k # key => k \in DOMAIN acc /\ acc[k] = session.acc[k]
  BY DEF Put
<1>3. choice' = IF c = None THEN Drop(choice, key) ELSE Put(choice, key, [c |-> c, path |-> session.save])
  BY DEF Anchored
<1> HIDE DEF acc, key
<1>4. ASSUME NEW k \in DOMAIN choice, k # key, NEW d, NEW path, d = choice[k].c, path = choice[k].path
      PROVE  PickHolds(k, d, path)' /\ choice'[k] = choice[k]
  <2>1. PickHolds(k, choice[k].c, choice[k].path)
    BY DEF ChoiceInv
  <2>2. k \in DOMAIN session.acc
    BY <2>1 DEF PickHolds
  <2>3. k \in DOMAIN acc /\ acc[k] = session.acc[k]
    BY <1>2, <1>4, <2>2
  <2>4. PickHolds(k, d, path)'
    BY <1>1, <1>4, <2>1, <2>3, Held
  <2>5. choice'[k] = choice[k]
    BY <1>3, <1>4 DEF Drop, Put
  <2> QED BY <2>4, <2>5
<1>5. ASSUME c # None, NEW k, k = key, NEW path, path = session.save PROVE PickHolds(k, c, path)'
  <2>1. InCatalogue(c) /\ acc[k] = _candidate_to_anchor(c) /\ k \in DOMAIN acc
    BY <1>2, <1>5
  <2>2. path \in DOMAIN files' /\ files'[path] = [groups |-> acc, rows |-> Empty]
    BY <1>1, <1>5 DEF Put
  <2>3. files'[path].groups = acc
    BY <2>2
  <2> QED BY <1>1, <1>5, <2>1, <2>2, <2>3 DEF PickHolds
<1>6. ASSUME NEW k \in DOMAIN choice', NEW d, NEW path, d = choice'[k].c, path = choice'[k].path
      PROVE  PickHolds(k, d, path)'
  <2>1. CASE k # key
    <3>1. k \in DOMAIN choice /\ choice'[k] = choice[k]
      BY <1>3, <2>1 DEF Put, Drop
    <3> QED BY <1>4, <1>6, <2>1, <3>1
  <2>2. CASE k = key
    <3>1. c # None /\ choice' = Put(choice, key, [c |-> c, path |-> session.save])
      BY <1>3, <2>2 DEF Drop
    <3>2. choice'[k] = [c |-> c, path |-> session.save]
      BY <2>2, <3>1 DEF Put
    <3>3. choice'[k].c = c /\ choice'[k].path = session.save
      BY <3>2
    <3> QED BY <1>5, <1>6, <2>2, <3>1, <3>3
  <2> QED BY <2>1, <2>2
<1> QED BY <1>6 DEF ChoiceInv

\* The picks a key of the review leaves alone stay where they are.
LEMMA ChoiceStays ==
  ASSUME ChoiceInv, session # None, NEW gone, NEW acc,
         \A k \in DOMAIN session.acc : k \notin gone => k \in DOMAIN acc /\ acc[k] = session.acc[k],
         choice' = [k \in DOMAIN choice \ gone |-> choice[k]],
         \/ files' = files
         \/ files' = Put(files, session.save, [groups |-> acc, rows |-> Empty]),
         session' = None \/ (session'.save = session.save /\ session'.acc = acc)
  PROVE  ChoiceInv'
<1>1. ASSUME NEW k \in DOMAIN choice', NEW d, NEW path, d = choice'[k].c, path = choice'[k].path
      PROVE  PickHolds(k, d, path)'
  <2>1. k \in DOMAIN choice /\ k \notin gone /\ choice'[k] = choice[k]
    OBVIOUS
  <2>2. PickHolds(k, d, path)
    BY <1>1, <2>1 DEF ChoiceInv
  <2>3. k \in DOMAIN session.acc
    BY <2>2 DEF PickHolds
  <2>4. k \in DOMAIN acc /\ acc[k] = session.acc[k]
    BY <2>1, <2>3
  <2> QED BY <2>2, <2>4, Held
<1> QED BY <1>1 DEF ChoiceInv

LEMMA ChoiceMoves ==
  ASSUME SessionInv, ChoiceInv, Accept \/ Back \/ Quit \/ Killed
  PROVE  ChoiceInv'
<1>1. session # None
  BY DEF Accept, Back, Quit, Killed
<1>2. PICK acc : acc = session.acc
  OBVIOUS
<1>3. PICK gone : gone = {}
  OBVIOUS
<1>4. choice' = choice
  BY DEF Accept, Back, Quit, Killed
<1>5. \/ files' = files
      \/ files' = Put(files, session.save, [groups |-> acc, rows |-> Empty])
  BY <1>2 DEF Accept, Back, Quit, Killed, Leave, _persist_state, Stays
<1>6. session' = None \/ (session'.save = session.save /\ session'.acc = acc)
  <2>1. session' = None \/ \E at : session' = [session EXCEPT !.at = at]
    BY DEF Accept, Back, Quit, Killed, Leave
  <2> QED BY <1>1, <1>2, <2>1, ShapeOfSession
<1>7. ASSUME NEW k \in DOMAIN choice, NEW d, NEW path, d = choice[k].c, path = choice[k].path
      PROVE  PickHolds(k, d, path)'
  <2>1. PickHolds(k, d, path)
    BY <1>7 DEF ChoiceInv
  <2>2. k \in DOMAIN acc /\ acc[k] = session.acc[k]
    BY <1>1, <1>2, <2>1 DEF PickHolds
  <2> QED BY <1>1, <1>5, <1>6, <2>1, <2>2, Held
<1> QED BY <1>4, <1>7 DEF ChoiceInv

LEMMA ChoiceSkip ==
  ASSUME SessionInv, ChoiceInv, Skip
  PROVE  ChoiceInv'
<1> DEFINE key == Group.key
           acc == Drop(session.acc, key)
<1>1. /\ session # None /\ choice' = Drop(choice, key)
      /\ \/ files' = files
         \/ files' = Put(files, session.save, [groups |-> acc, rows |-> Empty])
  BY DEF Skip, _persist_state
<1>2. session' = None \/ \E at, made : session' = [session EXCEPT !.at = at, !.acc = acc, !.made = made]
  <2> HIDE DEF acc
  <2> QED BY DEF Skip, acc
<1>3. \A k \in DOMAIN session.acc : k # key => k \in DOMAIN acc /\ acc[k] = session.acc[k]
  <2> HIDE DEF key
  <2> QED BY DEF Drop
<1> HIDE DEF acc, key
<1>4. session' = None \/ (session'.save = session.save /\ session'.acc = acc)
  BY <1>1, <1>2, ShapeOfSession
<1>5. PICK gone : gone = {key}
  OBVIOUS
<1>6. choice' = [k \in DOMAIN choice \ gone |-> choice[k]]
  BY <1>1, <1>5 DEF Drop
<1> QED BY <1>1, <1>3, <1>4, <1>5, <1>6, ChoiceStays

\* A file that is lost holds no pick any longer.
LEMMA ChoiceLost ==
  ASSUME ChoiceInv, KilledSaving
  PROVE  ChoiceInv'
<1>1. session # None /\ session' = None /\ choice' = choice /\ files' = Drop(files, session.save)
  BY DEF KilledSaving
<1>2. ASSUME NEW k \in DOMAIN choice, NEW d, NEW path, d = choice[k].c, path = choice[k].path
      PROVE  PickHolds(k, d, path)'
  <2>1. PickHolds(k, d, path)
    BY <1>2 DEF ChoiceInv
  <2>2. path \notin DOMAIN files'
    <3>1. path = session.save
      BY <1>1, <2>1 DEF PickHolds
    <3>2. DOMAIN files' = DOMAIN files \ {session.save}
      BY <1>1, DropHas
    <3> QED BY <3>1, <3>2
  <2> QED BY <1>1, <2>1, <2>2 DEF PickHolds
<1> QED BY <1>1, <1>2 DEF ChoiceInv

LEMMA ChoiceStep == SessionInv /\ ChoiceInv /\ [Next]_vars => ChoiceInv'
<1> SUFFICES ASSUME SessionInv, ChoiceInv, [Next]_vars PROVE ChoiceInv'
  OBVIOUS
<1>1. CASE Accept \/ Back \/ Quit \/ Killed
  BY <1>1, ChoiceMoves
<1>2. CASE Skip
  BY <1>2, ChoiceSkip
<1>8. CASE KilledSaving
  BY <1>8, ChoiceLost
<1>3. ASSUME NEW show, NEW load, NEW save, run_review_simple(show, load, save) PROVE ChoiceInv'
  <2>1. choice = <<>> /\ choice' = choice
    BY <1>3 DEF run_review_simple, Empty
  <2>2. DOMAIN choice' = {}
    BY <2>1, EmptyList
  <2> QED BY <2>2 DEF ChoiceInv
<1>4. ASSUME NEW n, PickAlternative(n) PROVE ChoiceInv'
  <2> DEFINE c == Group.rows[1].alts[n]
  <2>1. session # None /\ Anchored(_candidate_to_anchor(c), c)
    BY <1>4 DEF PickAlternative
  <2>2. InCatalogue(c)
    <3>1. Group \in ToSet(session.groups)
      BY <2>1, ListHas DEF SessionInv, Group
    <3> QED BY <1>4, <2>1, <3>1 DEF PickAlternative, SessionInv
  <2> HIDE DEF c
  <2> QED BY <2>1, <2>2, ChoiceAnchored
<1>5. ASSUME NEW ref, _prompt_for_id(ref) PROVE ChoiceInv'
  BY <1>5, ChoiceAnchored DEF _prompt_for_id
<1>6. ASSUME NEW query, NEW n, _prompt_for_search(query, n) PROVE ChoiceInv'
  <2> DEFINE kind == IF Group.kind = "movie" THEN "movie" ELSE "tv"
             results == search_pooled(kind, query, None)
             c == results[n]
  <2>1. session # None /\ Anchored(_candidate_to_anchor(c), c) /\ n \in DOMAIN results
    BY <1>6 DEF _prompt_for_search
  <2>2. InCatalogue(c)
    <3>1. IsList(results) /\ \A x \in ToSet(results) : InCatalogue(x)
      <4> HIDE DEF kind
      <4> QED BY SearchOffers
    <3> HIDE DEF results
    <3> QED BY <2>1, <3>1, ListHas
  <2> HIDE DEF c
  <2> QED BY <2>1, <2>2, ChoiceAnchored
<1>7. CASE UNCHANGED <<session, files, choice>>
  <2>1. \A k \in DOMAIN choice : PickHolds(k, choice[k].c, choice[k].path)
    BY DEF ChoiceInv
  <2> QED BY <1>7, <2>1 DEF ChoiceInv, PickHolds
<1> QED BY <1>1, <1>2, <1>3, <1>4, <1>5, <1>6, <1>7, <1>8
        DEF Next, Keys, vars, run_plan, PlanPicked, run_apply, run_report

-----------------------------------------------------------------------------
(* Reports and the replay                                                  *)

LEMMA ReportStep == ReportInv /\ [Next]_vars => ReportInv'
<1> SUFFICES ASSUME ReportInv, [Next]_vars PROVE ReportInv'
  OBVIOUS
<1>1. ASSUME NEW path, NEW flags, run_report(path, flags) PROVE ReportInv'
  <2>1. /\ report' = [of |-> build_report(Rows, _collect_overrides(path, flags), Up), path |-> path, flags |-> flags]
        /\ session' = None /\ UNCHANGED <<scene, tree, files>>
        /\ path # None => path \in DOMAIN files
    BY <1>1 DEF run_report
  <2> DEFINE of == build_report(Rows, _collect_overrides(path, flags), Up)
  <2>2. of = build_report(Rows, _collect_overrides(path, flags), Up)'
    BY <2>1 DEF Rows, Up, _collect_overrides
  <2> HIDE DEF of
  <2>3. report'.of = of /\ report'.path = path /\ report'.flags = flags
    BY <2>1 DEF of
  <2> QED BY <2>1, <2>2, <2>3 DEF ReportInv
<1>2. CASE report' = None
  BY <1>2 DEF ReportInv
<1>3. CASE UNCHANGED <<scene, tree, files, session, report>>
  <2>1. CASE report = None
    BY <1>3, <2>1 DEF ReportInv
  <2>2. CASE report # None
    <3>1. build_report(Rows, _collect_overrides(report.path, report.flags), Up)
            = build_report(Rows, _collect_overrides(report.path, report.flags), Up)'
      BY <1>3 DEF Rows, Up, _collect_overrides
    <3> QED BY <1>3, <2>2, <3>1 DEF ReportInv
  <2> QED BY <2>1, <2>2
<1>4. CASE session # None /\ report' = report
  BY <1>4 DEF ReportInv
<1>5. CASE Keys
  BY <1>4, <1>5 DEF Keys, Accept, Back, Quit, Skip, Killed, KilledSaving, PickAlternative, _prompt_for_id, _prompt_for_search, Anchored, Stays
<1> QED BY <1>1, <1>2, <1>3, <1>5 DEF Next, vars, run_plan, PlanPicked, run_apply, run_review_simple

\* An anchor of a movie or a show of TMDB is resolved to it.
LEMMA Resolved ==
  ASSUME NoneIsNoFunction, NEW r \in ToSet(Catalogue), NEW conf, NEW parsed, NEW up, NEW ref,
         ref = _candidate_to_anchor(ToCandidate(r, conf))
  PROVE  LET t == resolve_anchor_to_candidate(ref, parsed, up)
         IN /\ t # None /\ ref # None
            /\ t.anchor = "tmdb" /\ t.id = r.id /\ t.kind = r.kind /\ t.title = r.title
<1> DEFINE hits == Lookup(r.kind, r.id)
           key == <<ref.id, ref.season>>
           eps == IF r.kind = "tv" /\ key \in up /\ key \in DOMAIN Episodes THEN Episodes[key] ELSE <<>>
           t == resolve_anchor_to_candidate(ref, parsed, up)
<1>1. ref = [kind |-> "tmdb", item |-> r.kind, id |-> r.id, season |-> None] /\ r.kind # None
  BY CatalogueAssumption DEF _candidate_to_anchor, ToCandidate
<1>2. hits # <<>> /\ hits[1] = r
  <2> DEFINE places == {i \in DOMAIN Catalogue : Catalogue[i].kind = r.kind /\ Catalogue[i].id = r.id}
  <2>1. PICK i \in DOMAIN Catalogue : Catalogue[i] = r
    BY CatalogueList, ListHas
  <2>2. IsList(hits) /\ ToSet(hits) = {Catalogue[j] : j \in places \cap DOMAIN Catalogue}
    BY CatalogueList, KeptList DEF Lookup
  <2>3. r \in ToSet(hits)
    BY <2>1, <2>2
  <2>4. \A h \in ToSet(hits) : h = r
    <3>1. \A j \in DOMAIN Catalogue : Catalogue[j] \in ToSet(Catalogue)
      BY CatalogueList, ListHas
    <3> QED BY <2>2, <3>1, CatalogueAssumption
  <2> HIDE DEF hits
  <2> QED BY <2>2, <2>3, <2>4, HeadHas
<1>3. t = [ToCandidate(hits[1], 1000) EXCEPT !.eps = eps]
  <2>1. ref.kind = "tmdb" /\ ref.item = r.kind /\ ref.id = r.id
    BY <1>1
  <2>2. "tmdb" # "imdb"
    OBVIOUS
  <2> HIDE DEF hits
  <2> QED BY <1>1, <1>2, <2>1, <2>2 DEF resolve_anchor_to_candidate, hits
<1> HIDE DEF hits, eps, t
<1>4. t = [anchor |-> "tmdb", id |-> r.id, kind |-> r.kind, title |-> r.title, year |-> r.year,
           conf |-> 1000, eps |-> eps]
  <2>1. PICK id, kind, title, year : id = r.id /\ kind = r.kind /\ title = r.title /\ year = r.year
    OBVIOUS
  <2>2. ToCandidate(hits[1], 1000) = [anchor |-> "tmdb", id |-> id, kind |-> kind, title |-> title, year |-> year,
                                      conf |-> 1000, eps |-> <<>>]
    BY <1>2, <2>1 DEF ToCandidate
  <2>3. t = [[anchor |-> "tmdb", id |-> id, kind |-> kind, title |-> title, year |-> year,
              conf |-> 1000, eps |-> <<>>] EXCEPT !.eps = eps]
    BY <1>3, <2>2
  <2>4. t = [anchor |-> "tmdb", id |-> id, kind |-> kind, title |-> title, year |-> year, conf |-> 1000, eps |-> eps]
    BY <2>3
  <2> QED BY <2>1, <2>4
<1>5. t # None /\ ref # None
  <2>1. t = [x \in DOMAIN t |-> t[x]]
    BY <1>4
  <2>2. ref = [x \in DOMAIN ref |-> ref[x]]
    BY <1>1
  <2> QED BY <2>1, <2>2 DEF NoneIsNoFunction
<1> QED BY <1>4, <1>5 DEF t

\* A row with an override is shown what the anchors like it stand for.
LEMMA Overridden ==
  ASSUME NEW rows, IsList(rows), NEW o, NEW up, NEW i \in DOMAIN rows, NEW C, None \notin C,
         RefOf(rows[i], o) # None,
         \A j \in DOMAIN rows :
            /\ RefOf(rows[j], o) # None
            /\ RefOf(rows[j], o).kind = RefOf(rows[i], o).kind
            /\ RefOf(rows[j], o).id = RefOf(rows[i], o).id
            => resolve_anchor_to_candidate(RefOf(rows[j], o), rows[j].p.kind, up) \in C,
         rows[i] = [p |-> rows[i].p, key |-> rows[i].key, top |-> rows[i].top,
                    ep |-> rows[i].ep, alts |-> rows[i].alts, flags |-> rows[i].flags]
  PROVE  _apply_overrides(rows, o, up)[i].top \in C
<1> DEFINE own(j) == IF RefOf(rows[j], o) = None THEN None
                     ELSE resolve_anchor_to_candidate(RefOf(rows[j], o), rows[j].p.kind, up)
           sameKey(k, j) == /\ RefOf(rows[j], o) # None
                            /\ RefOf(rows[j], o).kind = RefOf(rows[k], o).kind
                            /\ RefOf(rows[j], o).id = RefOf(rows[k], o).id
           upto == [j \in 1..i |-> j]
           places == {j \in 1..i : sameKey(i, j) /\ own(j) # None}
           cached == Kept(upto, places)
           flags == (rows[i].flags \ {"no-anchor", "low-confidence", "ambiguous", "empty-search", "year-mismatch"})
                    \cup {"anchor-override"}
<1>1. DOMAIN rows = 1 .. Len(rows) /\ Len(rows) \in Nat
  BY ListHas
<1>2. IsList(upto)
  <2>1. upto \in Seq(1..i)
    BY <1>1, IsASeq
  <2> HIDE DEF upto
  <2> QED BY <2>1, ListOf
<1>3. \A j \in places : j \in DOMAIN rows /\ own(j) \in C
  BY <1>1
<1>4. i \in places
  <2>1. own(i) \in C
    OBVIOUS
  <2> QED BY <1>1, <2>1
<1>5. cached # <<>> /\ cached[1] \in places
  <2>1. IsList(cached) /\ ToSet(cached) = {upto[j] : j \in places \cap DOMAIN upto}
    <3> HIDE DEF upto, places
    <3> QED BY <1>2, KeptList
  <2>2. i \in ToSet(cached) /\ ToSet(cached) \subseteq places
    <3>1. \A j \in 1..i : j \in DOMAIN upto /\ upto[j] = j
      OBVIOUS
    <3>2. DOMAIN upto = 1..i /\ i \in 1..i
      BY <1>1
    <3> HIDE DEF upto, places, cached
    <3> QED BY <1>4, <2>1, <3>1, <3>2
  <2> HIDE DEF upto, places, cached
  <2> QED BY <2>1, <2>2, HeadHas
<1>6. _apply_overrides(rows, o, up)[i] = IF RefOf(rows[i], o) = None \/ cached = <<>> THEN rows[i]
          ELSE [rows[i] EXCEPT !.top = own(cached[1]), !.ep = None, !.flags = flags]
  BY DEF _apply_overrides
<1> HIDE DEF own, cached, places, flags
<1>7. _apply_overrides(rows, o, up)[i] = [rows[i] EXCEPT !.top = own(cached[1]), !.ep = None, !.flags = flags]
  BY <1>5, <1>6
<1>8. PICK p, key, top, ep, alts, was :
        rows[i] = [p |-> p, key |-> key, top |-> top, ep |-> ep, alts |-> alts, flags |-> was]
  OBVIOUS
<1>9. PICK t : t = own(cached[1])
  OBVIOUS
<1>10. PICK f : f = flags
  OBVIOUS
<1>11. PICK row, now : row = rows[i] /\ now = _apply_overrides(rows, o, up)[i]
  OBVIOUS
<1>12. now.top = t
  <2>1. now = [row EXCEPT !.top = t, !.ep = None, !.flags = f]
    BY <1>7, <1>9, <1>10, <1>11
  <2>2. row = [p |-> p, key |-> key, top |-> top, ep |-> ep, alts |-> alts, flags |-> was]
    BY <1>8, <1>11
  <2> QED BY <2>1, <2>2
<1> QED BY <1>3, <1>5, <1>9, <1>11, <1>12

\* An override changes nothing of a row but its candidate, episode and flags.
LEMMA SameRow ==
  ASSUME NEW r, r = [p |-> r.p, key |-> r.key, top |-> r.top, ep |-> r.ep, alts |-> r.alts, flags |-> r.flags],
         NEW t, NEW flags, NEW s, s = [r EXCEPT !.top = t, !.ep = None, !.flags = flags]
  PROVE  s.p = r.p /\ s.key = r.key /\ s.top = t
<1>1. PICK p, key, top, ep, alts, was : r = [p |-> p, key |-> key, top |-> top, ep |-> ep, alts |-> alts, flags |-> was]
  OBVIOUS
<1>2. s = [p |-> p, key |-> key, top |-> t, ep |-> None, alts |-> alts, flags |-> flags]
  BY <1>1
<1> QED BY <1>1, <1>2

LEMMA OverridesKeep ==
  ASSUME NEW rows, IsList(rows), NEW o, NEW up, NEW out, out = _apply_overrides(rows, o, up),
         \A i \in DOMAIN rows : rows[i] = [p |-> rows[i].p, key |-> rows[i].key, top |-> rows[i].top,
                                           ep |-> rows[i].ep, alts |-> rows[i].alts, flags |-> rows[i].flags]
  PROVE  /\ IsList(out) /\ DOMAIN out = DOMAIN rows
         /\ \A i \in DOMAIN rows : out[i].p = rows[i].p /\ out[i].key = rows[i].key
<1>1. out = [i \in DOMAIN rows |-> out[i]]
  BY DEF _apply_overrides
<1>2. ASSUME NEW i \in DOMAIN rows
      PROVE  out[i] = rows[i] \/ \E t, flags : out[i] = [rows[i] EXCEPT !.top = t, !.ep = None, !.flags = flags]
  BY DEF _apply_overrides
<1>3. ASSUME NEW i \in DOMAIN rows
      PROVE  out[i].p = rows[i].p /\ out[i].key = rows[i].key
  <2>1. CASE out[i] = rows[i]
    BY <2>1
  <2>2. ASSUME NEW t, NEW flags, out[i] = [rows[i] EXCEPT !.top = t, !.ep = None, !.flags = flags]
        PROVE  out[i].p = rows[i].p /\ out[i].key = rows[i].key
    BY <2>2, SameRow
  <2> QED BY <1>2, <2>1, <2>2
<1> QED BY <1>1, <1>3, ListOver

\* The file of a review and no flags: its overrides are used as they are.
LEMMA Collected ==
  ASSUME NEW path, path # None, NEW o, o = _collect_overrides(path, NoOverrides)
  PROVE  /\ DOMAIN o.groups = DOMAIN files[path].groups /\ DOMAIN o.rows = DOMAIN files[path].rows
         /\ \A key \in DOMAIN o.groups : o.groups[key] = files[path].groups[key]
         /\ \A f \in DOMAIN o.rows : o.rows[f] = files[path].rows[f]
<1>1. o = merge_overrides(files[path], NoOverrides)
  BY DEF _collect_overrides
<1>2. NoOverrides.groups = <<>> /\ NoOverrides.rows = <<>>
  BY DEF NoOverrides
<1>3. /\ o.groups = [x \in DOMAIN files[path].groups \cup DOMAIN NoOverrides.groups |->
                       IF x \in DOMAIN NoOverrides.groups THEN NoOverrides.groups[x] ELSE files[path].groups[x]]
      /\ o.rows = [x \in DOMAIN files[path].rows \cup DOMAIN NoOverrides.rows |->
                     IF x \in DOMAIN NoOverrides.rows THEN NoOverrides.rows[x] ELSE files[path].rows[x]]
  BY <1>1 DEF merge_overrides
<1>4. DOMAIN NoOverrides.groups = {} /\ DOMAIN NoOverrides.rows = {}
  BY <1>2, EmptyList
<1> QED BY <1>3, <1>4

\* The rows of a report.
LEMMA RowsReported ==
  ASSUME NEW o, NEW asked, asked = Asked(Up)
  PROVE  build_report(Rows, o, Up).rows = IF is_empty(o) THEN asked ELSE _apply_overrides(asked, o, Up)
<1> DEFINE over == IF is_empty(o) THEN Asked(Up) ELSE _apply_overrides(Asked(Up), o, Up)
           groups == build_report(Rows, o, Up).groups
           ignored == build_report(Rows, o, Up).ignored
<1>1. \E g, x : build_report(Rows, o, Up) = [rows |-> over, groups |-> g, ignored |-> x]
  BY Zenon DEF build_report, Asked, Listed
<1> HIDE DEF over
<1>2. build_report(Rows, o, Up).rows = over
  BY <1>1
<1> QED BY <1>2 DEF over

LEMMA Replayed ==
  ASSUME NoneIsNoFunction, IsList(tree.files), ChoiceInv, ReportInv
  PROVE  ReplayShowsChoice
<1> DEFINE path == report.path
           used == files[path]
           o == _collect_overrides(path, report.flags)
           rows == Asked(Up)
           out == IF is_empty(o) THEN rows ELSE _apply_overrides(rows, o, Up)
           anchors == {used.groups[key] : key \in DOMAIN used.groups} \cup {used.rows[f] : f \in DOMAIN used.rows}
<1> SUFFICES ASSUME report # None, path # None, report.flags = NoOverrides,
                    NEW row \in ToSet(report.of.rows),
                    row.key \in DOMAIN choice, choice[row.key].path = path,
                    row.p.file \notin DOMAIN used.rows,
                    \A a, b \in anchors : a.kind = b.kind /\ a.id = b.id => a = b
             PROVE  /\ row.top # None
                    /\ LET c == choice[row.key].c
                       IN /\ row.top.anchor = c.anchor /\ row.top.id = c.id
                          /\ row.top.kind = c.kind /\ row.top.title = c.title
  BY DEF ReplayShowsChoice
<1>2. /\ IsList(rows)
      /\ \A i \in DOMAIN rows : rows[i] = [p |-> rows[i].p, key |-> rows[i].key, top |-> rows[i].top,
                                           ep |-> rows[i].ep, alts |-> rows[i].alts, flags |-> rows[i].flags]
  <2>1. /\ IsList(rows) /\ DOMAIN rows = DOMAIN Listed
        /\ \A i \in DOMAIN Listed :
             rows[i] = [p |-> Listed[i], key |-> _group_key(Listed[i]), top |-> rows[i].top, ep |-> rows[i].ep,
                        alts |-> rows[i].alts, flags |-> rows[i].flags]
    BY AskedRows
  <2> HIDE DEF rows
  <2>2. ASSUME NEW i \in DOMAIN rows
        PROVE  rows[i] = [p |-> rows[i].p, key |-> rows[i].key, top |-> rows[i].top,
                          ep |-> rows[i].ep, alts |-> rows[i].alts, flags |-> rows[i].flags]
    <3>1. rows[i].p = Listed[i] /\ rows[i].key = _group_key(Listed[i])
      BY <2>1
    <3> QED BY <2>1, <3>1
  <2> QED BY <2>1, <2>2
<1>3. /\ DOMAIN o.groups = DOMAIN used.groups /\ DOMAIN o.rows = DOMAIN used.rows
      /\ \A key \in DOMAIN o.groups : o.groups[key] = used.groups[key]
      /\ \A f \in DOMAIN o.rows : o.rows[f] = used.rows[f]
  BY Collected
<1>4. PickHolds(row.key, choice[row.key].c, path)
  BY DEF ChoiceInv
<1> DEFINE key == row.key
           c == choice[key].c
           ref == _candidate_to_anchor(c)
<1>5. InCatalogue(c) /\ key \in DOMAIN o.groups /\ o.groups[key] = ref
  <2>1. path \in DOMAIN files
    BY DEF ReportInv
  <2> QED BY <1>3, <1>4, <2>1 DEF PickHolds
<1>6. ~is_empty(o)
  BY <1>5 DEF is_empty
<1>1. report.of.rows = out
  <2>1. report.of = build_report(Rows, o, Up)
    BY DEF ReportInv
  <2> HIDE DEF o, rows
  <2>2. report.of.rows = IF is_empty(o) THEN rows ELSE _apply_overrides(rows, o, Up)
    BY <2>1, RowsReported DEF rows
  <2> QED BY <2>2
<1>7. PICK r \in ToSet(Catalogue) : c = ToCandidate(r, c.conf)
  BY <1>5 DEF InCatalogue
<1>8. c.anchor = "tmdb" /\ c.id = r.id /\ c.kind = r.kind /\ c.title = r.title
  <2> HIDE DEF c
  <2>1. PICK conf : c = ToCandidate(r, conf)
    BY <1>7
  <2> QED BY <2>1 DEF ToCandidate
<1> DEFINE C == {t \in {resolve_anchor_to_candidate(ref, rows[j].p.kind, Up) : j \in DOMAIN rows} :
                   /\ t # None /\ t.anchor = "tmdb" /\ t.id = r.id /\ t.kind = r.kind /\ t.title = r.title}
<1>9. PICK i \in DOMAIN rows : row = out[i] /\ row.key = rows[i].key /\ row.p = rows[i].p
                               /\ out[i] = _apply_overrides(rows, o, Up)[i]
  <2>1. out = _apply_overrides(rows, o, Up)
    BY <1>6
  <2> HIDE DEF rows, o, out
  <2>2. /\ IsList(out) /\ DOMAIN out = DOMAIN rows
        /\ \A i \in DOMAIN rows : out[i].p = rows[i].p /\ out[i].key = rows[i].key
    BY <1>2, <2>1, OverridesKeep
  <2>3. PICK i \in DOMAIN out : row = out[i]
    BY <1>1, <2>2, ListHas
  <2> QED BY <2>1, <2>2, <2>3
<1>10. RefOf(rows[i], o) = ref
  <2> HIDE DEF rows, o, ref, used
  <2> QED BY <1>3, <1>5, <1>9 DEF RefOf, used
<1>11. ASSUME NEW j \in DOMAIN rows, RefOf(rows[j], o) # None,
              RefOf(rows[j], o).kind = ref.kind, RefOf(rows[j], o).id = ref.id
       PROVE  RefOf(rows[j], o) = ref
  <2>1. \A k \in DOMAIN o.groups : o.groups[k] \in anchors
    BY <1>3
  <2>2. \A f \in DOMAIN o.rows : o.rows[f] \in anchors
    BY <1>3
  <2> HIDE DEF rows, o, ref, anchors
  <2>3. RefOf(rows[j], o) \in anchors /\ ref \in anchors
    BY <1>5, <1>11, <2>1, <2>2 DEF RefOf
  <2> QED BY <1>11, <2>3
<1>12. ref # None /\ \A j \in DOMAIN rows : resolve_anchor_to_candidate(ref, rows[j].p.kind, Up) \in C
  <2>1. PICK conf : c = ToCandidate(r, conf)
    BY <1>7
  <2>2. ref = _candidate_to_anchor(ToCandidate(r, conf))
    BY <2>1
  <2>3. ASSUME NEW parsed
        PROVE  LET t == resolve_anchor_to_candidate(ref, parsed, Up)
               IN /\ t # None /\ ref # None
                  /\ t.anchor = "tmdb" /\ t.id = r.id /\ t.kind = r.kind /\ t.title = r.title
    <3> HIDE DEF ref
    <3> QED BY <2>2, Resolved
  <2> HIDE DEF ref, rows
  <2> QED BY <2>3
<1>13. None \notin C /\ IsList(rows)
  BY <1>2
<1>15. row.top \in C
  <2> HIDE DEF rows, o, ref, C, out
  <2>1. \A j \in DOMAIN rows :
            /\ RefOf(rows[j], o) # None
            /\ RefOf(rows[j], o).kind = RefOf(rows[i], o).kind
            /\ RefOf(rows[j], o).id = RefOf(rows[i], o).id
            => resolve_anchor_to_candidate(RefOf(rows[j], o), rows[j].p.kind, Up) \in C
    BY <1>10, <1>11, <1>12
  <2>2. RefOf(rows[i], o) # None
    BY <1>10, <1>12
  <2>3. rows[i] = [p |-> rows[i].p, key |-> rows[i].key, top |-> rows[i].top,
                   ep |-> rows[i].ep, alts |-> rows[i].alts, flags |-> rows[i].flags]
    BY <1>2
  <2>4. _apply_overrides(rows, o, Up)[i].top \in C
    BY <1>13, <2>1, <2>2, <2>3, Overridden
  <2> QED BY <1>9, <2>4
<1>16. /\ row.top # None /\ row.top.anchor = "tmdb" /\ row.top.id = r.id
       /\ row.top.kind = r.kind /\ row.top.title = r.title
  BY <1>15
<1> HIDE DEF c, key
<1> QED BY <1>8, <1>16 DEF c, key

-----------------------------------------------------------------------------
(* Plans                                                                   *)

LEMMA ConcatList ==
  ASSUME NEW s, IsList(s), NEW t, IsList(t)
  PROVE  IsList(s \o t) /\ ToSet(s \o t) = ToSet(s) \cup ToSet(t)
<1> DEFINE S == ToSet(s) \cup ToSet(t)
<1>1. s \in Seq(S) /\ t \in Seq(S)
  BY SeqMonotonic DEF IsList
<1>2. s \o t \in Seq(S)
  <2> HIDE DEF S
  <2> QED BY <1>1, ConcatProperties
<1>3. IsList(s \o t) /\ ToSet(s \o t) \subseteq S
  <2> HIDE DEF S
  <2> QED BY <1>2, ListOf
<1>4. ASSUME NEW i \in DOMAIN s PROVE s[i] \in ToSet(s \o t)
  <2>1. i \in DOMAIN (s \o t) /\ (s \o t)[i] = s[i]
    <3> HIDE DEF S
    <3> QED BY <1>1
  <2> QED BY <1>3, <2>1, ListHas
<1>5. ASSUME NEW i \in DOMAIN t PROVE t[i] \in ToSet(s \o t)
  <2>1. Len(s) + i \in DOMAIN (s \o t) /\ (s \o t)[Len(s) + i] = t[i]
    <3> HIDE DEF S
    <3> QED BY <1>1
  <2> QED BY <1>3, <2>1, ListHas
<1> QED BY <1>3, <1>4, <1>5, ListHas

\* Ops leave a plan for its collisions by their target, whoever else has it.
LEMMA Divided ==
  ASSUME NEW ops, IsList(ops)
  PROVE  LET d == detect_collisions(ops)
         IN /\ IsList(d.ops) /\ IsList(d.collisions)
            /\ ToSet(d.ops) \cup ToSet(d.collisions) = ToSet(ops)
            /\ ToSet(d.ops) \cap ToSet(d.collisions) = {}
<1> DEFINE C == Clashing(ops)
           free == Kept(ops, DOMAIN ops \ C)
           taken == Kept(ops, C)
<1>1. detect_collisions(ops) = [ops |-> free, collisions |-> taken]
  BY DEF detect_collisions
<1>2. C \subseteq DOMAIN ops
  BY DEF Clashing
<1>3. ASSUME NEW i \in DOMAIN ops, NEW j \in C, ops[i] = ops[j]
      PROVE  i \in C
  BY <1>3 DEF Clashing
<1> HIDE DEF C
<1>4. IsList(free) /\ ToSet(free) = {ops[i] : i \in (DOMAIN ops \ C) \cap DOMAIN ops}
  BY KeptList
<1>5. IsList(taken) /\ ToSet(taken) = {ops[i] : i \in C \cap DOMAIN ops}
  BY KeptList
<1> HIDE DEF free, taken
<1>6. ToSet(ops) = {ops[i] : i \in DOMAIN ops}
  BY DEF ToSet
<1>7. ToSet(free) \cup ToSet(taken) = ToSet(ops)
  BY <1>2, <1>4, <1>5, <1>6
<1>8. ToSet(free) \cap ToSet(taken) = {}
  BY <1>3, <1>4, <1>5
<1> QED BY <1>1, <1>4, <1>5, <1>7, <1>8

\* The pairs of a kind a candidate was found for, and the op of each.
Of(pairs, kind) == Kept(pairs, {i \in DOMAIN pairs : pairs[i][2] # None /\ pairs[i][1].kind = kind})
Parts(movies) == group_multi_part([i \in DOMAIN movies |-> movies[i][1]])
PartOf(movies, i) == IF i \in Parts(movies) THEN movies[i][1].part ELSE None
MovieOp(x, part, ed) ==
  LET edition == _edition_to_apply(x[1], ed)
  IN Op(x[1], x[2], movie_target_path(x[2], edition, part, x[1].file.ext), edition)
ShowOp(x, up) == TvOp(x[1], x[2], _resolve_tv_indices(x[1], x[2], up), up)
Made(pairs, up, ed) == _build_movie_ops(Of(pairs, "movie"), ed) \o _build_tv_ops(Of(pairs, "tv"), up)

\* The op of a movie: it is numbered when another part of its title is there.
MadeOfMovie(pairs, ed, x, op) ==
  \E i \in DOMAIN Of(pairs, "movie") :
    x = Of(pairs, "movie")[i] /\ op = MovieOp(x, PartOf(Of(pairs, "movie"), i), ed)

LEMMA OfKind ==
  ASSUME NEW pairs, IsList(pairs), NEW kind
  PROVE  /\ IsList(Of(pairs, kind))
         /\ ToSet(Of(pairs, kind)) = {x \in ToSet(pairs) : x[2] # None /\ x[1].kind = kind}
<1> DEFINE places == {i \in DOMAIN pairs : pairs[i][2] # None /\ pairs[i][1].kind = kind}
<1>1. IsList(Of(pairs, kind)) /\ ToSet(Of(pairs, kind)) = {pairs[i] : i \in places \cap DOMAIN pairs}
  BY KeptList DEF Of
<1> QED BY <1>1 DEF ToSet

LEMMA MadeIs ==
  ASSUME NEW pairs, IsList(pairs), NEW up, NEW ed
  PROVE  /\ IsList(Made(pairs, up, ed))
         /\ \A op : op \in ToSet(Made(pairs, up, ed)) <=>
              \/ \E x \in ToSet(pairs) : MadeOfMovie(pairs, ed, x, op)
              \/ \E x \in ToSet(pairs) : /\ x[2] # None /\ x[1].kind = "tv"
                                         /\ HasIndices(x[1], x[2], up) /\ op = ShowOp(x, up)
<1> DEFINE movies == Of(pairs, "movie")
           shows == Of(pairs, "tv")
           m == _build_movie_ops(movies, ed)
           placed == Kept(shows, {i \in DOMAIN shows : HasIndices(shows[i][1], shows[i][2], up)})
           t == _build_tv_ops(shows, up)
<1>1. /\ IsList(movies) /\ IsList(shows)
      /\ ToSet(movies) = {x \in ToSet(pairs) : x[2] # None /\ x[1].kind = "movie"}
      /\ ToSet(shows) = {x \in ToSet(pairs) : x[2] # None /\ x[1].kind = "tv"}
  BY OfKind
<1>2. IsList(placed) /\ ToSet(placed) = {x \in ToSet(shows) : HasIndices(x[1], x[2], up)}
  <2> DEFINE places == {i \in DOMAIN shows : HasIndices(shows[i][1], shows[i][2], up)}
  <2> HIDE DEF shows
  <2>1. IsList(placed) /\ ToSet(placed) = {shows[i] : i \in places \cap DOMAIN shows}
    BY <1>1, KeptList
  <2> QED BY <2>1 DEF ToSet
<1>3. IsList(m) /\ DOMAIN m = DOMAIN movies
      /\ \A i \in DOMAIN movies : m[i] = MovieOp(movies[i], PartOf(movies, i), ed)
  <2> HIDE DEF movies
  <2>1. m = [i \in DOMAIN movies |-> m[i]]
    BY DEF _build_movie_ops
  <2>2. \A i \in DOMAIN movies : m[i] = MovieOp(movies[i], PartOf(movies, i), ed)
    BY DEF _build_movie_ops, MovieOp, PartOf, Parts
  <2> HIDE DEF m
  <2> QED BY <1>1, <2>1, <2>2, ListOver
<1>4. IsList(t) /\ DOMAIN t = DOMAIN placed /\ \A i \in DOMAIN placed : t[i] = ShowOp(placed[i], up)
  <2>1. t = [i \in DOMAIN placed |-> ShowOp(placed[i], up)]
    <3> HIDE DEF shows
    <3> QED BY DEF _build_tv_ops, ShowOp
  <2> HIDE DEF t, placed
  <2>2. t = [i \in DOMAIN placed |-> t[i]]
    BY <2>1
  <2> QED BY <1>2, <2>1, <2>2, ListOver
<1>5. Made(pairs, up, ed) = m \o t
  BY DEF Made
<1>6. IsList(m \o t) /\ ToSet(m \o t) = ToSet(m) \cup ToSet(t)
  <2> HIDE DEF m, t
  <2> QED BY <1>3, <1>4, ConcatList
<1>7. \A op : op \in ToSet(m) <=> \E x \in ToSet(pairs) : MadeOfMovie(pairs, ed, x, op)
  <2>1. \A op : op \in ToSet(m) <=> \E i \in DOMAIN movies : op = m[i]
    <3> HIDE DEF m, movies
    <3> QED BY <1>3 DEF ToSet
  <2>2. \A i \in DOMAIN movies : movies[i] \in ToSet(pairs)
    <3> HIDE DEF movies
    <3> QED BY <1>1, ListHas
  <2> HIDE DEF m
  <2> QED BY <1>3, <2>1, <2>2 DEF MadeOfMovie
<1>8. \A op : op \in ToSet(t) <=> \E x \in ToSet(pairs) : /\ x[2] # None /\ x[1].kind = "tv"
                                                           /\ HasIndices(x[1], x[2], up) /\ op = ShowOp(x, up)
  <2>1. \A op : op \in ToSet(t) <=> \E i \in DOMAIN placed : op = t[i]
    <3> HIDE DEF t, placed
    <3> QED BY <1>4 DEF ToSet
  <2>2. \A x : x \in ToSet(placed) <=> \E i \in DOMAIN placed : x = placed[i]
    <3> HIDE DEF placed
    <3> QED BY DEF ToSet
  <2> HIDE DEF t, placed, shows
  <2> QED BY <1>1, <1>2, <1>4, <2>1, <2>2
<1> HIDE DEF m, t
<1> QED BY <1>5, <1>6, <1>7, <1>8

Unresolved(pairs, s) == \E x \in ToSet(pairs) : x[2] = None /\ s = <<x[1].file, "unresolved">>

\* Every op made is in the plan or in its collisions, and no more are.
LEMMA PlanIs ==
  ASSUME NEW pairs, IsList(pairs), NEW skipped, IsList(skipped), NEW up, NEW ed, NEW pl,
         pl = build_plan_from_pairs(pairs, skipped, up, ed)
  PROVE  /\ IsList(pl.ops)
         /\ \A op : op \in ToSet(Made(pairs, up, ed)) <=> op \in ToSet(pl.ops) \/ op \in ToSet(pl.collisions)
         /\ \A op : ~(op \in ToSet(pl.ops) /\ op \in ToSet(pl.collisions))
         /\ \A s : s \in ToSet(pl.skipped) <=> s \in ToSet(skipped) \/ Unresolved(pairs, s)
<1> DEFINE d == detect_collisions(Made(pairs, up, ed))
           unresolved == Kept(pairs, {i \in DOMAIN pairs : pairs[i][2] = None})
           u == [i \in DOMAIN unresolved |-> <<unresolved[i][1].file, "unresolved">>]
<1>1. pl = [ops |-> d.ops, collisions |-> d.collisions, skipped |-> skipped \o u]
  BY DEF build_plan_from_pairs, Made, Of
<1>2. IsList(unresolved) /\ ToSet(unresolved) = {y \in ToSet(pairs) : y[2] = None}
  <2> DEFINE places == {i \in DOMAIN pairs : pairs[i][2] = None}
  <2>1. IsList(unresolved) /\ ToSet(unresolved) = {pairs[i] : i \in places \cap DOMAIN pairs}
    BY KeptList
  <2> QED BY <2>1 DEF ToSet
<1>3. IsList(u) /\ ToSet(u) = {<<x[1].file, "unresolved">> : x \in ToSet(unresolved)}
  <2> HIDE DEF unresolved
  <2>1. u = [i \in DOMAIN unresolved |-> u[i]] /\ DOMAIN u = DOMAIN unresolved
    OBVIOUS
  <2>2. ToSet(u) = {<<x[1].file, "unresolved">> : x \in ToSet(unresolved)}
    BY DEF ToSet
  <2> HIDE DEF u
  <2> QED BY <1>2, <2>1, <2>2, ListOver
<1>4. /\ IsList(d.ops)
      /\ ToSet(d.ops) \cup ToSet(d.collisions) = ToSet(Made(pairs, up, ed))
      /\ ToSet(d.ops) \cap ToSet(d.collisions) = {}
  BY MadeIs, Divided
<1> HIDE DEF d, u, unresolved
<1>5. ToSet(skipped \o u) = ToSet(skipped) \cup ToSet(u)
  BY <1>3, ConcatList
<1>6. \A s : s \in ToSet(u) <=> Unresolved(pairs, s)
  BY <1>2, <1>3 DEF Unresolved
<1>7. ToSet(pl.skipped) = ToSet(skipped) \cup ToSet(u)
  BY <1>1, <1>5
<1>8. \A s : s \in ToSet(pl.skipped) <=> s \in ToSet(skipped) \/ Unresolved(pairs, s)
  BY <1>6, <1>7
<1>9. pl.ops = d.ops /\ pl.collisions = d.collisions
  BY <1>1
<1>10. /\ \A op : op \in ToSet(Made(pairs, up, ed)) <=> op \in ToSet(pl.ops) \/ op \in ToSet(pl.collisions)
       /\ \A op : ~(op \in ToSet(pl.ops) /\ op \in ToSet(pl.collisions))
  BY <1>4, <1>9
<1> QED BY <1>4, <1>8, <1>9, <1>10

\* No title of a show or a movie has an S01E02 in it.
Unmarked(title) == ~HasKind(title, "se")
TitlesUnmarked ==
  /\ \A r \in ToSet(Catalogue) \cup Picks : Unmarked(r.title)
  /\ \A o \in OmdbEntries : Unmarked(o.title) /\ (o.tmdb # None => Unmarked(o.tmdb.title))

\* What a row can be planned with.
Known(c) ==
  c # None => /\ IsName(c.title) /\ (TitlesUnmarked => Unmarked(c.title))
              /\ c.eps = <<>> \/ \E key \in DOMAIN Episodes : c.eps = Episodes[key]

LEMMA OffersKnown == \A c : InCatalogue(c) => Known(c)
<1> SUFFICES ASSUME NEW c, InCatalogue(c) PROVE Known(c)
  OBVIOUS
<1>1. PICK r \in ToSet(Catalogue) : c = ToCandidate(r, c.conf)
  BY DEF InCatalogue
<1>2. PICK conf : c = ToCandidate(r, conf)
  BY <1>1
<1>3. c.title = r.title /\ c.eps = <<>>
  BY <1>2 DEF ToCandidate
<1> QED BY <1>3, CatalogueAssumption DEF Known, TitlesUnmarked

LEMMA ResolverKnown == \A p : Resolver(p) = Raised \/ Known(Resolver(p))
<1> SUFFICES ASSUME NEW p PROVE Resolver(p) = Raised \/ Known(Resolver(p))
  OBVIOUS
<1> DEFINE pooled == search_pooled(p.kind, p.title, p.year)
           hits == {o \in OmdbEntries : o.query = p.title /\ p.year \in {None, o.year}}
           found == _imdb_fallback(p.kind, p.title, p.year, scene.omdb)
<1>1. Known(found)
  <2>1. CASE ~scene.omdb \/ hits = {}
    BY <2>1 DEF _imdb_fallback, Known
  <2>2. CASE scene.omdb /\ hits # {}
    <3> DEFINE o == CHOOSE x \in hits : TRUE
    <3>1. o \in OmdbEntries
      BY <2>2
    <3>2. found = IF o.tmdb # None /\ o.tmdb.kind = p.kind THEN ToCandidate(o.tmdb, 700)
                  ELSE [anchor |-> "imdb", id |-> o.id, kind |-> p.kind, title |-> o.title, year |-> o.year,
                        conf |-> 550, eps |-> <<>>]
      BY <2>2 DEF _imdb_fallback
    <3> HIDE DEF o, found
    <3>3. CASE o.tmdb # None /\ o.tmdb.kind = p.kind
      <4>1. found.title = o.tmdb.title /\ found.eps = <<>>
        BY <3>2, <3>3 DEF ToCandidate
      <4> QED BY <3>1, <3>3, <4>1, OmdbAssumption DEF Known, TitlesUnmarked
    <3>4. CASE ~(o.tmdb # None /\ o.tmdb.kind = p.kind)
      <4>1. found.title = o.title /\ found.eps = <<>>
        BY <3>2, <3>4
      <4> QED BY <3>1, <4>1, OmdbAssumption DEF Known, TitlesUnmarked
    <3> QED BY <3>3, <3>4
  <2> QED BY <2>1, <2>2
<1>2. pooled # <<>> => Known(pooled[1])
  <2>1. IsList(pooled) /\ \A c \in ToSet(pooled) : InCatalogue(c)
    BY SearchOffers
  <2> HIDE DEF pooled
  <2>2. pooled # <<>> => 1 \in DOMAIN pooled
    BY <2>1, ListHas
  <2> QED BY <2>1, <2>2, ListHas, OffersKnown
<1>3. resolve(p.kind, p.title, p.year, scene.omdb) \in {found} \/ (pooled # <<>> /\ resolve(p.kind, p.title, p.year, scene.omdb) = pooled[1])
  <2> HIDE DEF pooled, found
  <2> QED BY DEF resolve, HeadOr, pooled, found
<1>4. Known(None)
  BY DEF Known
<1>5. Resolver(p) \in {None, Raised, resolve(p.kind, p.title, p.year, scene.omdb)}
  BY DEF Resolver
<1> HIDE DEF found, pooled
<1> QED BY <1>1, <1>2, <1>3, <1>4, <1>5

LEMMA AnswerKnown == \A c \in Picks : \A p : Known(Answer(c, p))
<1> SUFFICES ASSUME NEW c \in Picks, NEW p PROVE Known(Answer(c, p))
  OBVIOUS
<1>1. Known(c) /\ Known(None)
  BY PicksAssumption DEF Known, TitlesUnmarked
<1>2. Answer(c, p) = c \/ Answer(c, p) = None \/ (Answer(c, p) = Resolver(p) /\ Resolver(p) # Raised)
  BY DEF Answer
<1>3. Resolver(p) = Raised \/ Known(Resolver(p))
  BY ResolverKnown
<1> HIDE DEF Known
<1> QED BY <1>1, <1>2, <1>3

\* A plan as the planner is handed it: each video with the one answer there
\* is for it, or among the skipped for the one reason there is.
Asks(pairs, skipped) ==
  /\ IsList(pairs) /\ IsList(skipped)
  /\ \A x \in ToSet(pairs) : x[1] \in ToSet(Rows) /\ x[1].kind # "unknown" /\ Known(x[2])
  /\ \A x, y \in ToSet(pairs) : x[1] = y[1] => x = y
  /\ \A p \in ToSet(Rows) :
        p.kind # "unknown" =>
           \/ /\ \E x \in ToSet(pairs) : x[1] = p
              /\ \A s \in ToSet(skipped) : s[1] # p.file
           \/ /\ \A x \in ToSet(pairs) : x[1] # p
              /\ \E s \in ToSet(skipped) : s[1] = p.file
              /\ \A s, z \in ToSet(skipped) : s[1] = p.file /\ z[1] = p.file => s = z

LEMMA MediaRows ==
  ASSUME IsList(tree.files)
  PROVE  /\ IsList(Media(Rows))
         /\ ToSet(Media(Rows)) = {p \in ToSet(Rows) : p.kind # "unknown"}
<1> DEFINE places == {i \in DOMAIN Rows : Rows[i].skip = None /\ Rows[i].kind # "unknown"}
<1>1. IsList(Rows)
  BY RowsAre
<1>2. IsList(Media(Rows)) /\ ToSet(Media(Rows)) = {Rows[i] : i \in places \cap DOMAIN Rows}
  BY <1>1, KeptList DEF Media
<1>3. \A p \in ToSet(Rows) : p.kind # "unknown" => p.skip = None
  BY RowsAre, RowIs
<1> QED BY <1>1, <1>2, <1>3, ListHas

LEMMA PickedAsks ==
  ASSUME IsList(tree.files), NEW c \in Picks
  PROVE  Asks([i \in DOMAIN Media(Rows) |-> <<Media(Rows)[i], Answer(c, Media(Rows)[i])>>], <<>>)
<1> DEFINE media == Media(Rows)
           pairs == [i \in DOMAIN media |-> <<media[i], Answer(c, media[i])>>]
<1>1. IsList(media) /\ ToSet(media) = {p \in ToSet(Rows) : p.kind # "unknown"}
  BY MediaRows
<1> HIDE DEF media
<1>2. pairs = [i \in DOMAIN media |-> pairs[i]]
  OBVIOUS
<1>3. ToSet(pairs) = {<<p, Answer(c, p)>> : p \in ToSet(media)}
  BY DEF ToSet
<1> HIDE DEF pairs
<1>4. IsList(pairs)
  BY <1>1, <1>2, ListOver
<1>5. IsList(<<>>) /\ ToSet(<<>>) = {}
  BY EmptyList
<1>6. \A x \in ToSet(pairs) : x[1] \in ToSet(Rows) /\ x[1].kind # "unknown" /\ Known(x[2])
  BY <1>1, <1>3, AnswerKnown
<1>7. Asks(pairs, <<>>)
  <2>1. \A x, y \in ToSet(pairs) : x[1] = y[1] => x = y
    <3> SUFFICES ASSUME NEW x \in ToSet(pairs), NEW y \in ToSet(pairs), x[1] = y[1] PROVE x = y
      OBVIOUS
    <3>1. PICK p \in ToSet(media) : x = <<p, Answer(c, p)>>
      BY <1>3
    <3>2. PICK q \in ToSet(media) : y = <<q, Answer(c, q)>>
      BY <1>3
    <3>3. p = q
      BY <3>1, <3>2
    <3> QED BY <3>1, <3>2, <3>3
  <2>2. ASSUME NEW p \in ToSet(Rows), p.kind # "unknown"
        PROVE  \E x \in ToSet(pairs) : x[1] = p
    <3>1. PICK a : a = Answer(c, p)
      OBVIOUS
    <3>2. <<p, a>> \in ToSet(pairs)
      BY <1>1, <1>3, <2>2, <3>1
    <3> QED BY <3>2
  <2> QED BY <1>4, <1>5, <1>6, <2>1, <2>2 DEF Asks
<1> QED BY <1>7 DEF pairs, media

\* What build_plan hands on, and what it puts aside.
Answered == [i \in DOMAIN Media(Rows) |-> <<Media(Rows)[i], Resolver(Media(Rows)[i])>>]
Refused == Kept(Rows, {i \in DOMAIN Rows : Rows[i].skip # None})
Failed == Kept(Answered, {i \in DOMAIN Answered : Answered[i][2] = Raised})
Usable == Kept(Answered, {i \in DOMAIN Answered : Answered[i][2] # Raised})
PutAside == [i \in DOMAIN Refused |-> <<Refused[i].file, Refused[i].skip>>]
            \o [i \in DOMAIN Failed |-> <<Failed[i][1].file, "resolve_error">>]

LEMMA BuiltIs ==
  build_plan(Rows, Resolver, Up, scene.editions) = build_plan_from_pairs(Usable, PutAside, Up, scene.editions)
BY DEF build_plan, Planned, Answered, Refused, Failed, Usable, PutAside

LEMMA BuiltAsks ==
  ASSUME IsList(tree.files)
  PROVE  Asks(Usable, PutAside)
<1> DEFINE media == Media(Rows)
<1>1. IsList(media) /\ ToSet(media) = {p \in ToSet(Rows) : p.kind # "unknown"}
  BY MediaRows
<1>2. IsList(Answered) /\ ToSet(Answered) = {<<p, Resolver(p)>> : p \in ToSet(media)}
  <2>1. Answered = [i \in DOMAIN media |-> <<media[i], Resolver(media[i])>>]
    BY DEF Answered
  <2> HIDE DEF media
  <2>2. Answered = [i \in DOMAIN media |-> Answered[i]]
    BY <2>1
  <2>3. ToSet(Answered) = {<<p, Resolver(p)>> : p \in ToSet(media)}
    BY <2>1 DEF ToSet
  <2> QED BY <1>1, <2>2, <2>3, ListOver
<1>3. IsList(Usable) /\ ToSet(Usable) = {x \in ToSet(Answered) : x[2] # Raised}
  <2> DEFINE places == {i \in DOMAIN Answered : Answered[i][2] # Raised}
  <2>1. IsList(Usable) /\ ToSet(Usable) = {Answered[i] : i \in places \cap DOMAIN Answered}
    BY <1>2, KeptList DEF Usable
  <2> QED BY <2>1 DEF ToSet
<1>4. IsList(Failed) /\ ToSet(Failed) = {x \in ToSet(Answered) : x[2] = Raised}
  <2> DEFINE places == {i \in DOMAIN Answered : Answered[i][2] = Raised}
  <2>1. IsList(Failed) /\ ToSet(Failed) = {Answered[i] : i \in places \cap DOMAIN Answered}
    BY <1>2, KeptList DEF Failed
  <2> QED BY <2>1 DEF ToSet
<1>5. IsList(Refused) /\ ToSet(Refused) = {p \in ToSet(Rows) : p.skip # None}
  <2> DEFINE places == {i \in DOMAIN Rows : Rows[i].skip # None}
  <2>1. IsList(Rows)
    BY RowsAre
  <2>2. IsList(Refused) /\ ToSet(Refused) = {Rows[i] : i \in places \cap DOMAIN Rows}
    BY <2>1, KeptList DEF Refused
  <2> QED BY <2>2 DEF ToSet
<1> DEFINE no == [i \in DOMAIN Refused |-> <<Refused[i].file, Refused[i].skip>>]
           bad == [i \in DOMAIN Failed |-> <<Failed[i][1].file, "resolve_error">>]
<1>6. IsList(no) /\ ToSet(no) = {<<p.file, p.skip>> : p \in ToSet(Refused)}
  <2>1. no = [i \in DOMAIN Refused |-> no[i]] /\ ToSet(no) = {<<p.file, p.skip>> : p \in ToSet(Refused)}
    BY DEF ToSet
  <2> HIDE DEF no
  <2> QED BY <1>5, <2>1, ListOver
<1>7. IsList(bad) /\ ToSet(bad) = {<<x[1].file, "resolve_error">> : x \in ToSet(Failed)}
  <2>1. bad = [i \in DOMAIN Failed |-> bad[i]] /\ ToSet(bad) = {<<x[1].file, "resolve_error">> : x \in ToSet(Failed)}
    BY DEF ToSet
  <2> HIDE DEF bad
  <2> QED BY <1>4, <2>1, ListOver
<1>8. IsList(PutAside) /\ ToSet(PutAside) = ToSet(no) \cup ToSet(bad)
  <2>1. PutAside = no \o bad
    BY DEF PutAside
  <2> HIDE DEF no, bad
  <2> QED BY <1>6, <1>7, <2>1, ConcatList
<1> HIDE DEF no, bad, media
<1>9. \A p, q \in ToSet(Rows) : p.file = q.file => p = q
  BY RowsAre
<1>10. \A p \in ToSet(Rows) : p.kind # "unknown" => p.skip = None
  BY RowsAre, RowIs
<1>11. \A x \in ToSet(Usable) : x[1] \in ToSet(Rows) /\ x[1].kind # "unknown" /\ Known(x[2])
  <2> SUFFICES ASSUME NEW x \in ToSet(Usable) PROVE x[1] \in ToSet(Rows) /\ x[1].kind # "unknown" /\ Known(x[2])
    OBVIOUS
  <2>1. PICK p \in ToSet(media) : x = <<p, Resolver(p)>> /\ Resolver(p) # Raised
    BY <1>2, <1>3
  <2> QED BY <1>1, <2>1, ResolverKnown
<1>12. \A x, y \in ToSet(Usable) : x[1] = y[1] => x = y
  BY <1>2, <1>3
<1>13. \A s \in ToSet(no) : \A p \in ToSet(Rows) : p.kind # "unknown" => s[1] # p.file
  BY <1>5, <1>6, <1>9, <1>10
<1>14. ASSUME NEW p \in ToSet(Rows), p.kind # "unknown"
       PROVE  \/ /\ \E x \in ToSet(Usable) : x[1] = p
                 /\ \A s \in ToSet(PutAside) : s[1] # p.file
              \/ /\ \A x \in ToSet(Usable) : x[1] # p
                 /\ \E s \in ToSet(PutAside) : s[1] = p.file
                 /\ \A s, z \in ToSet(PutAside) : s[1] = p.file /\ z[1] = p.file => s = z
  <2>1. p \in ToSet(media)
    BY <1>1, <1>14
  <2>2. \A x \in ToSet(Failed) : x[1] \in ToSet(Rows) /\ x = <<x[1], Resolver(x[1])>> /\ Resolver(x[1]) = Raised
    BY <1>1, <1>2, <1>4
  <2>3. CASE Resolver(p) # Raised
    <3>1. \E x \in ToSet(Usable) : x[1] = p
      <4>1. PICK a : a = Resolver(p)
        OBVIOUS
      <4>2. <<p, a>> \in ToSet(Usable)
        BY <1>2, <1>3, <2>1, <2>3, <4>1
      <4> QED BY <4>2
    <3>2. \A s \in ToSet(bad) : s[1] # p.file
      BY <1>7, <1>9, <2>2, <2>3
    <3> QED BY <1>8, <1>13, <1>14, <3>1, <3>2
  <2>4. CASE Resolver(p) = Raised
    <3>1. \A x \in ToSet(Usable) : x[1] # p
      BY <1>2, <1>3, <2>4
    <3>2. <<p.file, "resolve_error">> \in ToSet(bad)
      <4>1. PICK a : a = Resolver(p)
        OBVIOUS
      <4>2. <<p, a>> \in ToSet(Failed)
        BY <1>2, <1>4, <2>1, <2>4, <4>1
      <4> QED BY <1>7, <4>2
    <3>3. \A s \in ToSet(bad) : s[1] = p.file => s = <<p.file, "resolve_error">>
      BY <1>7
    <3>4. \A s \in ToSet(PutAside) : s[1] = p.file => s = <<p.file, "resolve_error">>
      BY <1>8, <1>13, <1>14, <3>3
    <3>5. \E s \in ToSet(PutAside) : s[1] = p.file
      BY <1>8, <3>2
    <3> QED BY <3>1, <3>4, <3>5
  <2> QED BY <2>3, <2>4
<1> QED BY <1>3, <1>8, <1>11, <1>12, <1>14 DEF Asks

\* Every plan is made so.
LEMMA PlanAsks ==
  ASSUME IsList(tree.files), PlanInv, plan # None
  PROVE  \E pairs, skipped : Asks(pairs, skipped) /\ plan = build_plan_from_pairs(pairs, skipped, Up, scene.editions)
<1>1. CASE plan = build_plan(Rows, Resolver, Up, scene.editions)
  BY <1>1, BuiltIs, BuiltAsks
<1>2. CASE \E c \in Picks : plan = PickedPlan(c)
  <2>1. PICK c \in Picks : plan = PickedPlan(c)
    BY <1>2
  <2> DEFINE pairs == [i \in DOMAIN Media(Rows) |-> <<Media(Rows)[i], Answer(c, Media(Rows)[i])>>]
  <2>2. Asks(pairs, <<>>)
    BY PickedAsks
  <2>3. plan = build_plan_from_pairs(pairs, <<>>, Up, scene.editions)
    BY <2>1 DEF PickedPlan
  <2> HIDE DEF pairs
  <2> QED BY <2>2, <2>3
<1> QED BY <1>1, <1>2 DEF PlanInv

-----------------------------------------------------------------------------
(* Episodes                                                                *)

\* What is matched has the numbers of the name, or a title like its title.
LEMMA Matches ==
  ASSUME NEW p, NEW eps, IsList(eps), NEW e, e = Matched(p, eps)
  PROVE  \/ e \in ToSet(eps) /\ HasNumbers(p) /\ At(e, p)
         \/ /\ e \in ToSet(eps) /\ p.eptitle # <<>>
            /\ token_set_ratio(p.eptitle, Title(e)) >= MIN_TITLE_SCORE_FOR_MATCH
         \/ HasNumbers(p) /\ e = Synthetic(p)
         \/ ~HasNumbers(p) /\ e = None
<1> DEFINE score(x) == IF Title(x) = <<>> THEN 0 ELSE token_set_ratio(p.eptitle, Title(x))
           scores == [x \in ToSet(eps) |-> score(x)]
           order == ByScore(eps, scores)
           scored == [i \in DOMAIN order |-> [ep |-> order[i], score |-> score(order[i])]]
           direct == Direct(p, eps)
           near == NearTop(p, scored)
           hinted == Kept(near, {i \in DOMAIN near : HasNumbers(p) /\ At(near[i].ep, p)})
<1>1. e = Pick(p, direct, near)
  BY DEF Matched, _score_episodes
<1>2. IsList(direct) /\ \A x \in ToSet(direct) : x \in ToSet(eps) /\ HasNumbers(p) /\ At(x, p)
  <2> DEFINE fits(x) == /\ HasNumbers(p) /\ At(x, p)
                        /\ p.eptitle = <<>> \/ partial_ratio(p.eptitle, Title(x)) >= SE_TITLE_CONSISTENCY_THRESHOLD
             places == {i \in DOMAIN eps : fits(eps[i])}
  <2>1. IsList(direct) /\ ToSet(direct) = {eps[i] : i \in places \cap DOMAIN eps}
    BY KeptList DEF Direct
  <2> HIDE DEF direct
  <2> QED BY <2>1 DEF ToSet
<1>3. IsList(order) /\ ToSet(order) = ToSet(eps)
  <2>1. \A x : score(x) \in Int
    <3> SUFFICES ASSUME NEW x PROVE score(x) \in Int
      OBVIOUS
    <3>1. PICK y : y = Title(x)
      OBVIOUS
    <3>2. token_set_ratio(p.eptitle, y) \in 0 .. 100
      BY Likes
    <3>3. PICK z \in 0 .. 100 : z = token_set_ratio(p.eptitle, y)
      BY <3>2
    <3>4. score(x) = IF y = <<>> THEN 0 ELSE z
      BY <3>1, <3>3
    <3> HIDE DEF score
    <3> QED BY <3>4
  <2>2. \A x \in ToSet(eps) : scores[x] \in Int
    <3> HIDE DEF score
    <3> QED BY <2>1
  <2> HIDE DEF scores
  <2> QED BY <2>2, ByScoreIs
<1>4. /\ IsList(scored) /\ DOMAIN scored = DOMAIN order
      /\ \A i \in DOMAIN scored : /\ scored[i].ep \in ToSet(eps) /\ scored[i].score = score(scored[i].ep)
                                  /\ scored[i].score \in Int
  <2> HIDE DEF order
  <2>1. scored = [i \in DOMAIN order |-> scored[i]]
    OBVIOUS
  <2>2. \A i \in DOMAIN order : scored[i].ep = order[i] /\ scored[i].score = score(order[i])
    OBVIOUS
  <2>3. \A x : score(x) \in Int
    <3> SUFFICES ASSUME NEW x PROVE score(x) \in Int
      OBVIOUS
    <3>1. PICK y : y = Title(x)
      OBVIOUS
    <3>2. token_set_ratio(p.eptitle, y) \in 0 .. 100
      BY Likes
    <3>3. PICK z \in 0 .. 100 : z = token_set_ratio(p.eptitle, y)
      BY <3>2
    <3>4. score(x) = IF y = <<>> THEN 0 ELSE z
      BY <3>1, <3>3
    <3> HIDE DEF score
    <3> QED BY <3>4
  <2> HIDE DEF scored, score
  <2> QED BY <1>3, <2>1, <2>2, <2>3, ListOver, ListHas
<1> HIDE DEF order, scored, score, direct
<1>5. near = <<>> \/ /\ p.eptitle # <<>> /\ scored # <<>> /\ scored[1].score >= MIN_TITLE_SCORE_FOR_MATCH
                     /\ near = Kept(scored, {i \in DOMAIN scored : scored[1].score - scored[i].score <= TITLE_TIEBREAK_THRESHOLD})
  <2>1. CASE p.eptitle = <<>> \/ scored = <<>> \/ scored[1].score < MIN_TITLE_SCORE_FOR_MATCH
    BY <2>1 DEF NearTop
  <2>2. CASE ~(p.eptitle = <<>> \/ scored = <<>> \/ scored[1].score < MIN_TITLE_SCORE_FOR_MATCH)
    <3>1. 1 \in DOMAIN scored
      BY <1>4, <2>2, ListHas
    <3>2. scored[1].score >= MIN_TITLE_SCORE_FOR_MATCH
      BY <1>4, <2>2, <3>1 DEF MIN_TITLE_SCORE_FOR_MATCH
    <3> QED BY <2>2, <3>2 DEF NearTop
  <2> QED BY <2>1, <2>2
<1>6. near # <<>> => /\ p.eptitle # <<>> /\ IsList(near) /\ ToSet(near) \subseteq ToSet(scored)
                     /\ near[1] = scored[1] /\ scored[1] \in ToSet(scored)
                     /\ scored[1].score >= MIN_TITLE_SCORE_FOR_MATCH
  <2> DEFINE places == {i \in DOMAIN scored : scored[1].score - scored[i].score <= TITLE_TIEBREAK_THRESHOLD}
  <2> SUFFICES ASSUME near # <<>>
               PROVE  /\ p.eptitle # <<>> /\ IsList(near) /\ ToSet(near) \subseteq ToSet(scored)
                      /\ near[1] = scored[1] /\ scored[1] \in ToSet(scored)
                      /\ scored[1].score >= MIN_TITLE_SCORE_FOR_MATCH
    OBVIOUS
  <2>1. near = Kept(scored, places) /\ scored # <<>>
    BY <1>5
  <2>2. 1 \in DOMAIN scored
    BY <1>4, <2>1, ListHas
  <2>3. 1 \in places
    BY <1>4, <2>2 DEF TITLE_TIEBREAK_THRESHOLD
  <2> HIDE DEF places, near
  <2> QED BY <1>4, <1>5, <2>1, <2>2, <2>3, KeptList, ListHas
<1>7. ASSUME near # <<>>, hinted # <<>>
      PROVE  hinted[1].ep \in ToSet(eps) /\ HasNumbers(p) /\ At(hinted[1].ep, p)
  <2> DEFINE places == {i \in DOMAIN near : HasNumbers(p) /\ At(near[i].ep, p)}
  <2> HIDE DEF near
  <2>1. IsList(hinted) /\ ToSet(hinted) = {near[i] : i \in places \cap DOMAIN near}
    BY <1>6, <1>7, KeptList
  <2> HIDE DEF hinted
  <2>2. hinted[1] \in ToSet(hinted)
    BY <1>7, <2>1, ListHas
  <2>3. PICK i \in places : hinted[1] = near[i]
    BY <2>1, <2>2
  <2>4. near[i] \in ToSet(scored)
    BY <1>6, <1>7, <2>3, ListHas
  <2>5. near[i].ep \in ToSet(eps)
    BY <1>4, <2>4, ListHas
  <2> QED BY <2>3, <2>5
<1>8. near # <<>> => /\ near[1].ep \in ToSet(eps) /\ p.eptitle # <<>>
                     /\ token_set_ratio(p.eptitle, Title(near[1].ep)) >= MIN_TITLE_SCORE_FOR_MATCH
  <2> HIDE DEF near
  <2> SUFFICES ASSUME near # <<>>
               PROVE  /\ near[1].ep \in ToSet(eps) /\ p.eptitle # <<>>
                      /\ token_set_ratio(p.eptitle, Title(near[1].ep)) >= MIN_TITLE_SCORE_FOR_MATCH
    OBVIOUS
  <2>1. PICK x : x = near[1].ep
    OBVIOUS
  <2>2. x \in ToSet(eps) /\ score(x) >= MIN_TITLE_SCORE_FOR_MATCH
    BY <1>4, <1>6, <2>1, ListHas
  <2>3. token_set_ratio(p.eptitle, Title(x)) >= MIN_TITLE_SCORE_FOR_MATCH
    BY <2>2 DEF score, MIN_TITLE_SCORE_FOR_MATCH
  <2> QED BY <1>6, <2>1, <2>2, <2>3
<1>9. direct # <<>> => direct[1] \in ToSet(direct)
  BY <1>2, ListHas
<1> HIDE DEF near, hinted
<1>10. e = IF direct # <<>> THEN direct[1]
           ELSE IF near # <<>> THEN (IF hinted # <<>> THEN hinted[1].ep ELSE near[1].ep)
           ELSE IF HasNumbers(p) THEN Synthetic(p) ELSE None
  BY <1>1 DEF Pick, OrElse, hinted
<1> HIDE DEF HasNumbers
<1> QED BY <1>2, <1>7, <1>8, <1>9, <1>10

\* The episodes a show is matched with.
LEMMA Fetched ==
  ASSUME NEW p, NEW c, Known(c), c # None, NEW up
  PROVE  /\ IsList(_ensure_episodes(p, c, up))
         /\ \A e \in ToSet(_ensure_episodes(p, c, up)) : \E key \in DOMAIN Episodes : e \in ToSet(Episodes[key])
<1>1. _ensure_episodes(p, c, up) = <<>> \/ \E key \in DOMAIN Episodes : _ensure_episodes(p, c, up) = Episodes[key]
  BY DEF _ensure_episodes, Known
<1>2. \A key \in DOMAIN Episodes : IsList(Episodes[key])
  BY EpisodesAssumption DEF IsList
<1> QED BY <1>1, <1>2, EmptyList

LEMMA EpisodeIsSome ==
  ASSUME NoneIsNoFunction
  PROVE  /\ \A key \in DOMAIN Episodes : \A e \in ToSet(Episodes[key]) : e # None
         /\ \A p : Synthetic(p) # None
<1>1. ASSUME NEW key \in DOMAIN Episodes, NEW e \in ToSet(Episodes[key]) PROVE e # None
  <2>1. e = [season |-> e.season, episode |-> e.episode, title |-> e.title]
    BY EpisodesAssumption
  <2>2. e = [x \in DOMAIN e |-> e[x]]
    BY <2>1
  <2> QED BY <2>2 DEF NoneIsNoFunction
<1>2. ASSUME NEW p PROVE Synthetic(p) # None
  <2>1. Synthetic(p) = [x \in DOMAIN Synthetic(p) |-> Synthetic(p)[x]]
    BY DEF Synthetic
  <2> QED BY <2>1 DEF NoneIsNoFunction
<1> QED BY <1>1, <1>2

LEMMA NumbersArePlaced ==
  ASSUME NoneIsNoFunction, NEW p, NEW c, Known(c), c # None, NEW up, ~HasIndices(p, c, up)
  PROVE  ~HasNumbers(p)
<1>1. match_episode(p, c, up) = None
  BY DEF HasIndices
<1>2. PICK eps : eps = _ensure_episodes(p, c, up)
  OBVIOUS
<1>3. None = Matched(p, eps)
  BY <1>1, <1>2 DEF match_episode
<1>4. IsList(eps) /\ None \notin ToSet(eps) /\ None # Synthetic(p)
  BY <1>2, Fetched, EpisodeIsSome
<1>5. \/ None \in ToSet(eps)
      \/ HasNumbers(p) /\ None = Synthetic(p)
      \/ ~HasNumbers(p)
  BY <1>3, <1>4, Matches
<1> QED BY <1>4, <1>5

-----------------------------------------------------------------------------
(* Every video once                                                        *)

\* An op is of a pair, and goes by its kind.
LEMMA OpOf ==
  ASSUME NEW pairs, NEW skipped, Asks(pairs, skipped), NEW ed,
         NEW op, op \in ToSet(Made(pairs, Up, ed))
  PROVE  \E x \in ToSet(pairs) :
            /\ x[1] \in ToSet(Rows) /\ op.source = x[1].file /\ op.kind = x[1].kind /\ x[2] # None /\ Known(x[2])
            /\ \/ x[1].kind = "movie" /\ MadeOfMovie(pairs, ed, x, op)
               \/ x[1].kind = "tv" /\ HasIndices(x[1], x[2], Up) /\ op = ShowOp(x, Up)
<1>1. IsList(pairs) /\ \A x \in ToSet(pairs) : x[1] \in ToSet(Rows) /\ Known(x[2])
  BY DEF Asks
<1>2. PICK x \in ToSet(pairs) :
         \/ MadeOfMovie(pairs, ed, x, op)
         \/ x[2] # None /\ x[1].kind = "tv" /\ HasIndices(x[1], x[2], Up) /\ op = ShowOp(x, Up)
  BY <1>1, MadeIs
<1>3. MadeOfMovie(pairs, ed, x, op) =>
         op.source = x[1].file /\ op.kind = x[1].kind /\ x[2] # None /\ x[1].kind = "movie"
  <2> SUFFICES ASSUME MadeOfMovie(pairs, ed, x, op)
               PROVE  op.source = x[1].file /\ op.kind = x[1].kind /\ x[2] # None /\ x[1].kind = "movie"
    OBVIOUS
  <2>1. PICK i \in DOMAIN Of(pairs, "movie") :
           x = Of(pairs, "movie")[i] /\ op = MovieOp(x, PartOf(Of(pairs, "movie"), i), ed)
    BY DEF MadeOfMovie
  <2>2. x[2] # None /\ x[1].kind = "movie"
    BY <1>1, <2>1, OfKind, ListHas
  <2>3. op.source = x[1].file /\ op.kind = x[1].kind
    BY <2>1 DEF MovieOp, Op
  <2> QED BY <2>2, <2>3
<1>4. op = ShowOp(x, Up) => op.source = x[1].file /\ op.kind = x[1].kind
  BY DEF ShowOp, TvOp, Op
<1> HIDE DEF Known
<1> QED BY <1>1, <1>2, <1>3, <1>4

\* All there is to know of the ops of a row is the row and its answer.
LEMMA OneOp ==
  ASSUME IsList(tree.files), NEW pairs, NEW skipped, Asks(pairs, skipped), NEW ed,
         NEW p \in ToSet(Rows), NEW op, op \in ToSet(Made(pairs, Up, ed)), op.source = p.file
  PROVE  \E x \in ToSet(pairs) :
            /\ x[1] = p /\ x[2] # None
            /\ \/ p.kind = "movie" /\ MadeOfMovie(pairs, ed, x, op)
               \/ p.kind = "tv" /\ HasIndices(x[1], x[2], Up) /\ op = ShowOp(x, Up)
<1>1. PICK x \in ToSet(pairs) :
         /\ x[1] \in ToSet(Rows) /\ op.source = x[1].file /\ x[2] # None
         /\ \/ x[1].kind = "movie" /\ MadeOfMovie(pairs, ed, x, op)
            \/ x[1].kind = "tv" /\ HasIndices(x[1], x[2], Up) /\ op = ShowOp(x, Up)
  BY OpOf
<1>2. x[1] = p
  BY <1>1, RowsAre
<1> QED BY <1>1, <1>2

LEMMA SameOp ==
  ASSUME NEW pairs, IsList(pairs), NEW ed, NEW x,
         NEW a, NEW b, MadeOfMovie(pairs, ed, x, a), MadeOfMovie(pairs, ed, x, b)
  PROVE  a = b
<1> DEFINE movies == Of(pairs, "movie")
           rows == [k \in DOMAIN movies |-> movies[k][1]]
           marked(p) == p.kind = "movie" /\ p.title # <<>> /\ p.part # None
           same(p, q) == p.title = q.title /\ p.year = q.year
<1>1. PICK i \in DOMAIN movies : x = movies[i] /\ a = MovieOp(x, PartOf(movies, i), ed)
  BY DEF MadeOfMovie
<1>2. PICK j \in DOMAIN movies : x = movies[j] /\ b = MovieOp(x, PartOf(movies, j), ed)
  BY DEF MadeOfMovie
<1>3. Parts(movies) = {k \in DOMAIN rows : marked(rows[k]) /\ \E l \in DOMAIN rows \ {k} : marked(rows[l]) /\ same(rows[k], rows[l])}
  BY DEF Parts, group_multi_part
<1>4. DOMAIN rows = DOMAIN movies /\ rows[i] = x[1] /\ rows[j] = x[1]
  <2> HIDE DEF movies
  <2> QED BY <1>1, <1>2
<1> HIDE DEF rows, movies
<1>5. i \in Parts(movies) <=> j \in Parts(movies)
  <2> HIDE DEF marked
  <2> QED BY <1>3, <1>4
<1>6. PartOf(movies, i) = PartOf(movies, j)
  BY <1>1, <1>2, <1>5 DEF PartOf
<1> QED BY <1>1, <1>2, <1>6

\* A video is in one of three places, in one way.
LEMMA VideosOnce ==
  ASSUME NoneIsNoFunction, IsList(tree.files), PlanInv
  PROVE  EveryVideoOnce
<1> SUFFICES ASSUME plan # None, NEW p \in ToSet(Rows), p.kind # "unknown"
             PROVE  LET ways == {<<"op", op>> : op \in {o \in Ops : o.source = p.file}}
                                \cup {<<"collision", op>> : op \in {o \in Blocked : o.source = p.file}}
                                \cup {<<"skipped", x>> : x \in {y \in ToSet(plan.skipped) : y[1] = p.file}}
                    IN \/ \E way \in ways : ways = {way}
                       \/ ways = {} /\ p.kind = "tv" /\ ~HasNumbers(p)
  BY DEF EveryVideoOnce
<1> DEFINE O == {o \in Ops : o.source = p.file}
           B == {o \in Blocked : o.source = p.file}
           K == {y \in ToSet(plan.skipped) : y[1] = p.file}
           ways == {<<"op", op>> : op \in O} \cup {<<"collision", op>> : op \in B} \cup {<<"skipped", x>> : x \in K}
<1>1. PICK pairs, skipped : Asks(pairs, skipped) /\ plan = build_plan_from_pairs(pairs, skipped, Up, scene.editions)
  BY PlanAsks
<1> DEFINE ed == scene.editions
           M == ToSet(Made(pairs, Up, ed))
<1>2. IsList(pairs) /\ IsList(skipped)
  BY <1>1 DEF Asks
<1>3. /\ Ops = ToSet(plan.ops) /\ Blocked = ToSet(plan.collisions)
      /\ Ops \cup Blocked = M /\ Ops \cap Blocked = {}
      /\ \A s : s \in ToSet(plan.skipped) <=> s \in ToSet(skipped) \/ Unresolved(pairs, s)
  <2>1. PICK pl : pl = plan
    OBVIOUS
  <2>2. pl = build_plan_from_pairs(pairs, skipped, Up, ed)
    BY <1>1, <2>1
  <2> HIDE DEF ed
  <2>3. /\ \A op : op \in M <=> op \in ToSet(pl.ops) \/ op \in ToSet(pl.collisions)
        /\ \A op : ~(op \in ToSet(pl.ops) /\ op \in ToSet(pl.collisions))
    BY <1>2, <2>2, PlanIs
  <2>4. \A s : s \in ToSet(pl.skipped) <=> s \in ToSet(skipped) \/ Unresolved(pairs, s)
    BY <1>2, <2>2, PlanIs
  <2> HIDE DEF M
  <2> QED BY <2>1, <2>3, <2>4 DEF Ops, Blocked
<1>4. \A op \in O \cup B : op \in M /\ op.source = p.file
  BY <1>3
<1>5. \A x, y \in ToSet(pairs) : x[1] = y[1] => x = y
  BY <1>1 DEF Asks
<1>6. \A x \in ToSet(pairs) : x[1] \in ToSet(Rows) /\ x[1].kind # "unknown" /\ Known(x[2])
  BY <1>1 DEF Asks
<1>7. \A s : Unresolved(pairs, s) /\ s[1] = p.file => s = <<p.file, "unresolved">> /\ \E x \in ToSet(pairs) : x[1] = p /\ x[2] = None
  BY <1>6, RowsAre DEF Unresolved
<1> HIDE DEF O, B, K, M
<1>13. \A w : w \in ways <=> \/ \E y \in O : w = <<"op", y>>
                             \/ \E y \in B : w = <<"collision", y>>
                             \/ \E y \in K : w = <<"skipped", y>>
  OBVIOUS
<1>8. \A op \in O \cup B :
        \E x \in ToSet(pairs) :
            /\ x[1] = p /\ x[2] # None
            /\ \/ p.kind = "movie" /\ MadeOfMovie(pairs, ed, x, op)
               \/ p.kind = "tv" /\ HasIndices(x[1], x[2], Up) /\ op = ShowOp(x, Up)
  BY <1>1, <1>4, OneOp DEF M
<1>9. \A a, b \in O \cup B : a = b
  <2> SUFFICES ASSUME NEW a \in O \cup B, NEW b \in O \cup B PROVE a = b
    OBVIOUS
  <2>1. PICK x \in ToSet(pairs) :
            /\ x[1] = p /\ x[2] # None
            /\ \/ p.kind = "movie" /\ MadeOfMovie(pairs, ed, x, a)
               \/ p.kind = "tv" /\ HasIndices(x[1], x[2], Up) /\ a = ShowOp(x, Up)
    BY <1>8
  <2>2. PICK y \in ToSet(pairs) :
            /\ y[1] = p /\ y[2] # None
            /\ \/ p.kind = "movie" /\ MadeOfMovie(pairs, ed, y, b)
               \/ p.kind = "tv" /\ HasIndices(y[1], y[2], Up) /\ b = ShowOp(y, Up)
    BY <1>8
  <2>3. x = y
    BY <1>5, <2>1, <2>2
  <2>4. "movie" # "tv"
    OBVIOUS
  <2> QED BY <1>2, <2>1, <2>2, <2>3, <2>4, SameOp
<1>10. O \cap B = {}
  BY <1>3 DEF O, B
<1>11. CASE \A x \in ToSet(pairs) : x[1] # p
  <2>1. /\ \E s \in ToSet(skipped) : s[1] = p.file
        /\ \A s, z \in ToSet(skipped) : s[1] = p.file /\ z[1] = p.file => s = z
    BY <1>1, <1>11 DEF Asks
  <2>2. O = {} /\ B = {}
    BY <1>8, <1>11
  <2>3. \A y : y \in K <=> y \in ToSet(skipped) /\ y[1] = p.file
    BY <1>3, <1>7, <1>11 DEF K
  <2>4. PICK s \in ToSet(skipped) : s[1] = p.file
    BY <2>1
  <2>5. K = {s}
    BY <2>1, <2>3, <2>4
  <2>6. \E way \in ways : ways = {way}
    <3> HIDE DEF ways
    <3>1. ways = {<<"skipped", s>>}
      BY <1>13, <2>2, <2>5
    <3> QED BY <3>1
  <2> QED BY <2>6 DEF O, B, K
<1>12. ASSUME NEW x \in ToSet(pairs), x[1] = p
       PROVE  \/ \E way \in ways : ways = {way}
              \/ ways = {} /\ p.kind = "tv" /\ ~HasNumbers(p)
  <2>1. \A s \in ToSet(skipped) : s[1] # p.file
    BY <1>1, <1>12 DEF Asks
  <2>2. \A y : y \in K <=> Unresolved(pairs, y) /\ y[1] = p.file
    BY <1>3, <2>1 DEF K
  <2>3. CASE x[2] = None
    <3>1. O = {} /\ B = {}
      BY <1>5, <1>8, <1>12, <2>3
    <3>2. Unresolved(pairs, <<p.file, "unresolved">>)
      BY <1>12, <2>3 DEF Unresolved
    <3>3. K = {<<p.file, "unresolved">>}
      <4>1. <<p.file, "unresolved">>[1] = p.file
        OBVIOUS
      <4> QED BY <1>7, <2>2, <3>2, <4>1
    <3>4. \E way \in ways : ways = {way}
      <4> HIDE DEF ways
      <4>1. PICK s : s = <<p.file, "unresolved">>
        OBVIOUS
      <4>2. ways = {<<"skipped", s>>}
        BY <1>13, <3>1, <3>3, <4>1
      <4> QED BY <4>2
    <3> QED BY <3>4
  <2>4. CASE x[2] # None
    <3>1. K = {}
      BY <1>5, <1>7, <1>12, <2>2, <2>4
    <3>2. ASSUME NEW op \in M, op.source = p.file PROVE \E way \in ways : ways = {way}
      <4>1. op \in O \cup B
        BY <1>3, <3>2 DEF O, B
      <4>2. (O = {op} /\ B = {}) \/ (O = {} /\ B = {op})
        BY <1>9, <1>10, <4>1
      <4> HIDE DEF ways
      <4>3. CASE O = {op} /\ B = {}
        <5>1. ways = {<<"op", op>>}
          BY <1>13, <3>1, <4>3
        <5> QED BY <5>1
      <4>4. CASE O = {} /\ B = {op}
        <5>1. ways = {<<"collision", op>>}
          BY <1>13, <3>1, <4>4
        <5> QED BY <5>1
      <4> QED BY <4>2, <4>3, <4>4
    <3>3. CASE p.kind = "movie"
      <4>1. x \in ToSet(Of(pairs, "movie")) /\ IsList(Of(pairs, "movie"))
        BY <1>2, <1>12, <2>4, <3>3, OfKind
      <4>2. PICK i \in DOMAIN Of(pairs, "movie") : x = Of(pairs, "movie")[i]
        BY <4>1, ListHas
      <4> DEFINE op == MovieOp(x, PartOf(Of(pairs, "movie"), i), ed)
      <4>3. MadeOfMovie(pairs, ed, x, op)
        BY <4>2 DEF MadeOfMovie
      <4>4. op.source = p.file
        BY <1>12 DEF MovieOp, Op
      <4> HIDE DEF op
      <4>5. op \in M
        BY <1>2, <4>3, MadeIs DEF M
      <4> QED BY <3>2, <4>4, <4>5
    <3>4. CASE p.kind = "tv" /\ HasIndices(p, x[2], Up)
      <4> DEFINE op == ShowOp(x, Up)
      <4>1. op.source = p.file
        BY <1>12 DEF ShowOp, TvOp, Op
      <4>2. op \in M
        BY <1>2, <1>12, <2>4, <3>4, MadeIs DEF M
      <4> HIDE DEF op
      <4> QED BY <3>2, <4>1, <4>2
    <3>5. CASE p.kind = "tv" /\ ~HasIndices(p, x[2], Up)
      <4>1. O = {} /\ B = {}
        <5>1. "movie" # "tv"
          OBVIOUS
        <5> QED BY <1>5, <1>8, <1>12, <3>5, <5>1
      <4>2. ways = {}
        BY <3>1, <4>1
      <4>3. ~HasNumbers(p)
        BY <1>6, <1>12, <2>4, <3>5, NumbersArePlaced
      <4> QED BY <3>5, <4>2, <4>3
    <3>6. p.kind \in {"movie", "tv"}
      BY RowsAre, RowIs
    <3> QED BY <3>3, <3>4, <3>5, <3>6
  <2> QED BY <2>3, <2>4
<1> QED BY <1>11, <1>12 DEF O, B, K

-----------------------------------------------------------------------------
(* Names                                                                   *)

LEMMA NameOver ==
  ASSUME NEW name
  PROVE  IsName(name) <=> \E S : name \in Seq(Seq(S))
<1>1. ASSUME IsName(name) PROVE \E S : name \in Seq(Seq(S))
  <2> DEFINE S == UNION {ToSet(part) : part \in ToSet(name)}
  <2>1. ToSet(name) \subseteq Seq(S)
    <3> SUFFICES ASSUME NEW part \in ToSet(name) PROVE part \in Seq(S)
      OBVIOUS
    <3>1. part \in Seq(ToSet(part)) /\ ToSet(part) \subseteq S
      BY <1>1 DEF IsName
    <3> HIDE DEF S
    <3> QED BY <3>1, SeqMonotonic
  <2> HIDE DEF S
  <2>2. name \in Seq(Seq(S))
    BY <1>1, <2>1, SeqMonotonic DEF IsName
  <2> QED BY <2>2
<1>2. ASSUME NEW S, name \in Seq(Seq(S)) PROVE IsName(name)
  <2>1. IsList(name) /\ ToSet(name) \subseteq Seq(S)
    BY <1>2, ListOf
  <2>2. \A part \in Seq(S) : part \in Seq(ToSet(part))
    BY ListOf DEF IsList
  <2> QED BY <2>1, <2>2 DEF IsName, IsList
<1> QED BY <1>1, <1>2

\* Two names are spelled with the atoms of both.
LEMMA NamesOver ==
  ASSUME NEW a, NEW b, IsName(a), IsName(b)
  PROVE  \E S : a \in Seq(Seq(S)) /\ b \in Seq(Seq(S))
<1>1. PICK S : a \in Seq(Seq(S))
  BY NameOver
<1>2. PICK T : b \in Seq(Seq(T))
  BY NameOver
<1> DEFINE U == S \cup T
<1>3. Seq(S) \subseteq Seq(U) /\ Seq(T) \subseteq Seq(U)
  BY SeqMonotonic
<1> HIDE DEF U
<1>4. a \in Seq(Seq(U)) /\ b \in Seq(Seq(U))
  BY <1>1, <1>2, <1>3, SeqMonotonic
<1> QED BY <1>4

LEMMA Greatest ==
  ASSUME NEW n \in Nat, NEW I \in SUBSET (1 .. n), I # {}
  PROVE  Max(I) \in I /\ \A i \in I : Max(I) >= i
<1> DEFINE T == {x \in 0 .. n : n - x \in I}
<1>1. \A i \in I : i \in Int /\ 1 <= i /\ i <= n
  OBVIOUS
<1>2. T \in SUBSET Nat /\ \A i \in I : n - i \in T
  BY <1>1
<1>3. T # {}
  BY <1>2
<1>4. PICK y \in T : \A z \in T : y <= z
  <2> HIDE DEF T
  <2> QED BY <1>2, <1>3, LeastNat
<1>5. PICK m \in I : y = n - m
  BY <1>1, <1>4
<1>6. ASSUME NEW i \in I PROVE m >= i
  <2>1. y <= n - i
    BY <1>2, <1>4
  <2>2. i \in Int /\ m \in Int
    BY <1>1
  <2> HIDE DEF T
  <2> QED BY <1>5, <2>1, <2>2
<1> QED BY <1>5, <1>6 DEF Max

\* A sequence is its front and its last element, its head and its tail.
LEMMA Ends ==
  ASSUME NEW S, NEW s \in Seq(S), s # <<>>
  PROVE  /\ Last(s) \in S /\ s[1] \in S /\ Front(s) \in Seq(S) /\ Tail(s) \in Seq(S)
         /\ s = Front(s) \o <<Last(s)>> /\ s = <<s[1]>> \o Tail(s)
<1> DEFINE n == Len(s)
           one == 1
<1>1. n \in Nat /\ n # 0
  BY EmptySeq
<1>2. one \in 1 .. Len(s) /\ n \in one .. Len(s)
  BY <1>1
<1>3. Last(s) \in S /\ s[1] \in S
  BY <1>1 DEF Last
<1>4. Tail(s) = SubSeq(s, one + 1, n) /\ Tail(s) \in Seq(S)
  BY TailIsSubSeq, HeadTailProperties
<1>5. Front(s) = SubSeq(s, one, n - 1) /\ Front(s) \in Seq(S)
  BY <1>1 DEF Front
<1>6. SubSeq(s, one, n) = s /\ s[n] = Last(s) /\ s[one] = s[1]
  BY SubSeqFull DEF Last
<1> HIDE DEF n, one
<1>7. SubSeq(s, one, n) = SubSeq(s, one, n - 1) \o <<s[n]>>
  BY <1>2, SubSeqRecursiveSecond
<1>8. SubSeq(s, one, n) = <<s[one]>> \o SubSeq(s, one + 1, n)
  BY <1>2, SubSeqRecursiveFirst
<1> QED BY <1>3, <1>4, <1>5, <1>6, <1>7, <1>8

LEMMA FlattenEmpty == FlattenSeq(<<>>) = <<>>
BY DEF FlattenSeq

LEMMA FlattenConcat ==
  ASSUME NEW S, NEW s \in Seq(Seq(S)), NEW t \in Seq(Seq(S))
  PROVE  FlattenSeq(s \o t) = FlattenSeq(s) \o FlattenSeq(t)
<1> DEFINE upto(k) == SubSeq(t, 1, k)
           P == {k \in Nat : k <= Len(t) => FlattenSeq(s \o upto(k)) = FlattenSeq(s) \o FlattenSeq(upto(k))}
<1>1. FlattenSeq(s) \in Seq(S)
  BY FlattenType
<1>2. 0 \in P
  <2>1. upto(0) = <<>>
    OBVIOUS
  <2>2. s \o <<>> = s /\ FlattenSeq(s) \o <<>> = FlattenSeq(s)
    BY <1>1, ConcatEmptySeq
  <2> HIDE DEF upto
  <2> QED BY <2>1, <2>2, FlattenEmpty
<1>3. ASSUME NEW k \in Nat, k \in P PROVE k + 1 \in P
  <2> SUFFICES ASSUME k + 1 <= Len(t)
               PROVE  FlattenSeq(s \o upto(k + 1)) = FlattenSeq(s) \o FlattenSeq(upto(k + 1))
    OBVIOUS
  <2>1. k + 1 \in 1 .. Len(t) /\ t[k + 1] \in Seq(S)
    OBVIOUS
  <2>2. upto(k) \in Seq(Seq(S)) /\ upto(k + 1) = Append(upto(k), t[k + 1])
    BY <2>1
  <2>3. FlattenSeq(s \o upto(k)) = FlattenSeq(s) \o FlattenSeq(upto(k))
    BY <1>3
  <2> HIDE DEF upto
  <2>4. s \o Append(upto(k), t[k + 1]) = Append(s \o upto(k), t[k + 1]) /\ s \o upto(k) \in Seq(Seq(S))
    BY <2>1, <2>2
  <2>5. FlattenSeq(s \o upto(k + 1)) = FlattenSeq(s \o upto(k)) \o t[k + 1]
    BY <2>1, <2>2, <2>4, FlattenAppend
  <2>6. FlattenSeq(upto(k + 1)) = FlattenSeq(upto(k)) \o t[k + 1] /\ FlattenSeq(upto(k)) \in Seq(S)
    BY <2>1, <2>2, FlattenAppend, FlattenType
  <2>7. PICK a \in Seq(S) : a = FlattenSeq(s)
    BY <1>1
  <2>8. PICK b \in Seq(S) : b = FlattenSeq(upto(k))
    BY <2>6
  <2>9. PICK c \in Seq(S) : c = t[k + 1]
    BY <2>1
  <2>10. (a \o b) \o c = a \o (b \o c)
    BY ConcatAssociative, SMTT(60)
  <2> QED BY <2>3, <2>5, <2>6, <2>7, <2>8, <2>9, <2>10
<1>4. Len(t) \in P
  <2>1. Len(t) \in Nat
    OBVIOUS
  <2> HIDE DEF P
  <2> QED BY <1>2, <1>3, <2>1, SetInduction
<1>5. upto(Len(t)) = t
  BY SubSeqFull
<1> HIDE DEF upto
<1> QED BY <1>4, <1>5

LEMMA FlattenOne ==
  ASSUME NEW S, NEW x \in Seq(S)
  PROVE  FlattenSeq(<<x>>) = x
<1>1. <<>> \in Seq(Seq(S)) /\ Append(<<>>, x) = <<x>>
  BY EmptySeq
<1>2. FlattenSeq(<<x>>) = FlattenSeq(<<>>) \o x
  BY <1>1, FlattenAppend
<1> QED BY <1>2, FlattenEmpty, ConcatEmptySeq

\* Gluing loses no atom and moves none.
LEMMA Glued ==
  ASSUME NEW a, NEW b, IsName(a), IsName(b)
  PROVE  IsName(Glue(a, b)) /\ Atoms(Glue(a, b)) = Atoms(a) \o Atoms(b)
<1>1. PICK S : a \in Seq(Seq(S)) /\ b \in Seq(Seq(S))
  BY NamesOver
<1>2. Atoms(a) \in Seq(S) /\ Atoms(b) \in Seq(S)
  BY <1>1, FlattenType DEF Atoms
<1>3. CASE a = <<>>
  <2>1. Atoms(a) = <<>>
    BY <1>3, FlattenEmpty DEF Atoms
  <2> QED BY <1>2, <1>3, <2>1, ConcatEmptySeq DEF Glue
<1>4. CASE a # <<>> /\ b = <<>>
  <2>1. Atoms(b) = <<>>
    BY <1>4, FlattenEmpty DEF Atoms
  <2> QED BY <1>2, <1>4, <2>1, ConcatEmptySeq DEF Glue
<1>5. CASE a # <<>> /\ b # <<>>
  <2> DEFINE x == Last(a)
             y == b[1]
             f == Front(a)
             t == Tail(b)
             mid == <<x \o y>>
  <2>1. Len(a) \in Nat /\ Len(b) \in Nat /\ Len(a) # 0 /\ Len(b) # 0
    BY <1>1, <1>5, EmptySeq
  <2>2. /\ x \in Seq(S) /\ y \in Seq(S) /\ f \in Seq(Seq(S)) /\ t \in Seq(Seq(S))
        /\ a = f \o <<x>> /\ b = <<y>> \o t
    <3>1. PICK T : T = Seq(S)
      OBVIOUS
    <3>2. a \in Seq(T) /\ b \in Seq(T)
      BY <1>1, <3>1
    <3> QED BY <1>5, <3>1, <3>2, Ends
  <2>3. Glue(a, b) = f \o mid \o t
    BY <1>5 DEF Glue
  <2> HIDE DEF x, y, f, t
  <2>4. /\ x \o y \in Seq(S) /\ mid \in Seq(Seq(S)) /\ <<x>> \in Seq(Seq(S)) /\ <<y>> \in Seq(Seq(S))
        /\ f \o mid \in Seq(Seq(S)) /\ (f \o mid) \o t \in Seq(Seq(S))
    BY <2>2
  <2>5. FlattenSeq((f \o mid) \o t) = (FlattenSeq(f) \o (x \o y)) \o FlattenSeq(t)
    <3>1. FlattenSeq((f \o mid) \o t) = FlattenSeq(f \o mid) \o FlattenSeq(t)
      <4> HIDE DEF mid
      <4> QED BY <2>2, <2>4, FlattenConcat
    <3>2. FlattenSeq(f \o mid) = FlattenSeq(f) \o FlattenSeq(mid)
      <4> HIDE DEF mid
      <4> QED BY <2>2, <2>4, FlattenConcat
    <3>3. FlattenSeq(mid) = x \o y
      BY <2>4, FlattenOne
    <3> QED BY <3>1, <3>2, <3>3
  <2>6. FlattenSeq(a) = FlattenSeq(f) \o x /\ FlattenSeq(b) = y \o FlattenSeq(t)
    <3>1. PICK u, v : u = <<x>> /\ v = <<y>>
      OBVIOUS
    <3>2. FlattenSeq(u) = x /\ FlattenSeq(v) = y
      BY <2>2, <3>1, FlattenOne
    <3>3. FlattenSeq(f \o u) = FlattenSeq(f) \o FlattenSeq(u)
      BY <2>2, <2>4, <3>1, FlattenConcat
    <3>4. FlattenSeq(v \o t) = FlattenSeq(v) \o FlattenSeq(t)
      BY <2>2, <2>4, <3>1, FlattenConcat
    <3> QED BY <2>2, <3>1, <3>2, <3>3, <3>4
  <2>7. FlattenSeq(f) \in Seq(S) /\ FlattenSeq(t) \in Seq(S)
    BY <2>2, FlattenType
  <2>8. (FlattenSeq(f) \o (x \o y)) \o FlattenSeq(t) = (FlattenSeq(f) \o x) \o (y \o FlattenSeq(t))
    <3>1. PICK g, h : g = FlattenSeq(f) /\ h = FlattenSeq(t)
      OBVIOUS
    <3>2. g \in Seq(S) /\ h \in Seq(S)
      BY <2>7, <3>1
    <3>3. g \o x \in Seq(S)
      BY <2>2, <3>2, ConcatProperties
    <3>4. g \o (x \o y) = (g \o x) \o y
      BY <2>2, <3>2, ConcatAssociative
    <3>5. ((g \o x) \o y) \o h = (g \o x) \o (y \o h)
      BY <2>2, <3>2, <3>3, ConcatAssociative
    <3> QED BY <3>1, <3>4, <3>5
  <2>9. IsName(Glue(a, b))
    BY <2>3, <2>4, NameOver
  <2> QED BY <2>3, <2>5, <2>6, <2>8, <2>9 DEF Atoms
<1> QED BY <1>3, <1>4, <1>5

LEMMA SegmentIs ==
  ASSUME NEW kind, NEW value
  PROVE  /\ IsName(Segment(kind, value))
         /\ Atoms(Segment(kind, value)) = IF value = None THEN <<>> ELSE <<[k |-> kind, v |-> value]>>
<1> DEFINE atom == [k |-> kind, v |-> value]
<1>1. PICK S : S = {atom}
  OBVIOUS
<1>2. CASE value = None
  <2>1. <<>> \in Seq(Seq(S))
    BY EmptySeq
  <2> QED BY <1>2, <2>1, NameOver, FlattenEmpty DEF Segment, Atoms
<1>3. CASE value # None
  <2>1. <<atom>> \in Seq(S) /\ <<<<atom>>>> \in Seq(Seq(S))
    BY <1>1
  <2>2. FlattenSeq(<<<<atom>>>>) = <<atom>>
    <3> HIDE DEF atom
    <3> QED BY <2>1, FlattenOne
  <2> QED BY <1>3, <2>1, <2>2, NameOver DEF Segment, Atoms
<1> QED BY <1>2, <1>3

\* Only empty parts at the end are cut off.
LEMMA Sanitized ==
  ASSUME NEW name, IsName(name)
  PROVE  /\ IsName(sanitize_component(name))
         /\ Atoms(name) # <<>> => Atoms(sanitize_component(name)) = Atoms(name)
<1> DEFINE I == {i \in 1 .. Len(name) : name[i] # <<>>}
           kept == IF I # {} THEN Max(I) ELSE 0
           upto(k) == SubSeq(name, 1, k)
           P == {k \in Nat : kept + k <= Len(name) => FlattenSeq(upto(kept + k)) = FlattenSeq(upto(kept))}
<1>1. PICK S : name \in Seq(Seq(S))
  BY NameOver
<1>2. Len(name) \in Nat /\ \A i \in 1 .. Len(name) : name[i] \in Seq(S)
  BY <1>1
<1>3. kept \in 0 .. Len(name) /\ \A i \in 1 .. Len(name) : i > kept => name[i] = <<>>
  <2>1. CASE I = {}
    BY <1>2, <2>1
  <2>2. CASE I # {}
    <3>5. Max(I) \in I /\ \A i \in I : Max(I) >= i
      <4>1. I \in SUBSET (1 .. Len(name))
        OBVIOUS
      <4> HIDE DEF I
      <4> QED BY <1>2, <2>2, <4>1, Greatest
    <3>6. kept = Max(I)
      BY <2>2
    <3> HIDE DEF kept
    <3>7. ASSUME NEW i \in 1 .. Len(name), i > kept PROVE name[i] = <<>>
      <4>1. kept \in Int /\ i \in Int
        BY <3>5, <3>6
      <4>2. i \notin I
        BY <3>5, <3>6, <3>7, <4>1
      <4> QED BY <3>7, <4>2
    <3> QED BY <1>2, <3>5, <3>6, <3>7
  <2> QED BY <2>1, <2>2
<1>4. sanitize_component(name) = IF kept = 0 THEN <<<<Word("_")>>>> ELSE upto(kept)
  BY DEF sanitize_component, SelectLastInSeq
<1> HIDE DEF kept
<1>5. \A k \in 0 .. Len(name) : upto(k) \in Seq(Seq(S))
  BY <1>1
<1>6. 0 \in P
  BY <1>3
<1>7. ASSUME NEW k \in Nat, k \in P PROVE k + 1 \in P
  <2> SUFFICES ASSUME kept + (k + 1) <= Len(name) PROVE FlattenSeq(upto(kept + (k + 1))) = FlattenSeq(upto(kept))
    OBVIOUS
  <2> DEFINE m == kept + k
  <2>1. m \in 0 .. Len(name) /\ m + 1 \in 1 .. Len(name) /\ m + 1 > kept /\ kept + (k + 1) = m + 1
    BY <1>2, <1>3
  <2>2. FlattenSeq(upto(m)) = FlattenSeq(upto(kept))
    BY <1>7, <2>1, <1>2, <1>3
  <2> HIDE DEF m
  <2>3. upto(m + 1) = Append(upto(m), <<>>)
    <3>1. name[m + 1] = <<>>
      BY <1>3, <2>1
    <3> QED BY <1>1, <2>1, <3>1
  <2>4. upto(m) \in Seq(Seq(S)) /\ <<>> \in Seq(S)
    BY <1>5, <2>1, EmptySeq
  <2> HIDE DEF upto
  <2>5. FlattenSeq(upto(m + 1)) = FlattenSeq(upto(m)) \o <<>> /\ FlattenSeq(upto(m)) \in Seq(S)
    BY <2>3, <2>4, FlattenAppend, FlattenType
  <2> QED BY <2>1, <2>2, <2>5, ConcatEmptySeq
<1>8. Len(name) - kept \in P
  <2>1. Len(name) - kept \in Nat
    BY <1>2, <1>3
  <2> HIDE DEF P
  <2> QED BY <1>6, <1>7, <2>1, SetInduction
<1>9. kept + (Len(name) - kept) = Len(name)
  BY <1>2, <1>3
<1>10. upto(Len(name)) = name
  BY <1>1, SubSeqFull
<1>11. FlattenSeq(name) = FlattenSeq(upto(kept))
  <2> DEFINE k == Len(name) - kept
  <2>1. kept + k = Len(name)
    BY <1>9
  <2>2. kept + k <= Len(name) => FlattenSeq(upto(kept + k)) = FlattenSeq(upto(kept))
    <3> HIDE DEF k, upto
    <3> QED BY <1>8 DEF k
  <2> HIDE DEF k, upto
  <2> QED BY <1>2, <1>10, <2>1, <2>2
<1>12. CASE kept = 0
  <2>1. upto(kept) = <<>>
    BY <1>12
  <2>2. FlattenSeq(name) = <<>>
    BY <1>11, <2>1, FlattenEmpty
  <2>3. IsName(<<<<Word("_")>>>>)
    <3>1. <<<<Word("_")>>>> \in Seq(Seq({Word("_")}))
      OBVIOUS
    <3> QED BY <3>1, NameOver
  <2> QED BY <1>4, <1>12, <2>2, <2>3 DEF Atoms
<1>13. CASE kept # 0
  <2>1. upto(kept) \in Seq(Seq(S))
    BY <1>3, <1>5
  <2> HIDE DEF upto
  <2> QED BY <1>4, <1>11, <1>13, <2>1, NameOver DEF Atoms
<1> QED BY <1>12, <1>13

-----------------------------------------------------------------------------
(* The parts of a movie                                                    *)

LEMMA MovieFolder ==
  ASSUME NEW c, IsName(c.title), NEW edition
  PROVE  IsName(movie_folder_name(c, edition))
<1> DEFINE year == Segment("year", c.year)
           ed == Segment("cedition", edition)
           anchor == Segment("anchor", render_anchor(c))
<1>1. IsName(year) /\ IsName(ed) /\ IsName(anchor)
  BY SegmentIs
<1>2. movie_folder_name(c, edition) = sanitize_component(Glue(Glue(Glue(c.title, year), ed), anchor))
  BY DEF movie_folder_name
<1> HIDE DEF year, ed, anchor
<1>3. IsName(Glue(c.title, year))
  BY <1>1, Glued
<1>4. IsName(Glue(Glue(c.title, year), ed))
  BY <1>1, <1>3, Glued
<1>5. IsName(Glue(Glue(Glue(c.title, year), ed), anchor))
  BY <1>1, <1>4, Glued
<1> QED BY <1>2, <1>5, Sanitized

LEMMA MovieStem ==
  ASSUME NEW c, IsName(c.title), NEW edition, NEW part
  PROVE  IsName(movie_base_stem(c, edition, part))
<1> DEFINE folder == movie_folder_name(c, edition)
           mark == Segment("part", _normalize_part_marker(part))
<1>1. IsName(folder) /\ IsName(mark)
  BY MovieFolder, SegmentIs
<1> HIDE DEF folder, mark
<1>2. IsName(Glue(folder, mark))
  BY <1>1, Glued
<1> QED BY <1>2 DEF movie_base_stem, folder, mark

\* The number of a part can be read in the name it is given.
LEMMA PartNamed ==
  ASSUME NoneIsNoFunction, NEW c, IsName(c.title), NEW edition, NEW part, part # None
  PROVE  LET atoms == Atoms(movie_base_stem(c, edition, part))
         IN atoms[Len(atoms)] = [k |-> "part", v |-> <<"pt", part[2]>>]
<1> DEFINE mark == <<"pt", part[2]>>
           atom == [k |-> "part", v |-> mark]
           folder == movie_folder_name(c, edition)
           piece == Segment("part", mark)
<1>1. mark # None
  <2>1. mark = [i \in DOMAIN mark |-> mark[i]]
    OBVIOUS
  <2> HIDE DEF mark
  <2> QED BY <2>1 DEF NoneIsNoFunction
<1>2. movie_base_stem(c, edition, part) = Glue(folder, piece)
  BY DEF movie_base_stem, _normalize_part_marker
<1>3. IsName(folder) /\ IsName(piece)
  BY MovieFolder, SegmentIs
<1>4. Atoms(piece) = <<atom>>
  <2> HIDE DEF mark
  <2> QED BY <1>1, SegmentIs
<1>5. PICK S : folder \in Seq(Seq(S)) /\ piece \in Seq(Seq(S))
  <2> HIDE DEF folder, piece
  <2> QED BY <1>3, NamesOver
<1>6. Atoms(Glue(folder, piece)) = Atoms(folder) \o <<atom>>
  <2> HIDE DEF folder, piece, atom
  <2> QED BY <1>3, <1>4, Glued
<1>7. Atoms(folder) \in Seq(S)
  <2> HIDE DEF folder
  <2> QED BY <1>5, FlattenType DEF Atoms
<1> HIDE DEF folder, piece, atom
<1>8. Len(Atoms(folder) \o <<atom>>) = Len(Atoms(folder)) + 1
      /\ (Atoms(folder) \o <<atom>>)[Len(Atoms(folder)) + 1] = atom
  BY <1>7
<1> QED BY <1>2, <1>6, <1>8 DEF atom

LEMMA RowOfIs ==
  ASSUME IsList(tree.files), NEW p \in ToSet(Rows), NEW f, f = p.file
  PROVE  RowOf(f) = p
BY RowsAre DEF RowOf

LEMMA PartsApart ==
  ASSUME NoneIsNoFunction, IsList(tree.files), PlanInv
  PROVE  PartsStayApart
<1> SUFFICES ASSUME NEW a \in Ops \cup Blocked, NEW b \in Ops \cup Blocked,
                    NEW p, p = RowOf(a.source), NEW q, q = RowOf(b.source),
                    p.kind = "movie", q.kind = "movie", p.title = q.title, p.title # <<>>, p.year = q.year,
                    p.part # None, q.part # None, a.target = b.target
             PROVE  p.part[2] = q.part[2]
  BY DEF PartsStayApart
<1>1. plan # None
  BY DEF Ops, Blocked
<1>2. PICK pairs, skipped : Asks(pairs, skipped) /\ plan = build_plan_from_pairs(pairs, skipped, Up, scene.editions)
  BY <1>1, PlanAsks
<1> DEFINE ed == scene.editions
           movies == Of(pairs, "movie")
           rows == [k \in DOMAIN movies |-> movies[k][1]]
<1>3. IsList(pairs) /\ IsList(skipped)
  BY <1>2 DEF Asks
<1>4. a \in ToSet(Made(pairs, Up, ed)) /\ b \in ToSet(Made(pairs, Up, ed))
  <2>1. PICK pl : pl = plan
    OBVIOUS
  <2>2. pl = build_plan_from_pairs(pairs, skipped, Up, ed)
    BY <1>2, <2>1
  <2> HIDE DEF ed
  <2>3. \A op : op \in ToSet(Made(pairs, Up, ed)) <=> op \in ToSet(pl.ops) \/ op \in ToSet(pl.collisions)
    BY <1>3, <2>2, PlanIs
  <2> QED BY <1>1, <2>1, <2>3 DEF Ops, Blocked
<1>5. PICK x \in ToSet(pairs) : x[1] = p /\ Known(x[2]) /\ x[2] # None /\ MadeOfMovie(pairs, ed, x, a)
  <2>1. PICK x \in ToSet(pairs) :
            /\ x[1] \in ToSet(Rows) /\ a.source = x[1].file /\ a.kind = x[1].kind /\ x[2] # None /\ Known(x[2])
            /\ \/ x[1].kind = "movie" /\ MadeOfMovie(pairs, ed, x, a)
               \/ x[1].kind = "tv" /\ HasIndices(x[1], x[2], Up) /\ a = ShowOp(x, Up)
    BY <1>2, <1>4, OpOf
  <2>2. x[1] = p
    BY <2>1, RowOfIs
  <2> QED BY <2>1, <2>2
<1>6. PICK y \in ToSet(pairs) : y[1] = q /\ Known(y[2]) /\ y[2] # None /\ MadeOfMovie(pairs, ed, y, b)
  <2>1. PICK y \in ToSet(pairs) :
            /\ y[1] \in ToSet(Rows) /\ b.source = y[1].file /\ b.kind = y[1].kind /\ y[2] # None /\ Known(y[2])
            /\ \/ y[1].kind = "movie" /\ MadeOfMovie(pairs, ed, y, b)
               \/ y[1].kind = "tv" /\ HasIndices(y[1], y[2], Up) /\ b = ShowOp(y, Up)
    BY <1>2, <1>4, OpOf
  <2>2. y[1] = q
    BY <2>1, RowOfIs
  <2> QED BY <2>1, <2>2
<1>7. PICK i \in DOMAIN movies : x = movies[i] /\ a = MovieOp(x, PartOf(movies, i), ed)
  BY <1>5 DEF MadeOfMovie
<1>8. PICK j \in DOMAIN movies : y = movies[j] /\ b = MovieOp(y, PartOf(movies, j), ed)
  BY <1>6 DEF MadeOfMovie
<1>9. CASE i = j
  BY <1>5, <1>6, <1>7, <1>8, <1>9
<1>10. CASE i # j
  <2>1. PartOf(movies, i) = p.part /\ PartOf(movies, j) = q.part
    <3>1. DOMAIN rows = DOMAIN movies /\ rows[i] = p /\ rows[j] = q
      <4> HIDE DEF movies
      <4> QED BY <1>5, <1>6, <1>7, <1>8
    <3>2. i \in group_multi_part(rows) /\ j \in group_multi_part(rows)
      <4> HIDE DEF rows, movies
      <4> QED BY <1>7, <1>8, <1>10, <3>1 DEF group_multi_part
    <3>3. Parts(movies) = group_multi_part(rows)
      BY DEF Parts
    <3> HIDE DEF rows, movies
    <3> QED BY <1>5, <1>6, <1>7, <1>8, <3>2, <3>3 DEF PartOf
  <2>2. \E edition : a.target.name = movie_base_stem(x[2], edition, p.part)
    BY <1>7, <2>1 DEF MovieOp, Op, movie_target_path
  <2>3. \E edition : b.target.name = movie_base_stem(y[2], edition, q.part)
    BY <1>8, <2>1 DEF MovieOp, Op, movie_target_path
  <2>4. IsName(x[2].title) /\ IsName(y[2].title)
    BY <1>5, <1>6 DEF Known
  <2> DEFINE name == a.target.name
             atoms == Atoms(name)
  <2>5. atoms[Len(atoms)] = [k |-> "part", v |-> <<"pt", p.part[2]>>]
    BY <2>2, <2>4, PartNamed
  <2>6. atoms[Len(atoms)] = [k |-> "part", v |-> <<"pt", q.part[2]>>]
    BY <2>3, <2>4, PartNamed
  <2> HIDE DEF atoms
  <2>7. atoms[Len(atoms)].v = <<"pt", p.part[2]>> /\ atoms[Len(atoms)].v = <<"pt", q.part[2]>>
    BY <2>5, <2>6
  <2> QED BY <2>7
<1> QED BY <1>9, <1>10

-----------------------------------------------------------------------------
(* What the parser reads in a name is a list                               *)

LEMMA FirstIs ==
  ASSUME NEW s, IsList(s), NEW kind
  PROVE  /\ First(s, kind) \in 0 .. Len(s)
         /\ First(s, kind) = 0 => \A i \in 1 .. Len(s) : s[i].k # kind
         /\ First(s, kind) # 0 => /\ s[First(s, kind)].k = kind
                                  /\ \A i \in 1 .. Len(s) : s[i].k = kind => First(s, kind) <= i
<1> DEFINE I == {i \in 1 .. Len(s) : s[i].k = kind}
<1>1. First(s, kind) = IF I # {} THEN Min(I) ELSE 0
  BY DEF First, SelectInSeq
<1>2. Len(s) \in Nat
  BY ListHas
<1>3. I \in SUBSET Nat
  BY <1>2
<1>4. I # {} => Min(I) \in I /\ \A i \in I : Min(I) <= i
  <2> HIDE DEF I
  <2> QED BY <1>3, LeastNat DEF Min
<1> QED BY <1>1, <1>2, <1>4

LEMMA FinalIs ==
  ASSUME NEW s, IsList(s), NEW kind
  PROVE  Final(s, kind) \in 0 .. Len(s)
<1> DEFINE I == {i \in 1 .. Len(s) : s[i].k = kind}
<1>1. Final(s, kind) = IF I # {} THEN Max(I) ELSE 0
  BY DEF Final, SelectLastInSeq
<1>2. Len(s) \in Nat
  BY ListHas
<1>3. ASSUME I # {} PROVE Max(I) \in I
  <2>1. I \in SUBSET (1 .. Len(s))
    OBVIOUS
  <2> HIDE DEF I
  <2> QED BY <1>2, <1>3, <2>1, Greatest
<1> QED BY <1>1, <1>2, <1>3

LEMMA SliceIs ==
  ASSUME NEW s, IsList(s), NEW i \in Nat, i >= 1, NEW j \in Int, j <= Len(s)
  PROVE  IsList(SubSeq(s, i, j)) /\ ToSet(SubSeq(s, i, j)) \subseteq ToSet(s)
<1>1. DOMAIN s = 1 .. Len(s) /\ Len(s) \in Nat /\ \A k \in DOMAIN s : s[k] \in ToSet(s)
  BY ListHas
<1>2. \A k \in i .. j : s[k] \in ToSet(s)
  BY <1>1
<1>3. SubSeq(s, i, j) \in Seq(ToSet(s))
  BY <1>2, SubSeqProperties
<1> QED BY <1>3, ListOf

\* A tokenizer state whose text is a list.
Tok(t) == "text" \in DOMAIN t /\ IsList(t.text)

LEMMA KeptTok ==
  ASSUME NEW s, IsList(s), NEW kinds
  PROVE  IsList(Only(s, kinds)) /\ IsList(Without(s, kinds))
BY KeptList DEF Only, Without

LEMMA MarkedTok ==
  ASSUME NEW s, IsList(s), NEW i \in 1 .. Len(s)
  PROVE  IsList(Marked(s, i)) /\ IsList(RemoveAt(s, i))
<1>1. Len(s) \in Nat
  BY ListHas
<1>2. IsList(SubSeq(s, 1, i - 1)) /\ IsList(SubSeq(s, i + 1, Len(s)))
  BY <1>1, SliceIs
<1>3. IsList(<<Sentinel>>)
  <2>1. <<Sentinel>> \in Seq({Sentinel})
    OBVIOUS
  <2>2. PICK S : S = {Sentinel}
    OBVIOUS
  <2> QED BY <2>1, <2>2, ListOf
<1>4. IsList(SubSeq(s, 1, i - 1) \o <<Sentinel>>)
  BY <1>2, <1>3, ConcatList
<1>5. IsList((SubSeq(s, 1, i - 1) \o <<Sentinel>>) \o SubSeq(s, i + 1, Len(s)))
  BY <1>2, <1>4, ConcatList
<1>6. IsList(SubSeq(s, 1, i - 1) \o SubSeq(s, i + 1, Len(s)))
  BY <1>2, ConcatList
<1> QED BY <1>5, <1>6 DEF Marked, RemoveAt

LEMMA BracesTok == \A t : Tok(t) => Tok(StripBraces(t))
<1> SUFFICES ASSUME NEW t, Tok(t) PROVE Tok(StripBraces(t))
  OBVIOUS
<1> DEFINE u == Kept(t.text, {i \in DOMAIN t.text : ~(t.text[i].k = "anchor" /\ t.text[i].v[1] \in {"tmdb", "imdb"})})
           w == Without(u, {"cedition"})
           labels == Labels(Only(u, {"cedition"}))
<1>1. IsList(u)
  BY KeptList DEF Tok
<1>2. IsList(w)
  <2> HIDE DEF u
  <2> QED BY <1>1, KeptTok
<1>3. StripBraces(t) = [WithEditions(t, labels) EXCEPT !.text = w]
  BY DEF StripBraces
<1> HIDE DEF u, w, labels
<1>4. DOMAIN WithEditions(t, labels) = DOMAIN t
  BY DEF WithEditions
<1> QED BY <1>2, <1>3, <1>4 DEF Tok

LEMMA GroupsTok == \A t : Tok(t) => Tok(_consume_bracket_groups(t))
<1> SUFFICES ASSUME NEW t, Tok(t) PROVE Tok(_consume_bracket_groups(t))
  OBVIOUS
<1> DEFINE ses == Only(t.text, {"bse"})
           years == Only(t.text, {"byear"})
           u == WithEditions(t, Labels(Only(t.text, {"bedition"})))
           m == IF ses = <<>> THEN u
                ELSE [u EXCEPT !.season = Last(ses).v[1], !.episode = Last(ses).v[2], !.end = Last(ses).v[3]]
           dropped == Without(t.text, {"byear", "bquality", "bedition", "group"})
           text == [i \in DOMAIN dropped |-> IF dropped[i].k = "bse" THEN Sentinel ELSE dropped[i]]
<1>1. IsList(dropped)
  BY KeptTok DEF Tok
<1>2. IsList(text)
  <2> HIDE DEF dropped
  <2>1. text = [i \in DOMAIN dropped |-> text[i]]
    OBVIOUS
  <2> HIDE DEF text
  <2> QED BY <1>1, <2>1, ListOver
<1>3. _consume_bracket_groups(t) =
         [m EXCEPT !.year = IF years = <<>> THEN @ ELSE Last(years).v,
                   !.quality = @ \/ Only(t.text, {"bquality"}) # <<>>,
                   !.text = text]
  BY DEF _consume_bracket_groups
<1>4. DOMAIN u = DOMAIN t
  BY DEF WithEditions
<1>5. DOMAIN m = DOMAIN t
  <2> HIDE DEF u, ses
  <2> QED BY <1>4
<1> HIDE DEF m, text, years, dropped
<1> QED BY <1>2, <1>3, <1>5 DEF Tok

LEMMA TakenTok ==
  ASSUME NEW t, Tok(t), NEW i \in 1 .. Len(t.text)
  PROVE  /\ Tok(TakeMarker(t, i))
         /\ Tok([t EXCEPT !.text = Marked(@, i)])
         /\ Tok([t EXCEPT !.text = RemoveAt(@, i)])
         /\ Tok([t EXCEPT !.season = t.text[i].v, !.text = RemoveAt(@, i)])
         /\ Tok([t EXCEPT !.year = t.text[i].v, !.text = RemoveAt(@, i)])
         /\ Tok([t EXCEPT !.part = t.text[i].v, !.text = RemoveAt(@, i)])
         /\ Tok([t EXCEPT !.dated = TRUE, !.year = IF @ = None THEN t.text[i].v ELSE @, !.text = RemoveAt(@, i)])
<1>1. IsList(Marked(t.text, i)) /\ IsList(RemoveAt(t.text, i)) /\ "text" \in DOMAIN t
  BY MarkedTok DEF Tok
<1> QED BY <1>1 DEF Tok, TakeMarker

LEMMA MarkersTok ==
  ASSUME NEW t, Tok(t)
  PROVE  /\ Tok(_consume_plain_se(t)) /\ Tok(_consume_cross_se(t)) /\ Tok(_consume_season_word(t))
         /\ Tok(_consume_date(t)) /\ Tok(_consume_year(t)) /\ Tok(_consume_part_marker(t))
<1>1. \A kind : First(t.text, kind) \in 0 .. Len(t.text) /\ Final(t.text, kind) \in 0 .. Len(t.text)
  BY FirstIs, FinalIs DEF Tok
<1>2. Len(t.text) \in Nat
  BY ListHas DEF Tok
<1>3. \A i \in 0 .. Len(t.text) : i # 0 => i \in 1 .. Len(t.text)
  BY <1>2
<1>4. Tok(_consume_plain_se(t))
  BY <1>1, <1>3, TakenTok DEF _consume_plain_se
<1>5. Tok(_consume_cross_se(t))
  BY <1>1, <1>3, TakenTok DEF _consume_cross_se
<1>6. Tok(_consume_season_word(t))
  BY <1>1, <1>3, TakenTok DEF _consume_season_word
<1>7. Tok(_consume_date(t))
  BY <1>1, <1>3, TakenTok DEF _consume_date
<1>8. Tok(_consume_year(t))
  BY <1>1, <1>3, TakenTok DEF _consume_year
<1>9. Tok(_consume_part_marker(t))
  BY <1>1, <1>3, TakenTok DEF _consume_part_marker
<1> QED BY <1>4, <1>5, <1>6, <1>7, <1>8, <1>9

LEMMA EndsTok ==
  ASSUME NEW t, Tok(t)
  PROVE  Tok(_consume_quality_and_edition(t)) /\ Tok(_consume_trailing_group_suffix(t))
<1>1. IsList(Without(t.text, {"quality", "edition"})) /\ "text" \in DOMAIN t
  BY KeptTok DEF Tok
<1>2. Tok(_consume_quality_and_edition(t))
  <2> DEFINE labels == Labels(Only(t.text, {"edition"}))
             u == WithEditions(t, labels)
  <2>1. _consume_quality_and_edition(t) =
          [u EXCEPT !.quality = @ \/ Only(t.text, {"quality"}) # <<>>, !.text = Without(@, {"quality", "edition"})]
    BY DEF _consume_quality_and_edition
  <2>2. DOMAIN u = DOMAIN t /\ u.text = t.text
    BY <1>1 DEF WithEditions
  <2> HIDE DEF u
  <2> QED BY <1>1, <2>1, <2>2 DEF Tok
<1>3. Tok(_consume_trailing_group_suffix(t))
  <2>1. CASE t.text # <<>>
    <3>1. Len(t.text) \in Nat
      BY ListHas DEF Tok
    <3>2. IsList(Front(t.text))
      BY <3>1, SliceIs DEF Tok, Front
    <3> QED BY <1>1, <3>2 DEF Tok, _consume_trailing_group_suffix
  <2>2. CASE t.text = <<>>
    BY <2>2 DEF _consume_trailing_group_suffix
  <2> QED BY <2>1, <2>2
<1> QED BY <1>2, <1>3

LEMMA Tokenized ==
  ASSUME NEW name, IsName(name)
  PROVE  Tok(tokenize(name))
<1> DEFINE raw == [text |-> Atoms(name), season |-> None, episode |-> None, end |-> None, year |-> None,
                   dated |-> FALSE, editions |-> <<>>, part |-> None, quality |-> FALSE]
           a == _consume_bracket_groups(StripBraces(raw))
           b == _consume_season_word(_consume_cross_se(_consume_plain_se(a)))
           c == _consume_part_marker(_consume_year(_consume_date(b)))
           d == _consume_trailing_group_suffix(_consume_quality_and_edition(c))
<1>1. Tok(raw)
  <2>1. PICK S : name \in Seq(Seq(S))
    BY NameOver
  <2>2. Atoms(name) \in Seq(S)
    BY <2>1, FlattenType DEF Atoms
  <2>3. IsList(Atoms(name))
    BY <2>2, ListOf
  <2> QED BY <2>3 DEF Tok
<1>2. tokenize(name) = d
  BY DEF tokenize
<1> HIDE DEF raw
<1>3. Tok(a)
  BY <1>1, BracesTok, GroupsTok
<1> HIDE DEF a
<1>4. Tok(b)
  BY <1>3, MarkersTok
<1> HIDE DEF b
<1>5. Tok(c)
  BY <1>4, MarkersTok
<1> HIDE DEF c
<1>6. Tok(d)
  BY <1>5, EndsTok
<1> QED BY <1>2, <1>6

LEMMA TitledFile ==
  ASSUME NEW f, NEW dirs, is_video(f) => IsName(f.name)
  PROVE  IsList(parse_file(f, dirs).eptitle)
<1>1. CASE classify_skip(f) # None \/ ~is_video(f)
  BY <1>1, EmptyList DEF parse_file, NotVideo
<1>2. CASE ~(classify_skip(f) # None \/ ~is_video(f))
  <2> DEFINE t == _apply_parent_hints(tokenize(f.name), dirs)
             kind == _classify_kind(t)
             titles == _split_title(t, kind)
             i == First(t.text, "SE")
  <2>1. parse_file(f, dirs) = Video(f, dirs, t, kind, titles)
    BY <1>2 DEF parse_file, Classified
  <2>2. Tok(t)
    <3>1. Tok(tokenize(f.name))
      BY <1>2, Tokenized
    <3> DEFINE u == tokenize(f.name)
    <3>2. DOMAIN _apply_parent_hints(u, dirs) = DOMAIN u /\ _apply_parent_hints(u, dirs).text = u.text
      <4> HIDE DEF u
      <4> QED BY <3>1 DEF _apply_parent_hints, Tok, u
    <3> QED BY <3>1, <3>2 DEF Tok
  <2> HIDE DEF t
  <2>3. IsList(titles[2])
    <3>1. CASE kind = "tv" /\ i # 0
      <4>1. i \in 1 .. Len(t.text) /\ Len(t.text) \in Nat
        BY <2>2, <3>1, FirstIs, ListHas DEF Tok
      <4>2. titles[2] = Without(SubSeq(t.text, i + 1, Len(t.text)), {"SE"})
        <5> HIDE DEF kind
        <5> QED BY <3>1 DEF _split_title
      <4> HIDE DEF i
      <4>3. IsList(SubSeq(t.text, i + 1, Len(t.text)))
        BY <2>2, <4>1, SliceIs DEF Tok
      <4> QED BY <4>2, <4>3, KeptTok
    <3>2. CASE ~(kind = "tv" /\ i # 0)
      <4>1. titles[2] = <<>>
        <5> HIDE DEF kind
        <5> QED BY <3>2 DEF _split_title
      <4> QED BY <4>1, EmptyList
    <3> QED BY <3>1, <3>2
  <2> HIDE DEF kind, titles
  <2>4. Video(f, dirs, t, kind, titles).eptitle = titles[2]
    BY DEF Video
  <2> QED BY <2>1, <2>3, <2>4
<1> QED BY <1>1, <1>2

\* The title of an episode in a name is a list; a sidecar is no video.
LEMMA TitledRow ==
  ASSUME NEW listed, IsList(listed), NEW single, NEW f, is_video(f) => IsName(f.name),
         NEW r, r = RowOfFile(f, listed, single)
  PROVE  /\ IsList(r.eptitle)
         /\ \A s \in ToSet(r.sidecars) : is_subtitle(s.file) \/ is_metadata(s.file)
<1> DEFINE dirs == IF single THEN <<>> ELSE f.dirs
           near == Kept(listed, {j \in DOMAIN listed : listed[j].dirs = f.dirs})
           p == parse_file(f, dirs)
<1>1. IsList(p.eptitle) /\ p.sidecars = <<>>
      /\ p = [file |-> f, kind |-> p.kind, title |-> p.title, year |-> p.year, season |-> p.season,
              episode |-> p.episode, end |-> p.end, eptitle |-> p.eptitle, editions |-> p.editions,
              part |-> p.part, dirs |-> dirs, skip |-> p.skip, sidecars |-> <<>>]
  <2>1. p = [file |-> f, kind |-> p.kind, title |-> p.title, year |-> p.year, season |-> p.season,
              episode |-> p.episode, end |-> p.end, eptitle |-> p.eptitle, editions |-> p.editions,
              part |-> p.part, dirs |-> dirs, skip |-> p.skip, sidecars |-> <<>>]
    <3> HIDE DEF dirs
    <3> QED BY ParsedFile
  <2>2. IsList(p.eptitle)
    <3> HIDE DEF dirs
    <3> QED BY TitledFile
  <2> HIDE DEF p
  <2> QED BY <2>1, <2>2
<1>2. \A s \in ToSet(find_sidecars(f, near)) : is_subtitle(s.file) \/ is_metadata(s.file)
  <2>1. IsList(near)
    BY KeptList
  <2> HIDE DEF near
  <2> DEFINE named(g) == parse_sidecar_name(g).stem = f.name
             pairs(g) == /\ g # f
                         /\ is_subtitle(g) \/ is_metadata(g)
                         /\ named(g) \/ (is_metadata(g) /\ IsArtworkName(g.name))
             places == {i \in DOMAIN near : pairs(near[i])}
             found == Kept(near, places)
             t == find_sidecars(f, near)
  <2>2. IsList(found) /\ ToSet(found) = {near[i] : i \in places \cap DOMAIN near}
    <3> HIDE DEF places
    <3> QED BY <2>1, KeptList
  <2>3. \A g \in ToSet(found) : is_subtitle(g) \/ is_metadata(g)
    <3> HIDE DEF found, is_subtitle, is_metadata
    <3> QED BY <2>2
  <2>4. DOMAIN t = DOMAIN found /\ \A i \in DOMAIN found : t[i].file = found[i]
    BY DEF find_sidecars
  <2> HIDE DEF t, found, places
  <2>5. \A s \in ToSet(t) : \E i \in DOMAIN found : s.file = found[i]
    BY <2>4 DEF ToSet
  <2>6. \A s \in ToSet(t) : s.file \in ToSet(found)
    BY <2>2, <2>5, ListHas
  <2> QED BY <2>3, <2>6 DEF t
<1>3. r = [p EXCEPT !.sidecars = IF single \/ ~is_video(f) THEN @ ELSE find_sidecars(f, near)]
  BY DEF RowOfFile
<1> HIDE DEF p, near, dirs
<1>4. r.eptitle = p.eptitle /\ r.sidecars \in {<<>>, find_sidecars(f, near)}
  BY <1>1, <1>3
<1> QED BY <1>1, <1>2, <1>4, EmptyList

-----------------------------------------------------------------------------
(* The tree an applied plan leaves                                         *)

LEMMA ListFinite ==
  ASSUME NEW s, IsList(s)
  PROVE  IsFiniteSet(ToSet(s))
<1> DEFINE D == 1 .. Len(s)
<1>1. Len(s) \in Nat /\ DOMAIN s = D
  BY ListHas
<1>2. IsFiniteSet(D)
  BY <1>1, FS_Interval
<1>3. s \in [D -> ToSet(s)]
  BY <1>1 DEF IsList
<1>4. \A x \in ToSet(s) : \E i \in D : s[i] = x
  BY <1>1, ListHas
<1> HIDE DEF D
<1>5. s \in Surjection(D, ToSet(s))
  BY <1>3, <1>4 DEF Surjection
<1> QED BY <1>2, <1>5, FS_Surjection

\* A finite set in a list of its elements.
LEMMA ListFrom ==
  ASSUME NEW T, IsFiniteSet(T)
  PROVE  IsList(SetToSeq(T)) /\ ToSet(SetToSeq(T)) \subseteq T
<1> DEFINE n == Cardinality(T)
<1>1. n \in Nat /\ ExistsBijection(1 .. n, T)
  BY FS_CardinalityType
<1>2. PICK f : f \in [1 .. n -> T] /\ IsInjective(f)
  BY <1>1 DEF ExistsBijection, Bijection, Injection, IsInjective
<1>3. SetToSeq(T) \in [1 .. n -> T]
  BY <1>2 DEF SetToSeq
<1>4. SetToSeq(T) \in Seq(T)
  <2> HIDE DEF n
  <2> QED BY <1>1, <1>3
<1> QED BY <1>4, ListOf

LEMMA TargetsFinite ==
  ASSUME NEW ops, IsList(ops), \A op \in ToSet(ops) : IsList(op.sidecars)
  PROVE  IsFiniteSet(Targets(ops))
<1> DEFINE at(op) == {op.target} \cup {op.sidecars[j].target : j \in DOMAIN op.sidecars}
           sets == [i \in DOMAIN ops |-> at(ops[i])]
<1>1. ASSUME NEW op \in ToSet(ops) PROVE IsFiniteSet(at(op))
  <2> DEFINE t == [j \in DOMAIN op.sidecars |-> op.sidecars[j].target]
  <2>1. t = [j \in DOMAIN op.sidecars |-> t[j]]
        /\ ToSet(t) = {op.sidecars[j].target : j \in DOMAIN op.sidecars}
    BY DEF ToSet
  <2> HIDE DEF t
  <2>2. IsFiniteSet(ToSet(t))
    BY <2>1, ListOver, ListFinite
  <2>3. IsFiniteSet({op.target})
    BY FS_Singleton
  <2>4. at(op) = {op.target} \cup ToSet(t)
    BY <2>1
  <2> HIDE DEF at
  <2> QED BY <2>2, <2>3, <2>4, FS_Union
<1>2. sets = [i \in DOMAIN ops |-> sets[i]] /\ \A i \in DOMAIN ops : sets[i] = at(ops[i])
  OBVIOUS
<1>3. Targets(ops) = UNION ToSet(sets)
  BY DEF Targets, ToSet
<1> HIDE DEF sets, at
<1>4. IsList(sets) /\ DOMAIN sets = DOMAIN ops
  BY <1>2, ListOver
<1>5. ASSUME NEW T \in ToSet(sets) PROVE IsFiniteSet(T)
  <2>1. PICK i \in DOMAIN sets : T = sets[i]
    BY <1>4, ListHas
  <2>2. T = at(ops[i]) /\ ops[i] \in ToSet(ops)
    BY <1>2, <1>4, <2>1, ListHas
  <2> QED BY <1>1, <2>2
<1>6. IsFiniteSet(ToSet(sets))
  BY <1>4, ListFinite
<1> QED BY <1>3, <1>5, <1>6, FS_UNION

\* A sidecar goes beside its video, and stays what it is.
LEMMA PairsAre ==
  ASSUME NEW p, IsList(p.sidecars), \A s \in ToSet(p.sidecars) : is_subtitle(s.file) \/ is_metadata(s.file),
         NEW target, target = [root |-> target.root, dirs |-> target.dirs, name |-> target.name, ext |-> target.ext]
  PROVE  /\ IsList(SidecarPairs(p, target))
         /\ \A i \in DOMAIN SidecarPairs(p, target) : ~is_video(SidecarPairs(p, target)[i].target)
<1> DEFINE t == SidecarPairs(p, target)
<1>1. t = [i \in DOMAIN p.sidecars |-> t[i]] /\ DOMAIN t = DOMAIN p.sidecars
  BY DEF SidecarPairs
<1>2. ASSUME NEW i \in DOMAIN p.sidecars PROVE ~is_video(t[i].target)
  <2> DEFINE f == p.sidecars[i].file
  <2>1. t[i].target = [target EXCEPT !.name = sanitize_component(_sidecar_suffix(@, p.sidecars[i])),
                                     !.ext = Lower(p.sidecars[i].file.ext)]
    BY DEF SidecarPairs
  <2>2. PICK name : t[i].target = [target EXCEPT !.name = name, !.ext = Lower(f.ext)]
    BY <2>1
  <2> HIDE DEF f, t
  <2>3. t[i].target.ext = Lower(f.ext)
    BY <2>2
  <2>4. is_subtitle(f) \/ is_metadata(f)
    BY ListHas DEF f
  <2>5. Lower(Lower(f.ext)) = Lower(f.ext)
    BY LowerAssumption DEF Lower
  <2>6. Lower(f.ext) \notin VIDEO_EXTS
    BY <2>4 DEF is_subtitle, is_metadata, VIDEO_EXTS, SUBTITLE_EXTS, METADATA_EXTS
  <2> QED BY <2>3, <2>5, <2>6 DEF is_video
<1> HIDE DEF t
<1>3. IsList(t)
  BY <1>1, ListOver
<1> QED BY <1>1, <1>2, <1>3 DEF t

\* The title of an episode is a name, wherever it is taken from.
LEMMA EpisodeTitled ==
  ASSUME NEW p, IsList(p.eptitle), NEW show, Known(show), show # None, NEW season, NEW episode, NEW up
  PROVE  IsName(_episode_title(p, show, season, episode, up))
<1> DEFINE titled(eps) == Kept(eps, {i \in DOMAIN eps : eps[i].season = season /\ eps[i].episode = episode})
           key == <<show.id, season>>
           fetched == IF season # 0 /\ show.anchor = "tmdb" /\ key \in up /\ key \in DOMAIN Episodes
                      THEN titled(Episodes[key]) ELSE <<>>
<1>1. ASSUME NEW k \in DOMAIN Episodes, titled(Episodes[k]) # <<>>
      PROVE  IsName(titled(Episodes[k])[1].title)
  <2> DEFINE eps == Episodes[k]
             t == titled(eps)
  <2>1. IsList(eps) /\ \A e \in ToSet(eps) : IsName(e.title)
    BY EpisodesAssumption DEF IsList
  <2>2. IsList(t) /\ ToSet(t) \subseteq ToSet(eps)
    <3> HIDE DEF eps
    <3> QED BY <2>1, KeptList
  <2> HIDE DEF t, eps
  <2>3. t # <<>>
    BY <1>1 DEF t, eps
  <2>4. t[1] \in ToSet(t)
    BY <2>2, <2>3, ListHas
  <2> QED BY <2>1, <2>2, <2>4 DEF t, eps
<1>2. titled(<<>>) = <<>>
  <2>1. IsList(titled(<<>>)) /\ ToSet(titled(<<>>)) \subseteq {}
    BY EmptyList, KeptList
  <2>2. PICK t : t = titled(<<>>)
    OBVIOUS
  <2> HIDE DEF titled
  <2>3. IsList(t) /\ ToSet(t) = {}
    BY <2>1, <2>2
  <2>4. DOMAIN t = 1 .. Len(t) /\ Len(t) \in Nat /\ DOMAIN t = {} /\ (t = <<>> <=> Len(t) = 0)
    BY <2>3, ListHas
  <2> QED BY <2>2, <2>4
<1>3. show.eps = <<>> \/ \E k \in DOMAIN Episodes : show.eps = Episodes[k]
  BY DEF Known
<1>4. titled(show.eps) # <<>> => IsName(titled(show.eps)[1].title)
  <2> HIDE DEF titled
  <2> QED BY <1>1, <1>2, <1>3
<1>5. fetched # <<>> => IsName(fetched[1].title)
  <2> HIDE DEF titled, key
  <2> QED BY <1>1 DEF fetched
<1>6. IsName(<<>>) /\ IsName(<<p.eptitle>>)
  <2>1. PICK S : p.eptitle \in Seq(S)
    BY DEF IsList
  <2>2. <<>> \in Seq(Seq(S)) /\ <<p.eptitle>> \in Seq(Seq(S))
    BY <2>1, EmptySeq
  <2> QED BY <2>2, NameOver
<1>7. _episode_title(p, show, season, episode, up) =
        IF titled(show.eps) # <<>> THEN titled(show.eps)[1].title
        ELSE IF fetched # <<>> THEN fetched[1].title
        ELSE IF p.eptitle = <<>> THEN <<>> ELSE <<p.eptitle>>
  BY DEF _episode_title
<1> HIDE DEF titled, fetched
<1> QED BY <1>4, <1>5, <1>6, <1>7

LEMMA EpisodeStem ==
  ASSUME NEW show, IsName(show.title), NEW season, NEW episode, NEW title, IsName(title), NEW end
  PROVE  IsName(tv_episode_basename(show, season, episode, title, end))
<1> DEFINE last == IF end # None /\ end > episode THEN end ELSE None
           year == Segment("year", show.year)
           se == Segment("se", <<season, episode, last>>)
<1>1. IsName(year) /\ IsName(se)
  <2> HIDE DEF last
  <2> QED BY SegmentIs
<1>2. tv_episode_basename(show, season, episode, title, end) = sanitize_component(Glue(Glue(Glue(show.title, year), se), title))
  BY DEF tv_episode_basename
<1> HIDE DEF year, se
<1>3. IsName(Glue(show.title, year))
  BY <1>1, Glued
<1>4. IsName(Glue(Glue(show.title, year), se))
  BY <1>1, <1>3, Glued
<1>5. IsName(Glue(Glue(Glue(show.title, year), se), title))
  BY <1>4, Glued
<1> QED BY <1>2, <1>5, Sanitized

\* A video is given a name, and its sidecars are no videos.
LEMMA OpPlaces ==
  ASSUME TreeInv, NEW pairs, NEW skipped, Asks(pairs, skipped), NEW ed,
         NEW op, op \in ToSet(Made(pairs, Up, ed))
  PROVE  /\ IsList(op.sidecars) /\ IsName(op.target.name)
         /\ \A j \in DOMAIN op.sidecars : ~is_video(op.sidecars[j].target)
<1>1. PICK x \in ToSet(pairs) :
         /\ x[1] \in ToSet(Rows) /\ x[2] # None /\ Known(x[2])
         /\ \/ x[1].kind = "movie" /\ MadeOfMovie(pairs, ed, x, op)
            \/ x[1].kind = "tv" /\ HasIndices(x[1], x[2], Up) /\ op = ShowOp(x, Up)
  BY OpOf
<1> DEFINE p == x[1]
           c == x[2]
<1>2. /\ IsList(p.eptitle) /\ IsList(p.sidecars)
      /\ \A s \in ToSet(p.sidecars) : is_subtitle(s.file) \/ is_metadata(s.file)
  <2>1. PICK f \in ToSet(tree.files) : p = RowOfFile(f, tree.files, tree.single)
    BY <1>1, RowsAre DEF TreeInv
  <2>2. is_video(f) => IsName(f.name)
    BY DEF TreeInv
  <2> HIDE DEF p
  <2>3. IsList(p.sidecars)
    BY <2>1, RowIs DEF TreeInv
  <2>4. IsList(p.eptitle) /\ \A s \in ToSet(p.sidecars) : is_subtitle(s.file) \/ is_metadata(s.file)
    BY <2>1, <2>2, TitledRow DEF TreeInv
  <2> QED BY <2>3, <2>4
<1>3. IsName(c.title)
  BY <1>1 DEF Known
<1> HIDE DEF p, c
<1>4. \E target, edition :
         /\ op = Op(p, c, target, edition)
         /\ target = [root |-> target.root, dirs |-> target.dirs, name |-> target.name, ext |-> target.ext]
         /\ IsName(target.name)
  <2>1. CASE MadeOfMovie(pairs, ed, x, op)
    <3>1. PICK part : op = MovieOp(x, part, ed)
      BY <2>1 DEF MadeOfMovie
    <3> DEFINE edition == _edition_to_apply(p, ed)
               target == movie_target_path(c, edition, part, p.file.ext)
    <3>2. op = Op(p, c, target, edition)
      BY <3>1 DEF MovieOp, p, c
    <3>3. PICK stem : stem = movie_base_stem(c, edition, part)
      OBVIOUS
    <3>4. IsName(stem)
      <4> HIDE DEF edition
      <4> QED BY <1>3, <3>3, MovieStem
    <3>5. target = [root |-> target.root, dirs |-> target.dirs, name |-> stem, ext |-> target.ext]
      BY <3>3 DEF movie_target_path
    <3> HIDE DEF target, edition
    <3> QED BY <3>2, <3>4, <3>5
  <2>2. CASE op = ShowOp(x, Up)
    <3>1. PICK n : n = _resolve_tv_indices(p, c, Up)
      OBVIOUS
    <3> DEFINE title == _episode_title(p, c, n[1], n[2], Up)
               target == tv_target_path(c, n[1], n[2], title, p.end, p.file.ext)
    <3>2. op = Op(p, c, target, None)
      BY <2>2, <3>1 DEF ShowOp, TvOp, p, c
    <3>3. IsName(title)
      BY <1>1, <1>2, EpisodeTitled DEF c
    <3> HIDE DEF title
    <3>4. PICK stem : stem = tv_episode_basename(c, n[1], n[2], title, p.end)
      OBVIOUS
    <3>5. IsName(stem)
      BY <1>3, <3>3, <3>4, EpisodeStem
    <3>6. target = [root |-> target.root, dirs |-> target.dirs, name |-> stem, ext |-> target.ext]
      BY <3>4 DEF tv_target_path
    <3> HIDE DEF target
    <3> QED BY <3>2, <3>5, <3>6
  <2> QED BY <1>1, <2>1, <2>2
<1>5. PICK target, edition :
         /\ op = Op(p, c, target, edition)
         /\ target = [root |-> target.root, dirs |-> target.dirs, name |-> target.name, ext |-> target.ext]
         /\ IsName(target.name)
  BY <1>4
<1>6. PICK t : t = SidecarPairs(p, target)
  OBVIOUS
<1>7. IsList(t) /\ \A i \in DOMAIN t : ~is_video(t[i].target)
  BY <1>2, <1>5, <1>6, PairsAre
<1>8. op.target = target /\ op.sidecars = t
  BY <1>5, <1>6 DEF Op
<1> QED BY <1>5, <1>7, <1>8

\* What an apply leaves can be dropped in turn.
LEMMA AppliedTree ==
  ASSUME TreeInv, PlanInv, NEW root, run_apply(root)
  PROVE  TreeInv'
<1> DEFINE there == {f \in Targets(plan.ops) : f.root = root}
<1>1. plan # None /\ tree' = [files |-> SetToSeq(there), single |-> FALSE]
  BY DEF run_apply
<1>2. PICK pairs, skipped, ed : Asks(pairs, skipped) /\ plan = build_plan_from_pairs(pairs, skipped, Up, ed)
  BY <1>1, PlanAsks DEF TreeInv
<1>3. IsList(plan.ops) /\ \A op \in ToSet(plan.ops) : op \in ToSet(Made(pairs, Up, ed))
  <2>1. IsList(pairs) /\ IsList(skipped)
    BY <1>2 DEF Asks
  <2>2. PICK pl : pl = plan
    OBVIOUS
  <2>3. /\ IsList(pl.ops)
        /\ \A op : op \in ToSet(Made(pairs, Up, ed)) <=> op \in ToSet(pl.ops) \/ op \in ToSet(pl.collisions)
    BY <1>2, <2>1, <2>2, PlanIs
  <2> QED BY <2>2, <2>3
<1>4. \A op \in ToSet(plan.ops) :
         /\ IsList(op.sidecars) /\ IsName(op.target.name)
         /\ \A j \in DOMAIN op.sidecars : ~is_video(op.sidecars[j].target)
  BY <1>2, <1>3, OpPlaces
<1>5. IsFiniteSet(Targets(plan.ops))
  <2>1. PICK ops : ops = plan.ops
    OBVIOUS
  <2>2. IsList(ops) /\ \A op \in ToSet(ops) : IsList(op.sidecars)
    BY <1>3, <1>4, <2>1
  <2>3. IsFiniteSet(Targets(ops))
    BY <2>2, TargetsFinite
  <2> QED BY <2>1, <2>3
<1>6. \A f \in Targets(plan.ops) : is_video(f) => IsName(f.name)
  <2> SUFFICES ASSUME NEW f \in Targets(plan.ops), is_video(f) PROVE IsName(f.name)
    OBVIOUS
  <2>1. PICK i \in DOMAIN plan.ops :
           f = plan.ops[i].target \/ \E j \in DOMAIN plan.ops[i].sidecars : f = plan.ops[i].sidecars[j].target
    BY DEF Targets
  <2>2. plan.ops[i] \in ToSet(plan.ops)
    BY <1>3, ListHas
  <2> QED BY <1>4, <2>1, <2>2
<1>7. IsFiniteSet(there) /\ \A f \in there : is_video(f) => IsName(f.name)
  <2>1. there \in SUBSET Targets(plan.ops)
    OBVIOUS
  <2> HIDE DEF there
  <2> QED BY <1>5, <1>6, <2>1, FS_Subset
<1>8. IsList(SetToSeq(there)) /\ ToSet(SetToSeq(there)) \subseteq there
  <2> HIDE DEF there
  <2> QED BY <1>7, ListFrom
<1> HIDE DEF there
<1>9. tree'.files = SetToSeq(there)
  BY <1>1
<1> QED BY <1>7, <1>8, <1>9 DEF TreeInv, is_video, Lower

LEMMA TreeStep == TreeInv /\ PlanInv /\ [Next]_vars => TreeInv'
<1> SUFFICES ASSUME TreeInv, PlanInv, [Next]_vars PROVE TreeInv'
  OBVIOUS
<1>1. ASSUME NEW root, run_apply(root) PROVE TreeInv'
  BY <1>1, AppliedTree
<1>2. CASE tree' = tree
  BY <1>2 DEF TreeInv, is_video, Lower
<1>3. Keys => tree' = tree
  BY DEF Keys, Accept, Back, Quit, Skip, Killed, KilledSaving, PickAlternative, _prompt_for_id, _prompt_for_search, Anchored, Stays
<1> QED BY <1>1, <1>2, <1>3 DEF Next, vars, run_plan, PlanPicked, run_report, run_review_simple

LEMMA PlanStep == PlanInv /\ [Next]_vars => PlanInv'
<1> SUFFICES ASSUME PlanInv, [Next]_vars PROVE PlanInv'
  OBVIOUS
<1>1. ASSUME NEW root, run_apply(root) PROVE PlanInv'
  BY <1>1 DEF run_apply, PlanInv
<1>2. CASE tree' = tree /\ scene' = scene /\ plan' = plan
  <2>1. Rows' = Rows /\ Up' = Up
    BY <1>2 DEF Rows, Up
  <2>2. \A p : Resolver(p)' = Resolver(p)
    BY <1>2 DEF Resolver
  <2>3. build_plan(Rows, Resolver, Up, scene.editions)' = build_plan(Rows, Resolver, Up, scene.editions)
    BY <1>2 DEF Rows, Up, Resolver, build_plan
  <2>4. \A c \in Picks : PickedPlan(c)' = PickedPlan(c)
    BY <1>2 DEF Rows, Up, PickedPlan, Answer, Resolver
  <2> QED BY <1>2, <2>3, <2>4 DEF PlanInv
<1>3. CASE run_plan
  <2>1. plan' = build_plan(Rows, Resolver, Up, scene.editions) /\ tree' = tree /\ scene' = scene
    BY <1>3 DEF run_plan
  <2>2. build_plan(Rows, Resolver, Up, scene.editions)' = build_plan(Rows, Resolver, Up, scene.editions)
    BY <2>1 DEF Rows, Up, Resolver, build_plan
  <2> QED BY <2>1, <2>2 DEF PlanInv
<1>4. ASSUME NEW c \in Picks, PlanPicked(c) PROVE PlanInv'
  <2>1. plan' = PickedPlan(c) /\ tree' = tree /\ scene' = scene
    BY <1>4 DEF PlanPicked, PickedPlan, Answer
  <2>2. PickedPlan(c)' = PickedPlan(c)
    BY <2>1 DEF Rows, Up, PickedPlan, Answer, Resolver
  <2> QED BY <2>1, <2>2 DEF PlanInv
<1>5. Keys => tree' = tree /\ scene' = scene /\ plan' = plan
  BY DEF Keys, Accept, Back, Quit, Skip, Killed, KilledSaving, PickAlternative, _prompt_for_id, _prompt_for_search, Anchored, Stays
<1> QED BY <1>1, <1>2, <1>3, <1>4, <1>5 DEF Next, vars, run_report, run_review_simple

-----------------------------------------------------------------------------
(* The numbers of an episode                                               *)

\* What is the first of its kind stays so, whatever comes after it.
LEMMA FirstStays ==
  ASSUME NEW S, NEW a \in Seq(S), NEW x \in S, NEW b \in Seq(S), \A i \in DOMAIN a : a[i].k # x.k
  PROVE  LET s == (a \o <<x>>) \o b IN s[First(s, x.k)] = x
<1> DEFINE s == (a \o <<x>>) \o b
           n == Len(a) + 1
<1>1. s \in Seq(S) /\ n \in 1 .. Len(s) /\ s[n] = x
  OBVIOUS
<1>2. \A i \in 1 .. Len(s) : i < n => s[i].k # x.k
  <2>1. \A i \in 1 .. Len(a) : s[i] = a[i] /\ i \in DOMAIN a
    OBVIOUS
  <2>2. \A i \in 1 .. Len(s) : i < n => i \in 1 .. Len(a)
    OBVIOUS
  <2> HIDE DEF s, n
  <2> QED BY <2>1, <2>2
<1>3. Len(a) \in Nat
  OBVIOUS
<1> HIDE DEF s
<1>4. IsList(s)
  BY <1>1, ListOf
<1>5. /\ First(s, x.k) \in 0 .. Len(s)
      /\ First(s, x.k) = 0 => \A i \in 1 .. Len(s) : s[i].k # x.k
      /\ First(s, x.k) # 0 => /\ s[First(s, x.k)].k = x.k
                              /\ \A i \in 1 .. Len(s) : s[i].k = x.k => First(s, x.k) <= i
  BY <1>4, FirstIs
<1>6. First(s, x.k) # 0 /\ First(s, x.k) <= n
  BY <1>1, <1>5
<1>7. First(s, x.k) \in 1 .. Len(s) /\ ~(First(s, x.k) < n)
  <2>1. Len(s) \in Nat
    BY <1>1
  <2> QED BY <1>2, <1>5, <1>6, <2>1
<1>8. First(s, x.k) = n
  BY <1>3, <1>6, <1>7
<1> QED BY <1>1, <1>8 DEF s

\* The numbers in the name of an episode's target are those it is given.
LEMMA EpisodeNamed ==
  ASSUME NoneIsNoFunction, NEW show, IsName(show.title), Unmarked(show.title),
         NEW season, NEW episode, NEW title, IsName(title), NEW end
  PROVE  LET at == Atoms(tv_episode_basename(show, season, episode, title, end))
         IN \E last : at[First(at, "se")].v = <<season, episode, last>>
<1> DEFINE last == IF end # None /\ end > episode THEN end ELSE None
           value == <<season, episode, last>>
           atom == [k |-> "se", v |-> value]
           year == Segment("year", show.year)
           se == Segment("se", value)
           head == Glue(show.title, year)
           whole == Glue(Glue(head, se), title)
<1>1. value # None
  <2>1. value = [i \in DOMAIN value |-> value[i]]
    OBVIOUS
  <2> HIDE DEF value
  <2> QED BY <2>1 DEF NoneIsNoFunction
<1>2. tv_episode_basename(show, season, episode, title, end) = sanitize_component(whole)
  BY DEF tv_episode_basename
<1>3. IsName(year) /\ \A i \in DOMAIN Atoms(year) : Atoms(year)[i].k # "se"
  BY SegmentIs
<1>4. IsName(se) /\ Atoms(se) = <<atom>>
  <2> HIDE DEF value
  <2> QED BY <1>1, SegmentIs
<1> HIDE DEF year, se, value
<1>5. IsName(head) /\ Atoms(head) = Atoms(show.title) \o Atoms(year)
  BY <1>3, Glued
<1>6. \A i \in DOMAIN Atoms(head) : Atoms(head)[i].k # "se"
  <2>1. PICK T : show.title \in Seq(Seq(T)) /\ year \in Seq(Seq(T))
    BY <1>3, NamesOver
  <2>2. PICK t, y : t = Atoms(show.title) /\ y = Atoms(year)
    OBVIOUS
  <2>3. t \in Seq(T) /\ y \in Seq(T)
    BY <2>1, <2>2, FlattenType DEF Atoms
  <2>4. (\A i \in DOMAIN t : t[i].k # "se") /\ \A i \in DOMAIN y : y[i].k # "se"
    BY <1>3, <2>2 DEF Unmarked, HasKind
  <2>5. \A i \in DOMAIN (t \o y) : (t \o y)[i].k # "se"
    <3> SUFFICES ASSUME NEW i \in DOMAIN (t \o y) PROVE (t \o y)[i].k # "se"
      OBVIOUS
    <3>1. \/ i \in DOMAIN t /\ (t \o y)[i] = t[i]
          \/ i - Len(t) \in DOMAIN y /\ (t \o y)[i] = y[i - Len(t)]
      BY <2>3
    <3> QED BY <2>4, <3>1
  <2> QED BY <1>5, <2>2, <2>5
<1> HIDE DEF head
<1>7. IsName(Glue(head, se)) /\ Atoms(Glue(head, se)) = Atoms(head) \o <<atom>>
  BY <1>4, <1>5, Glued
<1>8. IsName(whole) /\ Atoms(whole) = (Atoms(head) \o <<atom>>) \o Atoms(title)
  BY <1>7, Glued
<1>9. PICK S : Atoms(head) \in Seq(S) /\ Atoms(title) \in Seq(S) /\ atom \in S
  <2>1. PICK T : head \in Seq(Seq(T)) /\ title \in Seq(Seq(T))
    BY <1>5, NamesOver
  <2> DEFINE U == T \cup {atom}
  <2>2. Atoms(head) \in Seq(T) /\ Atoms(title) \in Seq(T)
    BY <2>1, FlattenType DEF Atoms
  <2>3. Atoms(head) \in Seq(U) /\ Atoms(title) \in Seq(U) /\ atom \in U
    BY <2>2, SeqMonotonic
  <2> QED BY <2>3
<1> HIDE DEF whole
<1>10. PICK a, b : a = Atoms(head) /\ b = Atoms(title)
  OBVIOUS
<1> DEFINE s == (a \o <<atom>>) \o b
<1>11. Atoms(whole) = s /\ a \in Seq(S) /\ b \in Seq(S)
  BY <1>8, <1>9, <1>10
<1>12. atom.k = "se" /\ atom.v = value
  OBVIOUS
<1> HIDE DEF atom
<1>13. s[First(s, "se")] = atom
  <2>1. \A i \in DOMAIN a : a[i].k # atom.k
    BY <1>6, <1>10, <1>12
  <2>2. s[First(s, atom.k)] = atom
    BY <1>9, <1>11, <2>1, FirstStays
  <2> HIDE DEF s
  <2> QED BY <1>12, <2>2
<1>14. s # <<>>
  BY <1>9, <1>11
<1> HIDE DEF s
<1>15. Atoms(sanitize_component(whole)) = s
  BY <1>8, <1>11, <1>14, Sanitized
<1> QED BY <1>2, <1>12, <1>13, <1>15 DEF value

\* An episode that is found has its own numbers, or a title like its own.
LEMMA FoundIs ==
  ASSUME NEW p, NEW c, Known(c), c # None, NEW up, NEW e, e = match_episode(p, c, up), e # None
  PROVE  \/ HasNumbers(p) /\ e.season = p.season /\ e.episode = p.episode
         \/ \E key \in DOMAIN Episodes : \E i \in DOMAIN Episodes[key] :
               /\ Episodes[key][i] = e
               /\ p.eptitle # <<>> /\ token_set_ratio(p.eptitle, Title(e)) >= MIN_TITLE_SCORE_FOR_MATCH
<1>1. PICK eps : eps = _ensure_episodes(p, c, up)
  OBVIOUS
<1>2. IsList(eps) /\ \A x \in ToSet(eps) : \E key \in DOMAIN Episodes : x \in ToSet(Episodes[key])
  BY <1>1, Fetched
<1>3. e = Matched(p, eps)
  BY <1>1 DEF match_episode
<1>4. \/ e \in ToSet(eps) /\ HasNumbers(p) /\ At(e, p)
      \/ /\ e \in ToSet(eps) /\ p.eptitle # <<>>
         /\ token_set_ratio(p.eptitle, Title(e)) >= MIN_TITLE_SCORE_FOR_MATCH
      \/ HasNumbers(p) /\ e = Synthetic(p)
      \/ ~HasNumbers(p) /\ e = None
  BY <1>2, <1>3, Matches
<1>5. \A key \in DOMAIN Episodes : e \in ToSet(Episodes[key]) => \E i \in DOMAIN Episodes[key] : Episodes[key][i] = e
  BY DEF ToSet
<1>6. Synthetic(p).season = p.season /\ Synthetic(p).episode = p.episode
  BY DEF Synthetic
<1>7. CASE e \in ToSet(eps) /\ p.eptitle # <<>> /\ token_set_ratio(p.eptitle, Title(e)) >= MIN_TITLE_SCORE_FOR_MATCH
  BY <1>2, <1>5, <1>7
<1>8. CASE (e \in ToSet(eps) /\ HasNumbers(p) /\ At(e, p)) \/ (HasNumbers(p) /\ e = Synthetic(p))
  BY <1>6, <1>8 DEF At
<1> QED BY <1>4, <1>7, <1>8

LEMMA NumbersRight ==
  ASSUME NoneIsNoFunction, TitlesUnmarked, TreeInv, PlanInv
  PROVE  RightNumbers
<1> DEFINE Speaks(p, m, n) ==
             \E key \in DOMAIN Episodes : \E i \in DOMAIN Episodes[key] :
               LET e == Episodes[key][i]
               IN /\ e.season = m /\ e.episode = n
                  /\ p.eptitle # <<>> /\ token_set_ratio(p.eptitle, Title(e)) >= MIN_TITLE_SCORE_FOR_MATCH
<1>1. ASSUME NEW op \in Ops \cup Blocked, op.kind = "tv",
             NEW p, p = RowOf(op.source),
             NEW at, at = Atoms(op.target.name)[First(Atoms(op.target.name), "se")].v
      PROVE  IF is_special(p) THEN at[1] = 0
             ELSE (HasNumbers(p) /\ at[1] = p.season /\ at[2] = p.episode) \/ Speaks(p, at[1], at[2])
  <2>1. plan # None
    BY DEF Ops, Blocked
  <2>2. PICK pairs, skipped : Asks(pairs, skipped) /\ plan = build_plan_from_pairs(pairs, skipped, Up, scene.editions)
    BY <2>1, PlanAsks DEF TreeInv
  <2> DEFINE ed == scene.editions
  <2>3. IsList(pairs) /\ IsList(skipped)
    BY <2>2 DEF Asks
  <2>4. op \in ToSet(Made(pairs, Up, ed))
    <3>1. PICK pl : pl = plan
      OBVIOUS
    <3>2. pl = build_plan_from_pairs(pairs, skipped, Up, ed)
      BY <2>2, <3>1
    <3> HIDE DEF ed
    <3>3. \A o : o \in ToSet(Made(pairs, Up, ed)) <=> o \in ToSet(pl.ops) \/ o \in ToSet(pl.collisions)
      BY <2>3, <3>2, PlanIs
    <3> QED BY <1>1, <2>1, <3>1, <3>3 DEF Ops, Blocked
  <2>5. PICK x \in ToSet(pairs) :
            /\ x[1] \in ToSet(Rows) /\ op.source = x[1].file /\ op.kind = x[1].kind /\ x[2] # None /\ Known(x[2])
            /\ \/ x[1].kind = "movie" /\ MadeOfMovie(pairs, ed, x, op)
               \/ x[1].kind = "tv" /\ HasIndices(x[1], x[2], Up) /\ op = ShowOp(x, Up)
    <3> HIDE DEF ed
    <3> QED BY <2>2, <2>4, OpOf
  <2>6. x[1] = p /\ HasIndices(p, x[2], Up) /\ op = ShowOp(x, Up)
    BY <1>1, <2>5, RowOfIs DEF TreeInv
  <2>7. PICK c : c = x[2]
    OBVIOUS
  <2>8. PICK n : n = _resolve_tv_indices(p, c, Up)
    OBVIOUS
  <2>9. PICK title : title = _episode_title(p, c, n[1], n[2], Up)
    OBVIOUS
  <2>10. op.target.name = tv_episode_basename(c, n[1], n[2], title, p.end)
    BY <2>6, <2>7, <2>8, <2>9 DEF ShowOp, TvOp, Op, tv_target_path
  <2>11. IsName(title)
    <3>1. IsList(p.eptitle)
      <4>1. PICK f \in ToSet(tree.files) : p = RowOfFile(f, tree.files, tree.single)
        BY <2>5, <2>6, RowsAre DEF TreeInv
      <4>2. is_video(f) => IsName(f.name)
        BY DEF TreeInv
      <4> QED BY <4>1, <4>2, TitledRow DEF TreeInv
    <3> QED BY <2>5, <2>7, <2>9, <3>1, EpisodeTitled
  <2>12. at[1] = n[1] /\ at[2] = n[2]
    <3>1. IsName(c.title) /\ Unmarked(c.title)
      BY <2>5, <2>7 DEF Known
    <3>2. PICK last : at = <<n[1], n[2], last>>
      BY <1>1, <2>10, <2>11, <3>1, EpisodeNamed
    <3> QED BY <3>2
  <2>13. CASE is_special(p)
    <3>1. n[1] = 0
      BY <2>8, <2>13 DEF _resolve_tv_indices
    <3> QED BY <2>12, <2>13, <3>1
  <2>14. CASE ~is_special(p)
    <3>1. PICK e : e = match_episode(p, c, Up)
      OBVIOUS
    <3>2. e # None
      BY <2>6, <2>7, <2>14, <3>1 DEF HasIndices
    <3>3. n[1] = e.season /\ n[2] = e.episode
      BY <2>8, <2>14, <3>1 DEF _resolve_tv_indices
    <3>4. \/ HasNumbers(p) /\ e.season = p.season /\ e.episode = p.episode
          \/ \E key \in DOMAIN Episodes : \E i \in DOMAIN Episodes[key] :
                /\ Episodes[key][i] = e
                /\ p.eptitle # <<>> /\ token_set_ratio(p.eptitle, Title(e)) >= MIN_TITLE_SCORE_FOR_MATCH
      <4>1. Known(c) /\ c # None
        BY <2>5, <2>7
      <4> QED BY <3>1, <3>2, <4>1, FoundIs
    <3> QED BY <2>12, <2>14, <3>3, <3>4
  <2> QED BY <2>13, <2>14
<1> QED BY <1>1 DEF RightNumbers

-----------------------------------------------------------------------------
(* The theorems                                                            *)

IInv == TreeInv /\ PlanInv /\ SavedInv /\ ChoiceInv /\ ReportInv

LEMMA Initially == Init => IInv
<1> SUFFICES ASSUME Init PROVE IInv
  OBVIOUS
<1>1. TreeInv
  BY ScenesAssumption DEF Init, TreeInv, IsList
<1>2. ChoiceInv
  BY EmptyList DEF Init, ChoiceInv, Empty
<1> QED BY <1>1, <1>2 DEF Init, IInv, PlanInv, SavedInv, SessionInv, SavedSoFar, ReportInv

LEMMA Inductive == Spec => []IInv
<1>1. Init => IInv
  BY Initially
<1>2. IInv /\ [Next]_vars => IInv'
  BY TreeStep, PlanStep, SavedStep, ChoiceStep, ReportStep DEF IInv, SavedInv
<1> QED BY <1>1, <1>2, PTL DEF Spec

\* Every anchor the user gives is in the file the review saves to when the
\* next group is shown, and a pick that was not taken back is in it after the
\* review, whatever key ended it or wherever it was killed, unless inside a
\* write: _persist_state is called before _walk_groups goes on. That an anchor
\* was taken back (k) is not promised to be in the file.
THEOREM Decisions == Spec => []DecisionsSaved
<1>1. ChoiceInv => PicksKept
  BY DEF ChoiceInv, PickHolds, PicksKept
<1>2. IInv => DecisionsSaved
  BY <1>1 DEF IInv, SavedInv, DecisionsSaved
<1> QED BY <1>2, Inductive, PTL

\* What was picked in a review is what report --anchors shows for every row
\* of the group, whatever the rows are and however often the file was loaded
\* and saved since: _candidate_to_anchor, merge_overrides and
\* _apply_overrides undo one another when no two anchors share an id.
THEOREM Replay ==
  ASSUME NoneIsNoFunction
  PROVE  Spec => []ReplayShowsChoice
<1>1. IInv => ReplayShowsChoice
  BY Replayed DEF IInv, TreeInv
<1> QED BY <1>1, Inductive, PTL

\* Every movie and episode of the tree is in the plan exactly once: as an op,
\* in a collision, or among the skipped; but for the episodes whose name has
\* no numbers (build_plan, build_plan_from_pairs, detect_collisions).
THEOREM Once ==
  ASSUME NoneIsNoFunction
  PROVE  Spec => []EveryVideoOnce
<1>1. IInv => EveryVideoOnce
  BY VideosOnce DEF IInv, TreeInv
<1> QED BY <1>1, Inductive, PTL

\* Two parts of a movie that have different numbers have different targets,
\* whatever candidates their rows were given (group_multi_part,
\* movie_base_stem).
THEOREM PartsKeptApart ==
  ASSUME NoneIsNoFunction
  PROVE  Spec => []PartsStayApart
<1>1. IInv => PartsStayApart
  BY PartsApart DEF IInv, TreeInv
<1> QED BY <1>1, Inductive, PTL

\* An episode is not given other numbers than its name has unless the title
\* in its name speaks for them, and a special stays in Season 00: whatever
\* episodes TMDB lists and however close their titles are (match_episode,
\* _resolve_tv_indices, tv_episode_basename), if no show's title has an
\* S01E02 in it, which would be read as the numbers.
THEOREM Numbers ==
  ASSUME NoneIsNoFunction, TitlesUnmarked
  PROVE  Spec => []RightNumbers
<1>1. IInv => RightNumbers
  BY NumbersRight DEF IInv
<1> QED BY <1>1, Inductive, PTL
=============================================================================
