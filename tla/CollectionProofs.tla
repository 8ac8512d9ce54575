--------------------------- MODULE CollectionProofs ---------------------------
(***************************************************************************)
(* What the collection cycle promises for every table of PIDs and of DIDs, *)
(* every budget, period of the group and limit of errors: the record holds *)
(* the group whole or not at all, and no DID starves.                      *)
(***************************************************************************)
EXTENDS Collection, FiniteSetTheorems, WellFoundedInduction, TLAPS

-----------------------------------------------------------------------------
(* The inductive invariant, by parts.                                      *)

\* The statics are arrays over their tables.
Arrays ==
  /\ idx \in [{2, 3} -> Nat]
  /\ late \in [Others -> Nat]
  /\ beyond \in {0, 3}

\* A pass never stands behind an entry of a tier it has not come to; tier 2 is not the last
\* of the table, so its counter never runs past its entries.
TurnsOfTiers ==
  /\ idx[2] <= Cardinality(EntriesOf(2))
  /\ pc = "obd" /\ 0 < i /\ i < Count => TierOf(i - 1) <= tier

\* The count of errors reaches its limit only where process() looks at it.
ErrorsSeen == pc \notin {"errors", "parked"} => errors < MaxErrors

\* Up to processUDS() the record holds nothing of the group but the RPM of this cycle.
OnlyRpmYet ==
  pc \in {"obd", "overrun", "errors", "uds"} =>
    record \subseteq {RpmElement} /\ (rpmValid => RpmElement \in record)

\* The cycles with a group among the last late[d], and what the round robin had in them all.
Groups(d) == (late[d] + groupWait) \div GroupPeriod
Granted(d) == (late[d] - Groups(d)) * MaxPerCycle + Groups(d) * AfterGroup

\* Those that are still before d in the round.
Before(d) == {e \in Others : Turn(e) < Turn(d)}

\* Every read granted while d was due and not read went to another one that was before d in
\* the round and now is behind it.
RoundGoesOn ==
  \A d \in Others :
    /\ late[d] > 0 => wait[d] = 0
    /\ Granted(d) + Cardinality(Before(d)) < Cardinality(Others)

IInv ==
  /\ TypeOK /\ Arrays /\ TurnsOfTiers /\ ErrorsSeen
  /\ OnlyRpmYet /\ GroupAtomic /\ RoundGoesOn

\* The same by what a step touches, types included.
RoundHolds ==
  /\ rr \in DIDs /\ groupWait \in 0 .. GroupPeriod - 1
  /\ DOMAIN wait = DIDs /\ \A d \in DIDs : wait[d] \in 0 .. IntervalOf(d)
  /\ late \in [Others -> Nat]
  /\ RoundGoesOn
TiersHold ==
  /\ idx \in [{2, 3} -> Nat] /\ beyond \in {0, 3}
  /\ idx[2] <= Cardinality(EntriesOf(2)) /\ idx[3] <= Cardinality(EntriesOf(3)) + 1
  /\ i \in 0 .. Count + 1 /\ tier \in 1 .. 3
  /\ pc = "obd" /\ 0 < i /\ i < Count => TierOf(i - 1) <= tier
ControlHolds ==
  /\ pc \in {"begin", "obd", "overrun", "errors", "uds", "publish", "parked"}
  /\ errors \in 0 .. MaxErrors
  /\ ErrorsSeen
FlagsHold == ready \in BOOLEAN /\ mapRead \in BOOLEAN /\ rpmValid \in BOOLEAN
RecordHolds == record \subseteq Members \cup {RpmElement} /\ OnlyRpmYet /\ GroupAtomic

-----------------------------------------------------------------------------
(* Numbers.                                                                *)

\* A set of numbers that is not empty has a smallest one.
LEMMA Smallest ==
  ASSUME NEW T \in SUBSET Nat, T # {}
  PROVE  \E x \in T : \A y \in T : x <= y
<1>1. PICK x \in T : \A y \in T : <<y, x>> \notin OpToRel(<, Nat)
  BY NatLessThanWellFounded, WFMin
<1>2. ASSUME NEW y \in T
      PROVE  x <= y
  <2>1. <<y, x>> \in OpToRel(<, Nat) <=> y < x
    BY DEF OpToRel
  <2>2. ~(y < x)
    BY <1>1, <2>1, Zenon
  <2> QED
    BY <2>2
<1> QED
  BY <1>2

\* The quotient, and what it tells.
LEMMA Quotient ==
  ASSUME NEW a \in Nat, NEW b \in Nat \ {0}
  PROVE  /\ a \div b \in Nat
         /\ (a \div b) * b <= a /\ a < (a \div b) * b + b
OBVIOUS

\* What tells the quotient.
LEMMA QuotientIs ==
  ASSUME NEW a \in Nat, NEW b \in Nat \ {0}, NEW q \in Nat, q * b <= a, a < q * b + b
  PROVE  a \div b = q
OBVIOUS

\* One period more, one more in the quotient.
LEMMA NextPeriod ==
  ASSUME NEW a \in Nat, NEW b \in Nat \ {0}
  PROVE  (a + b) \div b = a \div b + 1
OBVIOUS

-----------------------------------------------------------------------------
(* The tables.                                                             *)

\* The tables are finite and not empty, and the element of the RPM is that of no DID.
LEMMA Tables ==
  /\ Len(Interval) \in Nat \ {0} /\ DIDs \subseteq Nat /\ 0 \in DIDs
  /\ \A d \in DIDs : IntervalOf(d) \in Nat /\ d < Len(Interval)
  /\ IsFiniteSet(DIDs) /\ IsFiniteSet(Members) /\ IsFiniteSet(Others)
  /\ Cardinality(Members) \in Nat /\ Cardinality(Others) \in Nat
  /\ RpmElement \notin Members
<1>1. /\ Len(Interval) \in Nat \ {0} /\ DIDs \subseteq Nat /\ 0 \in DIDs
      /\ \A d \in DIDs : IntervalOf(d) \in Nat /\ d < Len(Interval)
      /\ RpmElement \notin Members
  BY CollectionAssumption DEF DIDs, IntervalOf, Members, RpmElement
<1>2. IsFiniteSet(DIDs)
  BY FS_Interval DEF DIDs
<1>3. IsFiniteSet(Members) /\ IsFiniteSet(Others)
  BY <1>2, FS_Subset DEF Members, Others
<1> QED
  BY <1>1, <1>2, <1>3, FS_CardinalityType

\* The number of entries of the table that the cursor passes on its way to d is that of d only.
LEMMA Turns ==
  ASSUME rr \in DIDs, NEW d \in DIDs
  PROVE  Turn(d) \in 0 .. Len(Interval) - 1
BY Tables DEF Turn

\* The cursor goes on behind a DID of the table.
LEMMA CursorMoves ==
  ASSUME NEW d \in DIDs
  PROVE  (d + 1) % Len(Interval) = IF d + 1 = Len(Interval) THEN 0 ELSE d + 1
<1>1. d + 1 \in Nat /\ d + 1 <= Len(Interval) /\ Len(Interval) \in Nat \ {0}
  BY Tables
<1> QED
  BY <1>1

-----------------------------------------------------------------------------
(* The round.                                                              *)

\* Who is due and not served has at least as many due before it as the budget is for, and
\* just those are served.
LEMMA BudgetIsSpent ==
  ASSUME rr \in DIDs, NEW b \in Nat, NEW d \in Due, d \notin Served(b)
  PROVE  /\ \A e \in Served(b) : Turn(e) < Turn(d)
         /\ IsFiniteSet(Served(b)) /\ Cardinality(Served(b)) >= b
<1> DEFINE Ahead(x) == {e \in Due : Turn(e) < Turn(x)}
<1> DEFINE Left == {Turn(x) : x \in Due \ Served(b)}
<1>1. Due \subseteq DIDs /\ IsFiniteSet(Due)
  BY Tables, FS_Subset DEF Due, Others
<1>2. \A x \in Due : Turn(x) \in Nat
  BY <1>1, Turns
<1>3. \A x \in Due : IsFiniteSet(Ahead(x)) /\ Cardinality(Ahead(x)) \in Nat
  BY <1>1, FS_Subset, FS_CardinalityType
<1>4. PICK m \in Left : \A y \in Left : m <= y
  <2>1. Left \in SUBSET Nat /\ Left # {}
    BY <1>2
  <2> QED
    BY <2>1, Smallest
<1>5. PICK f \in Due \ Served(b) : Turn(f) = m
  OBVIOUS
<1>6. \A x \in Due \ Served(b) : Turn(f) <= Turn(x)
  BY <1>4, <1>5
<1>7. Ahead(f) \subseteq Served(b)
  BY <1>2, <1>6
<1>8. Cardinality(Ahead(f)) >= b
  BY <1>3 DEF Served
<1>9. ASSUME NEW e \in Served(b)
      PROVE  Turn(e) < Turn(f)
  <2>1. e \in Due /\ Cardinality(Ahead(e)) < b
    BY DEF Served
  <2>2. CASE Turn(f) <= Turn(e)
    <3>1. Ahead(f) \in SUBSET Ahead(e)
      BY <1>2, <2>1, <2>2
    <3>2. Cardinality(Ahead(f)) <= Cardinality(Ahead(e))
      BY <1>3, <2>1, <3>1, FS_Subset
    <3> QED
      BY <1>3, <1>8, <2>1, <3>2
  <2> QED
    BY <1>2, <2>1, <2>2
<1>10. IsFiniteSet(Served(b)) /\ Cardinality(Ahead(f)) <= Cardinality(Served(b))
  <2>1. IsFiniteSet(Served(b))
    BY <1>1, FS_Subset DEF Served
  <2> QED
    BY <1>7, <2>1, FS_Subset
<1>11. Cardinality(Served(b)) \in Nat
  BY <1>10, FS_CardinalityType
<1>12. \A e \in Served(b) : Turn(e) < Turn(d)
  BY <1>2, <1>6, <1>9 DEF Served
<1> QED
  BY <1>3, <1>8, <1>10, <1>11, <1>12

\* The cursor stays in the table. Whoever was served, and was before d, is behind d then, and
\* nobody overtakes d.
LEMMA RoundTurns ==
  ASSUME rr \in DIDs, NEW served \in SUBSET Others, MoveCursor(served)
  PROVE  /\ rr' \in DIDs
         /\ \A d \in Others :
              (\A e \in served : Turn(e) < Turn(d)) => Before(d)' \subseteq Before(d) \ served
<1>1. CASE served = {}
  BY <1>1 DEF MoveCursor, Before, Turn
<1>2. CASE served # {}
  <2>1. PICK last \in served : /\ \A e \in served : Turn(e) <= Turn(last)
                              /\ rr' = (last + 1) % Len(Interval)
    BY <1>2 DEF MoveCursor
  <2>2. last \in DIDs /\ Others \subseteq DIDs
    BY DEF Others
  <2>3. rr' = IF last + 1 = Len(Interval) THEN 0 ELSE last + 1
    BY <2>1, <2>2, CursorMoves
  <2>4. rr' \in DIDs
    BY <2>2, <2>3 DEF DIDs
  <2>5. ASSUME NEW d \in Others, \A e \in served : Turn(e) < Turn(d), NEW e \in Before(d)'
        PROVE  e \in Before(d) \ served
    <3>1. e \in Others /\ Turn(e)' < Turn(d)'
      BY DEF Before
    <3>2. Turn(last) < Turn(d)
      BY <2>5
    <3>3. Turn(last) < Turn(e) /\ Turn(e) < Turn(d)
      <4> DEFINE N == Len(Interval)
      <4>1. N \in Nat /\ {rr, last, d, e} \subseteq 0 .. N - 1
        BY <2>2, <3>1, Tables
      <4>2. rr' = IF last + 1 = N THEN 0 ELSE last + 1
        BY <2>3
      <4>3. /\ (IF last >= rr THEN last - rr ELSE last - rr + N)
                 < (IF d >= rr THEN d - rr ELSE d - rr + N)
            /\ (IF e >= rr' THEN e - rr' ELSE e - rr' + N)
                 < (IF d >= rr' THEN d - rr' ELSE d - rr' + N)
        BY <3>1, <3>2 DEF Turn
      <4> HIDE DEF N
      <4>4. /\ (IF last >= rr THEN last - rr ELSE last - rr + N)
                 < (IF e >= rr THEN e - rr ELSE e - rr + N)
            /\ (IF e >= rr THEN e - rr ELSE e - rr + N)
                 < (IF d >= rr THEN d - rr ELSE d - rr + N)
        BY <4>1, <4>2, <4>3
      <4> QED
        BY <4>4 DEF Turn, N
    <3> QED
      BY <2>1, <2>2, <3>3, Turns DEF Before
  <2> QED
    BY <2>4, <2>5
<1> QED
  BY <1>1, <1>2

\* What the group leaves of the budget is a number, and no more than the budget.
LEMMA Budgets ==
  /\ MaxPerCycle \in Nat \ {0} /\ GroupPeriod \in Nat \ {0} /\ MaxErrors \in Nat \ {0}
  /\ AfterGroup \in Nat /\ AfterGroup <= MaxPerCycle
BY CollectionAssumption, Tables DEF AfterGroup

\* One factor more is one number more.
LEMMA OneMore ==
  ASSUME NEW factor \in Int, NEW number \in Int
  PROVE  (factor + 1) * number = factor * number + number
OBVIOUS

\* Of those before d, however many, there are fewer than there are others.
LEMMA BeforeSome ==
  ASSUME NEW d \in Others, NEW S \in SUBSET (Others \ {d})
  PROVE  /\ IsFiniteSet(S) /\ Cardinality(S) \in Nat
         /\ Cardinality(S) < Cardinality(Others)
<1>1. IsFiniteSet(Others \ {d}) /\ Cardinality(Others \ {d}) = Cardinality(Others) - 1
  BY Tables, FS_RemoveElement
<1>2. IsFiniteSet(S) /\ Cardinality(S) <= Cardinality(Others) - 1
  BY <1>1, FS_Subset
<1> QED
  BY <1>2, Tables, FS_CardinalityType

\* One more cycle in vain grants the others one more budget, the smaller one after a group.
LEMMA OneMoreCycle ==
  ASSUME NEW d \in Others, late[d] \in Nat, groupWait \in 0 .. GroupPeriod - 1,
         late'[d] = late[d] + 1,
         groupWait' = IF groupWait = 0 THEN GroupPeriod - 1 ELSE groupWait - 1
  PROVE  /\ Groups(d) \in Nat
         /\ Granted(d)' = Granted(d) + IF groupWait = 0 THEN AfterGroup ELSE MaxPerCycle
<1> DEFINE L == late[d]
<1>1. L + groupWait \in Nat /\ Groups(d) \in Nat
  BY Budgets DEF Groups
<1>2. CASE groupWait = 0
  <2>1. Groups(d)' = (L + GroupPeriod) \div GroupPeriod
    BY <1>2, Budgets DEF Groups
  <2>2. Groups(d)' = Groups(d) + 1
    <3>1. (L + GroupPeriod) \div GroupPeriod = L \div GroupPeriod + 1
      BY Budgets
    <3>2. Groups(d) = L \div GroupPeriod
      BY <1>2 DEF Groups
    <3> QED
      BY <2>1, <3>1, <3>2
  <2>3. Granted(d)' = (L + 1 - (Groups(d) + 1)) * MaxPerCycle + (Groups(d) + 1) * AfterGroup
    BY <1>1, <2>2 DEF Granted
  <2> QED
    BY <1>1, <1>2, <2>3, Budgets DEF Granted
<1>3. CASE groupWait # 0
  <2>1. Groups(d)' = Groups(d)
    BY <1>3 DEF Groups
  <2>2. Granted(d)' = (L + 1 - Groups(d)) * MaxPerCycle + Groups(d) * AfterGroup
    BY <1>1, <2>1 DEF Granted
  <2>3. L + 1 - Groups(d) = (L - Groups(d)) + 1 /\ L - Groups(d) \in Int
    BY <1>1
  <2>4. (L + 1 - Groups(d)) * MaxPerCycle = (L - Groups(d)) * MaxPerCycle + MaxPerCycle
    BY <2>3, Budgets, OneMore
  <2>5. /\ (L - Groups(d)) * MaxPerCycle \in Int /\ MaxPerCycle \in Int
        /\ Groups(d) * AfterGroup \in Int
    BY <1>1, <2>3, Budgets
  <2>6. Granted(d) = (L - Groups(d)) * MaxPerCycle + Groups(d) * AfterGroup
    BY DEF Granted
  <2> QED
    BY <1>1, <1>3, <2>2, <2>4, <2>5, <2>6
<1> QED
  BY <1>2, <1>3

\* A pass of the round robin with at least the budget of its cycle.
LEMMA RoundPreserves ==
  ASSUME TypeOK, Arrays, RoundGoesOn, NEW b \in Nat, RoundRobin(b),
         b >= IF groupWait = 0 THEN AfterGroup ELSE MaxPerCycle,
         groupWait' = IF groupWait = 0 THEN GroupPeriod - 1 ELSE groupWait - 1
  PROVE  RoundHolds'
<1> DEFINE served == Served(b)
<1> DEFINE Left(d) == IF d \in served THEN IntervalOf(d) ELSE wait[d]
<1>1. rr \in DIDs /\ groupWait \in 0 .. GroupPeriod - 1 /\ late \in [Others -> Nat]
  BY DEF TypeOK, Arrays
<1>2. /\ wait' = [d \in DIDs |-> IF Left(d) > 0 THEN Left(d) - 1 ELSE 0]
      /\ MoveCursor(served)
      /\ late' = [d \in Others |-> IF wait[d] = 0 /\ d \notin served THEN late[d] + 1 ELSE 0]
  BY DEF RoundRobin
<1>3. served \in SUBSET Others /\ Others \subseteq DIDs
  BY DEF Served, Due, Others
<1>4. /\ rr' \in DIDs
      /\ \A d \in Others :
           (\A e \in served : Turn(e) < Turn(d)) => Before(d)' \subseteq Before(d) \ served
  BY <1>1, <1>2, <1>3, RoundTurns
<1>5. DOMAIN wait' = DIDs /\ \A d \in DIDs : wait'[d] \in 0 .. IntervalOf(d)
  <2>1. \A d \in DIDs : Left(d) \in 0 .. IntervalOf(d)
    BY Tables DEF TypeOK
  <2> QED
    BY <1>2, <2>1, Tables
<1>6. late' \in [Others -> Nat]
  BY <1>1, <1>2
<1>7. groupWait' \in 0 .. GroupPeriod - 1
  BY <1>1, Budgets
<1>8. ASSUME NEW d \in Others
      PROVE  /\ IsFiniteSet(Before(d)) /\ Cardinality(Before(d)) \in Nat
             /\ Cardinality(Before(d)') \in Nat /\ Cardinality(Before(d)') < Cardinality(Others)
  <2>1. Before(d) \in SUBSET (Others \ {d})
    BY <1>1, <1>3, Turns DEF Before
  <2>2. Before(d)' \in SUBSET (Others \ {d})
    BY <1>3, <1>4, Tables DEF Before, Turn
  <2> QED
    BY <2>1, <2>2, BeforeSome
<1>9. ASSUME NEW d \in Others
      PROVE  /\ late'[d] > 0 => wait'[d] = 0
             /\ Granted(d)' + Cardinality(Before(d)') < Cardinality(Others)
  <2>1. CASE wait[d] = 0 /\ d \notin served
    <3>1. d \in Due /\ late'[d] = late[d] + 1 /\ wait'[d] = 0
      BY <1>2, <1>3, <2>1 DEF Due
    <3>2. /\ Groups(d) \in Nat
          /\ Granted(d)' = Granted(d) + IF groupWait = 0 THEN AfterGroup ELSE MaxPerCycle
      BY <1>1, <3>1, OneMoreCycle
    <3>3. /\ \A e \in served : Turn(e) < Turn(d)
          /\ IsFiniteSet(served) /\ Cardinality(served) >= b
      BY <1>1, <2>1, <3>1, BudgetIsSpent
    <3>4. Before(d)' \subseteq Before(d) \ served /\ served \subseteq Before(d)
      BY <1>3, <1>4, <3>3 DEF Before
    <3>5. Cardinality(Before(d)') <= Cardinality(Before(d)) - Cardinality(served)
      <4>1. /\ IsFiniteSet(Before(d) \ served)
            /\ Cardinality(Before(d) \ served)
                 = Cardinality(Before(d)) - Cardinality(Before(d) \cap served)
        BY <1>8, FS_Difference
      <4>2. Before(d) \cap served = served
        BY <3>4
      <4>3. Cardinality(Before(d)') <= Cardinality(Before(d) \ served)
        BY <3>4, <4>1, FS_Subset
      <4> QED
        BY <4>1, <4>2, <4>3
    <3>6. /\ Cardinality(Before(d)) \in Nat /\ Cardinality(served) \in Nat
          /\ Cardinality(Before(d)') \in Nat
      BY <1>8, <3>3, FS_CardinalityType
    <3>7. Granted(d) + Cardinality(Before(d)) < Cardinality(Others) /\ Granted(d) \in Int
      BY <1>1, <3>2, Budgets DEF RoundGoesOn, Granted
    <3>8. /\ Granted(d)' - Granted(d) <= Cardinality(served)
          /\ Granted(d)' \in Int
      BY <3>2, <3>3, <3>6, <3>7, Budgets
    <3>9. Cardinality(Others) \in Int
      BY Tables
    <3> QED
      BY <3>1, <3>5, <3>6, <3>7, <3>8, <3>9
  <2>2. CASE ~(wait[d] = 0 /\ d \notin served)
    <3>1. late'[d] = 0
      BY <1>2, <2>2
    <3>2. groupWait' \div GroupPeriod = 0
      BY <1>7, Budgets
    <3>3. Groups(d)' = 0
      BY <3>1, <3>2 DEF Groups
    <3>4. Granted(d)' = 0
      BY <3>1, <3>3, Budgets DEF Granted
    <3> QED
      BY <1>8, <3>1, <3>4
  <2> QED
    BY <2>1, <2>2
<1> QED
  BY <1>4, <1>5, <1>6, <1>7, <1>9 DEF RoundHolds, RoundGoesOn

\* Whole periods in vain: each has granted the others what PerPeriod says, at least.
LEMMA WholePeriods ==
  ASSUME NEW d \in Others, late[d] \in Nat, groupWait \in 0 .. GroupPeriod - 1
  PROVE  (late[d] \div GroupPeriod) * PerPeriod <= Granted(d)
<1> DEFINE L == late[d]
<1> DEFINE M == MaxPerCycle
<1> DEFINE P == GroupPeriod
<1> DEFINE R == AfterGroup
<1> DEFINE q == L \div P
<1> DEFINE g == Groups(d)
<1> DEFINE r == L - q * P
<1>1. /\ M \in Nat /\ P \in Nat \ {0} /\ R \in Nat /\ R <= M
      /\ L \in Nat /\ groupWait \in 0 .. P - 1
  BY Budgets
<1>2. q \in Nat /\ r \in 0 .. P - 1 /\ L = q * P + r
  <2>1. q \in Nat /\ q * P <= L /\ L < q * P + P
    BY <1>1
  <2> QED
    BY <1>1, <2>1
<1>3. Granted(d) = (L - g) * M + g * R /\ PerPeriod = (P - 1) * M + R
  BY DEF Granted, PerPeriod
<1>4. g = (L + groupWait) \div P
  BY DEF Groups
<1> HIDE DEF L, M, P, R, q, g, r
<1>5. g = q \/ (g = q + 1 /\ r >= 1)
  <2>1. CASE r + groupWait < P
    BY <1>1, <1>2, <1>4
  <2>2. CASE r + groupWait >= P
    <3>1. /\ L + groupWait \in Nat /\ q + 1 \in Nat
          /\ (q + 1) * P <= L + groupWait /\ L + groupWait < (q + 1) * P + P
      BY <1>1, <1>2, <2>2
    <3>2. g = q + 1
      BY <1>1, <1>4, <3>1, QuotientIs
    <3> QED
      BY <1>1, <1>2, <2>2, <3>2
  <2> QED
    BY <1>1, <1>2, <2>1, <2>2
<1>6. CASE g = q
  <2>1. (L - q) * M + q * R = q * ((P - 1) * M + R) + r * M
    BY <1>1, <1>2
  <2>2. r * M >= 0 /\ r * M \in Int /\ q * ((P - 1) * M + R) \in Int
    BY <1>1, <1>2
  <2> QED
    BY <1>3, <1>6, <2>1, <2>2 DEF q, L, P
<1>7. CASE g = q + 1 /\ r >= 1
  <2>1. (L - (q + 1)) * M + (q + 1) * R = q * ((P - 1) * M + R) + ((r - 1) * M + R)
    BY <1>1, <1>2
  <2>2. (r - 1) * M + R >= 0 /\ (r - 1) * M + R \in Int /\ q * ((P - 1) * M + R) \in Int
    BY <1>1, <1>2, <1>7
  <2> QED
    BY <1>3, <1>7, <2>1, <2>2 DEF q, L, P
<1> QED
  BY <1>5, <1>6, <1>7

\* A DID that is due has been passed over by fewer reads than there are others, of which
\* each whole period of the group grants at least PerPeriod.
LEMMA StarvesNot ==
  ASSUME TypeOK, Arrays, RoundGoesOn
  PROVE  NothingStarves
<1> SUFFICES ASSUME NEW d \in Others
             PROVE  (late[d] \div GroupPeriod) * PerPeriod <= Cardinality(Others)
  BY DEF NothingStarves
<1>1. late[d] \in Nat /\ groupWait \in 0 .. GroupPeriod - 1 /\ rr \in DIDs
  BY DEF TypeOK, Arrays
<1>2. (late[d] \div GroupPeriod) * PerPeriod <= Granted(d)
  BY <1>1, WholePeriods
<1>3. Granted(d) + Cardinality(Before(d)) < Cardinality(Others)
  BY DEF RoundGoesOn
<1>4. Cardinality(Before(d)) \in Nat
  <2>1. Before(d) \in SUBSET (Others \ {d})
    BY <1>1, Turns DEF Before, Others
  <2> QED
    BY <2>1, BeforeSome
<1>5. /\ Granted(d) \in Int /\ (late[d] \div GroupPeriod) * PerPeriod \in Int
  <2>1. Groups(d) \in Int /\ late[d] \div GroupPeriod \in Int /\ PerPeriod \in Int
    BY <1>1, Budgets DEF Groups, PerPeriod
  <2> QED
    BY <1>1, <2>1, Budgets DEF Granted
<1> QED
  BY <1>2, <1>3, <1>4, <1>5, Tables

-----------------------------------------------------------------------------
(* The tiers of obdData[].                                                 *)

\* The entries stand in the order of their tiers, of which there are three.
LEMMA Tiers ==
  /\ Count \in Nat
  /\ \A p \in 0 .. Count - 1 : TierOf(p) \in 1 .. 3
  /\ \A p, q \in 0 .. Count - 1 : p <= q => TierOf(p) <= TierOf(q)
  /\ \A t : IsFiniteSet(EntriesOf(t)) /\ Cardinality(EntriesOf(t)) \in Nat
<1>1. Count \in Nat
  BY DEF Count
<1>2. \A p \in 0 .. Count - 1 : TierOf(p) \in 1 .. 3
  BY CollectionAssumption DEF Count, TierOf
<1>3. ASSUME NEW t
      PROVE  IsFiniteSet(EntriesOf(t)) /\ Cardinality(EntriesOf(t)) \in Nat
  <2>1. IsFiniteSet(0 .. Count - 1)
    BY <1>1, FS_Interval
  <2>2. IsFiniteSet(EntriesOf(t))
    BY <2>1, FS_Subset DEF EntriesOf
  <2> QED
    BY <2>2, FS_CardinalityType
<1> QED
  BY <1>1, <1>2, <1>3, CollectionAssumption

\* The entries from p to q are those of one tier.
LEMMA SameTier ==
  ASSUME NEW t \in Nat, NEW p \in Nat, NEW q \in Nat, p <= q + 1, q < Count,
         \A e \in p .. q : TierOf(e) = t
  PROVE  q - p + 1 <= Cardinality(EntriesOf(t))
<1>1. p .. q \in SUBSET EntriesOf(t)
  BY Tiers DEF EntriesOf
<1>2. Cardinality(p .. q) = q - p + 1
  BY FS_Interval
<1> QED
  BY <1>1, <1>2, Tiers, FS_Subset

\* A tier has no entries but those from p to q.
LEMMA NoMoreThan ==
  ASSUME NEW t \in Nat, NEW p \in Nat, NEW q \in Int, p <= q + 1,
         EntriesOf(t) \subseteq p .. q
  PROVE  Cardinality(EntriesOf(t)) <= q - p + 1
<1>1. IsFiniteSet(p .. q) /\ Cardinality(p .. q) = q - p + 1
  BY FS_Interval
<1> QED
  BY <1>1, FS_Subset

\* A tier is entered at its first entry, so its counter runs at most one past its entries, and
\* that only in tier 3, for the entry past the end of the table.
LEMMA TierBegins ==
  ASSUME TypeOK, Arrays, TurnsOfTiers, EnterTier
  PROVE  /\ idx' \in [{2, 3} -> Nat]
         /\ idx'[2] <= Cardinality(EntriesOf(2)) /\ idx'[3] <= Cardinality(EntriesOf(3)) + 1
         /\ i' \in 0 .. Count + 1 /\ tier' \in {2, 3}
         /\ pc' = "obd" /\ 0 < i' /\ i' < Count => TierOf(i' - 1) <= tier'
<1> DEFINE t == TierOf(i)
<1> DEFINE skip == i + idx[t]
<1> DEFINE left == TierAt(skip) = t
<1>1. /\ pc = "obd" /\ i \in 0 .. Count - 1 /\ tier \in 1 .. 3 /\ TierAt(i) = t
      /\ idx \in [{2, 3} -> Nat] /\ idx[2] <= Cardinality(EntriesOf(2))
      /\ idx[3] <= Cardinality(EntriesOf(3)) + 1
  BY Tiers DEF EnterTier, TypeOK, Arrays, TurnsOfTiers, TierAt
<1>2. /\ t > tier
      /\ tier' = t /\ i' = skip
      /\ idx' = [u \in {2, 3} |-> IF u = t THEN IF left THEN idx[t] + 1 ELSE ResetOn(t, t)
                                  ELSE ResetOn(tier, u)]
      /\ pc' = IF left /\ skip = Count THEN "overrun" ELSE "obd"
  BY <1>1 DEF EnterTier
<1>3. t \in {2, 3} /\ skip \in Nat /\ idx[t] \in Nat
  BY <1>1, <1>2, Tiers
<1>4. \A e \in 0 .. i - 1 : TierOf(e) < t
  <2>1. CASE i = 0
    BY <2>1
  <2>2. CASE i > 0
    <3>1. TierOf(i - 1) <= tier
      BY <1>1, <2>2, Tiers DEF TurnsOfTiers
    <3>2. /\ i - 1 \in 0 .. Count - 1
          /\ \A e \in 0 .. i - 1 : e \in 0 .. Count - 1 /\ e <= i - 1
      BY <1>1, <2>2, Tiers
    <3>3. /\ \A e \in 0 .. i - 1 : TierOf(e) <= TierOf(i - 1) /\ TierOf(e) \in 1 .. 3
          /\ TierOf(i - 1) \in 1 .. 3
      BY <3>2, Tiers
    <3> QED
      BY <1>1, <1>2, <1>3, <3>1, <3>3
  <2> QED
    BY <1>1, <2>1, <2>2
<1>5. \A e \in i .. Count - 1 : TierOf(e) >= t /\ TierOf(e) \in 1 .. 3
  BY <1>1, Tiers
<1>6. ASSUME left
      PROVE  idx[t] + 1 <= Cardinality(EntriesOf(t)) + (IF t = 3 THEN 1 ELSE 0)
  <2>1. CASE skip < Count
    <3>1. TierOf(skip) = t
      BY <1>6, <2>1 DEF TierAt
    <3>2. \A e \in i .. skip : TierOf(e) = t
      BY <1>1, <1>3, <2>1, <3>1, Tiers
    <3>3. skip - i + 1 <= Cardinality(EntriesOf(t))
      <4>1. i \in Nat /\ skip \in Nat /\ t \in Nat /\ i <= skip + 1
        BY <1>1, <1>3
      <4> HIDE DEF skip, t
      <4> QED
        BY <2>1, <3>2, <4>1, SameTier
    <3> QED
      BY <1>1, <1>3, <3>3, Tiers
  <2>2. CASE skip = Count
    <3>1. t = 3
      BY <1>3, <1>6, <2>2 DEF TierAt, Arrays
    <3>2. \A e \in i .. Count - 1 : TierOf(e) = t
      BY <1>5, <3>1
    <3>3. Count - i <= Cardinality(EntriesOf(t))
      <4>1. i \in Nat /\ Count - 1 \in Nat /\ t \in Nat /\ i <= Count - 1 + 1 /\ Count - 1 < Count
        BY <1>1, Tiers
      <4>2. Count - 1 - i + 1 <= Cardinality(EntriesOf(t))
        <5> HIDE DEF t
        <5> QED
          BY <3>2, <4>1, SameTier
      <4> QED
        BY <1>1, <4>2, Tiers
    <3> QED
      BY <1>1, <2>2, <3>1, <3>3, Tiers
  <2>3. CASE skip > Count
    BY <1>3, <1>6, <2>3, Tiers DEF TierAt
  <2> QED
    BY <1>3, <2>1, <2>2, <2>3, Tiers
<1>7. idx' \in [{2, 3} -> Nat]
  BY <1>1, <1>2 DEF ResetOn
<1>8. idx'[2] <= Cardinality(EntriesOf(2)) /\ idx'[3] <= Cardinality(EntriesOf(3)) + 1
  BY <1>1, <1>2, <1>6, Tiers DEF ResetOn
<1>9. i' \in 0 .. Count + 1
  <2>1. EntriesOf(t) \subseteq i .. Count - 1
    BY <1>1, <1>3, <1>4 DEF EntriesOf
  <2>2. Cardinality(EntriesOf(t)) <= Count - i
    BY <1>1, <1>3, <2>1, NoMoreThan, Tiers
  <2> QED
    BY <1>1, <1>2, <2>2, Tiers
<1>10. ASSUME pc' = "obd", 0 < i', i' < Count
       PROVE  TierOf(i' - 1) <= tier'
  <2>1. skip - 1 \in 0 .. Count - 1 /\ skip \in 0 .. Count - 1
    BY <1>2, <1>10, Tiers
  <2>2. CASE left
    <3>1. TierOf(skip) = t
      BY <2>1, <2>2, Tiers DEF TierAt
    <3> QED
      BY <1>2, <2>1, <3>1, Tiers
  <2>3. CASE ~left
    <3>1. TierOf(skip) > t
      <4>1. TierAt(skip) = TierOf(skip)
        BY <2>1, Tiers DEF TierAt
      <4>2. skip \in i .. Count - 1
        BY <1>1, <1>3, <2>1
      <4>3. TierOf(skip) >= t /\ TierOf(skip) \in 1 .. 3 /\ TierOf(skip) # t
        BY <1>5, <2>3, <4>1, <4>2
      <4> QED
        BY <1>3, <4>3
    <3>2. t = 2
      BY <1>3, <2>1, <3>1, Tiers
    <3>3. CASE TierOf(skip - 1) > t
      <4>1. EntriesOf(t) \subseteq i .. skip - 2
        BY <1>1, <1>4, <2>1, <3>3, Tiers DEF EntriesOf
      <4>2. i <= skip - 1
        BY <1>1, <1>3, <2>3
      <4>3. Cardinality(EntriesOf(t)) <= skip - 1 - i
        BY <1>1, <1>3, <4>1, <4>2, NoMoreThan
      <4> QED
        BY <1>1, <3>2, <4>3, Tiers
    <3> QED
      BY <1>2, <1>3, <2>1, <3>3, Tiers
  <2> QED
    BY <2>2, <2>3
<1> QED
  BY <1>2, <1>3, <1>7, <1>8, <1>9, <1>10

-----------------------------------------------------------------------------
(* The steps.                                                              *)

\* At the start no DID is late.
LEMMA RoundStarts ==
  ASSUME NEW d \in Others, NEW S \in SUBSET (Others \ {d})
  PROVE  /\ (0 + 0) \div GroupPeriod = 0
         /\ (0 - 0) * MaxPerCycle + 0 * AfterGroup + Cardinality(S) < Cardinality(Others)
BY Budgets, BeforeSome

\* The invariant holds when the task starts.
LEMMA InitEstablishes == Init => IInv
<1> SUFFICES ASSUME Init
             PROVE  IInv
  OBVIOUS
<1>1. TypeOK
  <2>1. i \in 0 .. Count + 1 /\ \A t \in {2, 3} : idx[t] \in 0 .. Cardinality(EntriesOf(t)) + 1
    BY Tiers DEF Init, NoTurns
  <2>2. DOMAIN wait = DIDs /\ \A d \in DIDs : wait[d] \in 0 .. IntervalOf(d)
    BY Tables DEF Init, NoWait
  <2>3. rr \in DIDs /\ groupWait \in 0 .. GroupPeriod - 1 /\ errors \in 0 .. MaxErrors
    BY Tables, Budgets DEF Init
  <2>4. ready \in BOOLEAN /\ mapRead \in BOOLEAN
    BY DEF Init
  <2>5. rpmValid \in BOOLEAN
    BY DEF Init
  <2>6. tier \in 1 .. 3 /\ record \subseteq Members \cup {RpmElement}
    BY DEF Init
  <2>7. pc \in {"begin", "obd", "overrun", "errors", "uds", "publish", "parked"}
    BY DEF Init
  <2> QED
    BY <2>1, <2>2, <2>3, <2>4, <2>6, <2>7, <2>5 DEF TypeOK
<1>2. Arrays
  BY DEF Init, NoTurns, NoneLate, Arrays
<1>3. TurnsOfTiers
  BY Tiers DEF Init, NoTurns, TurnsOfTiers
<1>4. ErrorsSeen /\ OnlyRpmYet /\ GroupAtomic
  BY Budgets DEF Init, ErrorsSeen, OnlyRpmYet, GroupAtomic
<1>5. RoundGoesOn
  <2>1. ASSUME NEW d \in Others
        PROVE  late[d] = 0 /\ Granted(d) + Cardinality(Before(d)) < Cardinality(Others)
    <3>1. late[d] = 0 /\ groupWait = 0 /\ rr \in DIDs
      BY Tables DEF Init, NoneLate
    <3>2. Before(d) \in SUBSET (Others \ {d})
      BY <3>1, Turns DEF Before, Others
    <3> QED
      BY <3>1, <3>2, RoundStarts DEF Granted, Groups
  <2> QED
    BY <2>1 DEF RoundGoesOn
<1> QED
  BY <1>1, <1>2, <1>3, <1>4, <1>5 DEF IInv

\* Nothing but processUDS() touches its statics.
LEMMA RoundUntouched ==
  ASSUME TypeOK, Arrays, RoundGoesOn, UNCHANGED <<wait, rr, groupWait, late>>
  PROVE  RoundHolds'
BY DEF RoundHolds, TypeOK, Arrays, RoundGoesOn, Granted, Groups, Before, Turn

\* The tier counters are as they were.
LEMMA TiersUntouched ==
  ASSUME TypeOK, Arrays, TurnsOfTiers, UNCHANGED <<idx, beyond>>
  PROVE  /\ idx' \in [{2, 3} -> Nat] /\ beyond' \in {0, 3}
         /\ idx'[2] <= Cardinality(EntriesOf(2)) /\ idx'[3] <= Cardinality(EntriesOf(3)) + 1
BY DEF TypeOK, Arrays, TurnsOfTiers

\* Every step of the cycle preserves the invariant.
LEMMA StepPreserves ==
  ASSUME IInv, [Next]_vars
  PROVE  IInv'
<1> USE DEF IInv, RoundHolds, TiersHold, ControlHolds, FlagsHold, RecordHolds
<1>1. CASE Begin
  <2>1. RoundHolds'
    <3>1. UNCHANGED <<wait, rr, groupWait, late>>
      BY <1>1 DEF Begin, udsVars
    <3> QED
      BY <3>1, RoundUntouched
  <2>2. TiersHold'
    <3>1. UNCHANGED <<idx, beyond>>
      BY <1>1 DEF Begin
    <3>2. /\ i' \in 0 .. Count + 1 /\ tier' \in 1 .. 3
          /\ pc' = "obd" /\ 0 < i' /\ i' < Count => TierOf(i' - 1) <= tier'
      BY <1>1, Tiers DEF Begin
    <3> QED
      BY <3>1, <3>2, TiersUntouched
  <2>3. ControlHolds'
    BY <1>1 DEF Begin, TypeOK, ErrorsSeen
  <2>4. FlagsHold'
    BY <1>1 DEF Begin, TypeOK
  <2>5. RecordHolds'
    BY <1>1 DEF Begin, OnlyRpmYet, GroupAtomic
  <2>6. \A t \in {2, 3} : idx'[t] \in 0 .. Cardinality(EntriesOf(t)) + 1
    BY <2>2, Tiers
  <2>7. TypeOK'
    BY <2>1, <2>2, <2>3, <2>4, <2>5, <2>6 DEF TypeOK
  <2> QED
    BY <2>1, <2>2, <2>3, <2>5, <2>7 DEF Arrays, TurnsOfTiers
<1>2. CASE EnterTier
  <2>1. RoundHolds'
    <3>1. UNCHANGED <<wait, rr, groupWait, late>>
      BY <1>2 DEF EnterTier, udsVars
    <3> QED
      BY <3>1, RoundUntouched
  <2>2. TiersHold'
    BY <1>2, TierBegins DEF EnterTier, Arrays
  <2>3. ControlHolds'
    BY <1>2 DEF EnterTier, TypeOK, ErrorsSeen
  <2>4. FlagsHold'
    BY <1>2 DEF EnterTier, TypeOK
  <2>5. RecordHolds'
    BY <1>2 DEF EnterTier, OnlyRpmYet, GroupAtomic
  <2>6. \A t \in {2, 3} : idx'[t] \in 0 .. Cardinality(EntriesOf(t)) + 1
    BY <2>2, Tiers
  <2>7. TypeOK'
    BY <2>1, <2>2, <2>3, <2>4, <2>5, <2>6 DEF TypeOK
  <2> QED
    BY <2>1, <2>2, <2>3, <2>5, <2>7 DEF Arrays, TurnsOfTiers
<1>3. CASE SkipInvalid
  <2>1. RoundHolds'
    <3>1. UNCHANGED <<wait, rr, groupWait, late>>
      BY <1>3 DEF SkipInvalid, udsVars
    <3> QED
      BY <3>1, RoundUntouched
  <2>2. TiersHold'
    <3>1. UNCHANGED <<idx, beyond>>
      BY <1>3 DEF SkipInvalid
    <3>2. /\ i' \in 0 .. Count + 1 /\ tier' \in 1 .. 3
          /\ pc' = "obd" /\ 0 < i' /\ i' < Count => TierOf(i' - 1) <= tier'
      BY <1>3, Tiers DEF SkipInvalid, AtEntry, TierAt, TypeOK
    <3> QED
      BY <3>1, <3>2, TiersUntouched
  <2>3. ControlHolds'
    BY <1>3 DEF SkipInvalid, TypeOK, ErrorsSeen
  <2>4. FlagsHold'
    BY <1>3 DEF SkipInvalid, TypeOK
  <2>5. RecordHolds'
    BY <1>3 DEF SkipInvalid, AtEntry, OnlyRpmYet, GroupAtomic
  <2>6. \A t \in {2, 3} : idx'[t] \in 0 .. Cardinality(EntriesOf(t)) + 1
    BY <2>2, Tiers
  <2>7. TypeOK'
    BY <2>1, <2>2, <2>3, <2>4, <2>5, <2>6 DEF TypeOK
  <2> QED
    BY <2>1, <2>2, <2>3, <2>5, <2>7 DEF Arrays, TurnsOfTiers
<1>4. CASE ReadOk
  <2>1. RoundHolds'
    <3>1. UNCHANGED <<wait, rr, groupWait, late>>
      BY <1>4 DEF ReadOk, udsVars
    <3> QED
      BY <3>1, RoundUntouched
  <2>2. TiersHold'
    <3>1. UNCHANGED <<idx, beyond>>
      BY <1>4 DEF ReadOk
    <3>2. /\ i' \in 0 .. Count + 1 /\ tier' \in 1 .. 3
          /\ pc' = "obd" /\ 0 < i' /\ i' < Count => TierOf(i' - 1) <= tier'
      BY <1>4, Tiers DEF ReadOk, AtEntry, TierAt, TypeOK
    <3> QED
      BY <3>1, <3>2, TiersUntouched
  <2>3. ControlHolds'
    BY <1>4, Budgets DEF ReadOk, ErrorsSeen
  <2>4. FlagsHold'
    BY <1>4 DEF ReadOk, TypeOK
  <2>5. RecordHolds'
    BY <1>4, Tables DEF ReadOk, AtEntry, OnlyRpmYet, GroupAtomic
  <2>6. \A t \in {2, 3} : idx'[t] \in 0 .. Cardinality(EntriesOf(t)) + 1
    BY <2>2, Tiers
  <2>7. TypeOK'
    BY <2>1, <2>2, <2>3, <2>4, <2>5, <2>6 DEF TypeOK
  <2> QED
    BY <2>1, <2>2, <2>3, <2>5, <2>7 DEF Arrays, TurnsOfTiers
<1>5. CASE ReadFails
  <2>1. RoundHolds'
    <3>1. UNCHANGED <<wait, rr, groupWait, late>>
      BY <1>5 DEF ReadFails, udsVars
    <3> QED
      BY <3>1, RoundUntouched
  <2>2. TiersHold'
    <3>1. UNCHANGED <<idx, beyond>>
      BY <1>5 DEF ReadFails, obdVars
    <3>2. /\ i' \in 0 .. Count + 1 /\ tier' \in 1 .. 3
          /\ pc' = "obd" /\ 0 < i' /\ i' < Count => TierOf(i' - 1) <= tier'
      BY <1>5 DEF ReadFails, obdVars, TypeOK
    <3> QED
      BY <3>1, <3>2, TiersUntouched
  <2>3. ControlHolds'
    BY <1>5, Budgets DEF ReadFails, AtEntry, TypeOK, ErrorsSeen
  <2>4. FlagsHold'
    BY <1>5 DEF ReadFails, obdVars, TypeOK
  <2>5. RecordHolds'
    BY <1>5 DEF ReadFails, AtEntry, obdVars, OnlyRpmYet, GroupAtomic
  <2>6. \A t \in {2, 3} : idx'[t] \in 0 .. Cardinality(EntriesOf(t)) + 1
    BY <2>2, Tiers
  <2>7. TypeOK'
    BY <2>1, <2>2, <2>3, <2>4, <2>5, <2>6 DEF TypeOK
  <2> QED
    BY <2>1, <2>2, <2>3, <2>5, <2>7 DEF Arrays, TurnsOfTiers
<1>6. CASE Overrun
  <2>1. RoundHolds'
    <3>1. UNCHANGED <<wait, rr, groupWait, late>>
      BY <1>6 DEF Overrun, udsVars
    <3> QED
      BY <3>1, RoundUntouched
  <2>2. TiersHold'
    <3>1. UNCHANGED <<idx, beyond>>
      BY <1>6 DEF Overrun, obdVars
    <3>2. /\ i' \in 0 .. Count + 1 /\ tier' \in 1 .. 3
          /\ pc' = "obd" /\ 0 < i' /\ i' < Count => TierOf(i' - 1) <= tier'
      BY <1>6 DEF Overrun, obdVars, TypeOK
    <3> QED
      BY <3>1, <3>2, TiersUntouched
  <2>3. ControlHolds'
    BY <1>6, Budgets DEF Overrun, TypeOK, ErrorsSeen
  <2>4. FlagsHold'
    BY <1>6 DEF Overrun, obdVars, TypeOK
  <2>5. RecordHolds'
    BY <1>6 DEF Overrun, obdVars, OnlyRpmYet, GroupAtomic
  <2>6. \A t \in {2, 3} : idx'[t] \in 0 .. Cardinality(EntriesOf(t)) + 1
    BY <2>2, Tiers
  <2>7. TypeOK'
    BY <2>1, <2>2, <2>3, <2>4, <2>5, <2>6 DEF TypeOK
  <2> QED
    BY <2>1, <2>2, <2>3, <2>5, <2>7 DEF Arrays, TurnsOfTiers
<1>7. CASE PassEnds
  <2>1. RoundHolds'
    <3>1. UNCHANGED <<wait, rr, groupWait, late>>
      BY <1>7 DEF PassEnds, udsVars
    <3> QED
      BY <3>1, RoundUntouched
  <2>2. TiersHold'
    <3>1. UNCHANGED <<idx, beyond>>
      BY <1>7 DEF PassEnds, obdVars
    <3>2. /\ i' \in 0 .. Count + 1 /\ tier' \in 1 .. 3
          /\ pc' = "obd" /\ 0 < i' /\ i' < Count => TierOf(i' - 1) <= tier'
      BY <1>7 DEF PassEnds, obdVars, TypeOK
    <3> QED
      BY <3>1, <3>2, TiersUntouched
  <2>3. ControlHolds'
    BY <1>7 DEF PassEnds, TypeOK, ErrorsSeen
  <2>4. FlagsHold'
    BY <1>7 DEF PassEnds, obdVars, TypeOK
  <2>5. RecordHolds'
    BY <1>7 DEF PassEnds, obdVars, OnlyRpmYet, GroupAtomic
  <2>6. \A t \in {2, 3} : idx'[t] \in 0 .. Cardinality(EntriesOf(t)) + 1
    BY <2>2, Tiers
  <2>7. TypeOK'
    BY <2>1, <2>2, <2>3, <2>4, <2>5, <2>6 DEF TypeOK
  <2> QED
    BY <2>1, <2>2, <2>3, <2>5, <2>7 DEF Arrays, TurnsOfTiers
<1>8. CASE LinkAlive
  <2>1. RoundHolds'
    <3>1. UNCHANGED <<wait, rr, groupWait, late>>
      BY <1>8 DEF LinkAlive, udsVars
    <3> QED
      BY <3>1, RoundUntouched
  <2>2. TiersHold'
    <3>1. UNCHANGED <<idx, beyond>>
      BY <1>8 DEF LinkAlive, obdVars
    <3>2. /\ i' \in 0 .. Count + 1 /\ tier' \in 1 .. 3
          /\ pc' = "obd" /\ 0 < i' /\ i' < Count => TierOf(i' - 1) <= tier'
      BY <1>8 DEF LinkAlive, obdVars, TypeOK
    <3> QED
      BY <3>1, <3>2, TiersUntouched
  <2>3. ControlHolds'
    BY <1>8 DEF LinkAlive, TypeOK, ErrorsSeen
  <2>4. FlagsHold'
    BY <1>8 DEF LinkAlive, obdVars, TypeOK
  <2>5. RecordHolds'
    BY <1>8 DEF LinkAlive, obdVars, OnlyRpmYet, GroupAtomic
  <2>6. \A t \in {2, 3} : idx'[t] \in 0 .. Cardinality(EntriesOf(t)) + 1
    BY <2>2, Tiers
  <2>7. TypeOK'
    BY <2>1, <2>2, <2>3, <2>4, <2>5, <2>6 DEF TypeOK
  <2> QED
    BY <2>1, <2>2, <2>3, <2>5, <2>7 DEF Arrays, TurnsOfTiers
<1>9. CASE Reinit
  <2>1. RoundHolds'
    <3>1. UNCHANGED <<wait, rr, groupWait, late>>
      BY <1>9 DEF Reinit, udsVars
    <3> QED
      BY <3>1, RoundUntouched
  <2>2. TiersHold'
    <3>1. UNCHANGED <<idx, beyond>>
      BY <1>9 DEF Reinit, obdVars
    <3>2. /\ i' \in 0 .. Count + 1 /\ tier' \in 1 .. 3
          /\ pc' = "obd" /\ 0 < i' /\ i' < Count => TierOf(i' - 1) <= tier'
      BY <1>9 DEF Reinit, obdVars, TypeOK
    <3> QED
      BY <3>1, <3>2, TiersUntouched
  <2>3. ControlHolds'
    BY <1>9, Budgets DEF Reinit, ErrorsSeen
  <2>4. FlagsHold'
    BY <1>9 DEF Reinit, obdVars, TypeOK
  <2>5. RecordHolds'
    BY <1>9 DEF Reinit, obdVars, OnlyRpmYet, GroupAtomic
  <2>6. \A t \in {2, 3} : idx'[t] \in 0 .. Cardinality(EntriesOf(t)) + 1
    BY <2>2, Tiers
  <2>7. TypeOK'
    BY <2>1, <2>2, <2>3, <2>4, <2>5, <2>6 DEF TypeOK
  <2> QED
    BY <2>1, <2>2, <2>3, <2>5, <2>7 DEF Arrays, TurnsOfTiers
<1>10. CASE EcuOff
  <2>1. RoundHolds'
    <3>1. UNCHANGED <<wait, rr, groupWait, late>>
      BY <1>10 DEF EcuOff, udsVars
    <3> QED
      BY <3>1, RoundUntouched
  <2>2. TiersHold'
    <3>1. UNCHANGED <<idx, beyond>>
      BY <1>10 DEF EcuOff, obdVars
    <3>2. /\ i' \in 0 .. Count + 1 /\ tier' \in 1 .. 3
          /\ pc' = "obd" /\ 0 < i' /\ i' < Count => TierOf(i' - 1) <= tier'
      BY <1>10 DEF EcuOff, obdVars, TypeOK
    <3> QED
      BY <3>1, <3>2, TiersUntouched
  <2>3. ControlHolds'
    BY <1>10 DEF EcuOff, TypeOK, ErrorsSeen
  <2>4. FlagsHold'
    BY <1>10 DEF EcuOff, obdVars, TypeOK
  <2>5. RecordHolds'
    BY <1>10 DEF EcuOff, OnlyRpmYet, GroupAtomic
  <2>6. \A t \in {2, 3} : idx'[t] \in 0 .. Cardinality(EntriesOf(t)) + 1
    BY <2>2, Tiers
  <2>7. TypeOK'
    BY <2>1, <2>2, <2>3, <2>4, <2>5, <2>6 DEF TypeOK
  <2> QED
    BY <2>1, <2>2, <2>3, <2>5, <2>7 DEF Arrays, TurnsOfTiers
<1>11. CASE EcuOn
  <2>1. RoundHolds'
    <3>1. UNCHANGED <<wait, rr, groupWait, late>>
      BY <1>11 DEF EcuOn, udsVars
    <3> QED
      BY <3>1, RoundUntouched
  <2>2. TiersHold'
    <3>1. UNCHANGED <<idx, beyond>>
      BY <1>11 DEF EcuOn, obdVars
    <3>2. /\ i' \in 0 .. Count + 1 /\ tier' \in 1 .. 3
          /\ pc' = "obd" /\ 0 < i' /\ i' < Count => TierOf(i' - 1) <= tier'
      BY <1>11 DEF EcuOn, obdVars, TypeOK
    <3> QED
      BY <3>1, <3>2, TiersUntouched
  <2>3. ControlHolds'
    BY <1>11, Budgets DEF EcuOn, ErrorsSeen
  <2>4. FlagsHold'
    BY <1>11 DEF EcuOn, obdVars, TypeOK
  <2>5. RecordHolds'
    BY <1>11 DEF EcuOn, OnlyRpmYet, GroupAtomic
  <2>6. \A t \in {2, 3} : idx'[t] \in 0 .. Cardinality(EntriesOf(t)) + 1
    BY <2>2, Tiers
  <2>7. TypeOK'
    BY <2>1, <2>2, <2>3, <2>4, <2>5, <2>6 DEF TypeOK
  <2> QED
    BY <2>1, <2>2, <2>3, <2>5, <2>7 DEF Arrays, TurnsOfTiers
<1>12. CASE EcuStillOff
  <2>1. RoundHolds'
    <3>1. UNCHANGED <<wait, rr, groupWait, late>>
      BY <1>12 DEF EcuStillOff, udsVars
    <3> QED
      BY <3>1, RoundUntouched
  <2>2. TiersHold'
    <3>1. UNCHANGED <<idx, beyond>>
      BY <1>12 DEF EcuStillOff, obdVars
    <3>2. /\ i' \in 0 .. Count + 1 /\ tier' \in 1 .. 3
          /\ pc' = "obd" /\ 0 < i' /\ i' < Count => TierOf(i' - 1) <= tier'
      BY <1>12 DEF EcuStillOff, obdVars, TypeOK
    <3> QED
      BY <3>1, <3>2, TiersUntouched
  <2>3. ControlHolds'
    BY <1>12 DEF EcuStillOff, TypeOK, ErrorsSeen
  <2>4. FlagsHold'
    BY <1>12 DEF EcuStillOff, obdVars, TypeOK
  <2>5. RecordHolds'
    BY <1>12 DEF EcuStillOff, OnlyRpmYet, GroupAtomic
  <2>6. \A t \in {2, 3} : idx'[t] \in 0 .. Cardinality(EntriesOf(t)) + 1
    BY <2>2, Tiers
  <2>7. TypeOK'
    BY <2>1, <2>2, <2>3, <2>4, <2>5, <2>6 DEF TypeOK
  <2> QED
    BY <2>1, <2>2, <2>3, <2>5, <2>7 DEF Arrays, TurnsOfTiers
<1>13. CASE GroupCycle
  <2>1. /\ record' \in {record, record \cup Members}
        /\ record' # record => rpmValid
    BY <1>13 DEF GroupCycle, ReadGroup, Commit
  <2>2. RoundHolds'
    <3>1. PICK b \in Nat : RoundRobin(b) /\ b >= AfterGroup
      <4>1. CASE \E reads \in 0 .. Cardinality(Members) :
                   RoundRobin(IF reads > MaxPerCycle THEN 0 ELSE MaxPerCycle - reads)
        <5>1. PICK reads \in 0 .. Cardinality(Members) :
                     RoundRobin(IF reads > MaxPerCycle THEN 0 ELSE MaxPerCycle - reads)
          BY <4>1
        <5>2. /\ (IF reads > MaxPerCycle THEN 0 ELSE MaxPerCycle - reads) \in Nat
              /\ (IF reads > MaxPerCycle THEN 0 ELSE MaxPerCycle - reads) >= AfterGroup
          BY Tables, Budgets DEF AfterGroup
        <5> QED
          BY <5>1, <5>2
      <4>2. CASE RoundRobin(MaxPerCycle)
        BY <4>2, Budgets
      <4> QED
        BY <1>13, <4>1, <4>2 DEF GroupCycle
    <3>2. /\ groupWait = 0
          /\ groupWait' = IF groupWait = 0 THEN GroupPeriod - 1 ELSE groupWait - 1
      BY <1>13 DEF GroupCycle
    <3> QED
      BY <3>1, <3>2, RoundPreserves
  <2>3. TiersHold'
    <3>1. UNCHANGED <<idx, beyond>>
      BY <1>13 DEF GroupCycle, obdVars
    <3>2. /\ i' \in 0 .. Count + 1 /\ tier' \in 1 .. 3
          /\ pc' = "obd" /\ 0 < i' /\ i' < Count => TierOf(i' - 1) <= tier'
      BY <1>13 DEF GroupCycle, obdVars, TypeOK
    <3> QED
      BY <3>1, <3>2, TiersUntouched
  <2>4. ControlHolds'
    BY <1>13 DEF GroupCycle, TypeOK, ErrorsSeen
  <2>5. FlagsHold'
    BY <1>13 DEF GroupCycle, obdVars, TypeOK
  <2>6. RecordHolds'
    BY <1>13, <2>1 DEF GroupCycle, OnlyRpmYet, GroupAtomic
  <2>7. \A t \in {2, 3} : idx'[t] \in 0 .. Cardinality(EntriesOf(t)) + 1
    BY <2>3, Tiers
  <2>8. TypeOK'
    BY <2>2, <2>3, <2>4, <2>5, <2>6, <2>7 DEF TypeOK
  <2> QED
    BY <2>2, <2>3, <2>4, <2>6, <2>8 DEF Arrays, TurnsOfTiers
<1>14. CASE PlainCycle
  <2>1. RoundHolds'
    <3>1. /\ RoundRobin(MaxPerCycle) /\ groupWait > 0 /\ MaxPerCycle \in Nat
          /\ groupWait' = IF groupWait = 0 THEN GroupPeriod - 1 ELSE groupWait - 1
          /\ MaxPerCycle >= IF groupWait = 0 THEN AfterGroup ELSE MaxPerCycle
      BY <1>14, Budgets DEF PlainCycle
    <3> QED
      BY <3>1, RoundPreserves
  <2>2. TiersHold'
    <3>1. UNCHANGED <<idx, beyond>>
      BY <1>14 DEF PlainCycle, obdVars
    <3>2. /\ i' \in 0 .. Count + 1 /\ tier' \in 1 .. 3
          /\ pc' = "obd" /\ 0 < i' /\ i' < Count => TierOf(i' - 1) <= tier'
      BY <1>14 DEF PlainCycle, obdVars, TypeOK
    <3> QED
      BY <3>1, <3>2, TiersUntouched
  <2>3. ControlHolds'
    BY <1>14 DEF PlainCycle, TypeOK, ErrorsSeen
  <2>4. FlagsHold'
    BY <1>14 DEF PlainCycle, obdVars, TypeOK
  <2>5. RecordHolds'
    BY <1>14 DEF PlainCycle, OnlyRpmYet, GroupAtomic
  <2>6. \A t \in {2, 3} : idx'[t] \in 0 .. Cardinality(EntriesOf(t)) + 1
    BY <2>2, Tiers
  <2>7. TypeOK'
    BY <2>1, <2>2, <2>3, <2>4, <2>5, <2>6 DEF TypeOK
  <2> QED
    BY <2>1, <2>2, <2>3, <2>5, <2>7 DEF Arrays, TurnsOfTiers
<1>15. CASE Publish
  <2>1. RoundHolds'
    <3>1. UNCHANGED <<wait, rr, groupWait, late>>
      BY <1>15 DEF Publish, udsVars
    <3> QED
      BY <3>1, RoundUntouched
  <2>2. TiersHold'
    <3>1. UNCHANGED <<idx, beyond>>
      BY <1>15 DEF Publish, obdVars
    <3>2. /\ i' \in 0 .. Count + 1 /\ tier' \in 1 .. 3
          /\ pc' = "obd" /\ 0 < i' /\ i' < Count => TierOf(i' - 1) <= tier'
      BY <1>15 DEF Publish, obdVars, TypeOK
    <3> QED
      BY <3>1, <3>2, TiersUntouched
  <2>3. ControlHolds'
    BY <1>15 DEF Publish, TypeOK, ErrorsSeen
  <2>4. FlagsHold'
    BY <1>15 DEF Publish, obdVars, TypeOK
  <2>5. RecordHolds'
    BY <1>15 DEF Publish, TypeOK, OnlyRpmYet, GroupAtomic
  <2>6. \A t \in {2, 3} : idx'[t] \in 0 .. Cardinality(EntriesOf(t)) + 1
    BY <2>2, Tiers
  <2>7. TypeOK'
    BY <2>1, <2>2, <2>3, <2>4, <2>5, <2>6 DEF TypeOK
  <2> QED
    BY <2>1, <2>2, <2>3, <2>5, <2>7 DEF Arrays, TurnsOfTiers
<1>16. CASE Park
  <2>1. RoundHolds'
    <3>1. UNCHANGED <<wait, rr, groupWait, late>>
      BY <1>16 DEF Park, udsVars
    <3> QED
      BY <3>1, RoundUntouched
  <2>2. TiersHold'
    <3>1. UNCHANGED <<idx, beyond>>
      BY <1>16 DEF Park, obdVars
    <3>2. /\ i' \in 0 .. Count + 1 /\ tier' \in 1 .. 3
          /\ pc' = "obd" /\ 0 < i' /\ i' < Count => TierOf(i' - 1) <= tier'
      BY <1>16 DEF Park, obdVars, TypeOK
    <3> QED
      BY <3>1, <3>2, TiersUntouched
  <2>3. ControlHolds'
    BY <1>16 DEF Park, TypeOK, ErrorsSeen
  <2>4. FlagsHold'
    BY <1>16 DEF Park, obdVars, TypeOK
  <2>5. RecordHolds'
    BY <1>16 DEF Park, TypeOK, OnlyRpmYet, GroupAtomic
  <2>6. \A t \in {2, 3} : idx'[t] \in 0 .. Cardinality(EntriesOf(t)) + 1
    BY <2>2, Tiers
  <2>7. TypeOK'
    BY <2>1, <2>2, <2>3, <2>4, <2>5, <2>6 DEF TypeOK
  <2> QED
    BY <2>1, <2>2, <2>3, <2>5, <2>7 DEF Arrays, TurnsOfTiers
<1>17. CASE Restart
  <2>1. RoundHolds'
    <3>1. rr' = 0 /\ groupWait' = 0 /\ late' = [d \in Others |-> 0] /\ wait' = [d \in DIDs |-> 0]
      BY <1>17 DEF Restart, NoneLate, NoWait
    <3>2. ASSUME NEW d \in Others
          PROVE  late'[d] = 0 /\ (Granted(d) + Cardinality(Before(d)) < Cardinality(Others))'
      <4>1. Before(d)' \in SUBSET (Others \ {d})
        BY <3>1 DEF Before, Turn, Others
      <4>2. Groups(d)' = (0 + 0) \div GroupPeriod
        BY <3>1 DEF Groups
      <4>3. Granted(d)' = (0 - 0) * MaxPerCycle + 0 * AfterGroup
        BY <3>1, <4>2, RoundStarts DEF Granted
      <4> QED
        BY <3>1, <4>1, <4>3, RoundStarts
    <3>3. RoundGoesOn'
      BY <3>2 DEF RoundGoesOn
    <3> QED
      BY <3>1, <3>3, Tables, Budgets
  <2>2. TiersHold'
    BY <1>17, Tiers DEF Restart, NoTurns, Arrays
  <2>3. ControlHolds'
    BY <1>17, Budgets DEF Restart, ErrorsSeen
  <2>4. FlagsHold'
    BY <1>17 DEF Restart
  <2>5. RecordHolds'
    BY <1>17 DEF Restart, OnlyRpmYet, GroupAtomic
  <2>6. \A t \in {2, 3} : idx'[t] \in 0 .. Cardinality(EntriesOf(t)) + 1
    BY <2>2, Tiers
  <2>7. TypeOK'
    BY <2>1, <2>2, <2>3, <2>4, <2>5, <2>6 DEF TypeOK
  <2> QED
    BY <2>1, <2>2, <2>3, <2>5, <2>7 DEF Arrays, TurnsOfTiers
<1>18. CASE UNCHANGED vars
  <2>1. RoundHolds'
    <3>1. UNCHANGED <<wait, rr, groupWait, late>>
      BY <1>18 DEF vars, udsVars, vars
    <3> QED
      BY <3>1, RoundUntouched
  <2>2. TiersHold'
    <3>1. UNCHANGED <<idx, beyond>>
      BY <1>18 DEF vars, obdVars, vars
    <3>2. /\ i' \in 0 .. Count + 1 /\ tier' \in 1 .. 3
          /\ pc' = "obd" /\ 0 < i' /\ i' < Count => TierOf(i' - 1) <= tier'
      BY <1>18 DEF vars, AtEntry, TierAt, obdVars, vars, TypeOK, TurnsOfTiers
    <3> QED
      BY <3>1, <3>2, TiersUntouched
  <2>3. ControlHolds'
    BY <1>18 DEF vars, TypeOK, ErrorsSeen
  <2>4. FlagsHold'
    BY <1>18 DEF obdVars, vars, TypeOK
  <2>5. RecordHolds'
    BY <1>18 DEF obdVars, vars, TypeOK, OnlyRpmYet, GroupAtomic
  <2>6. \A t \in {2, 3} : idx'[t] \in 0 .. Cardinality(EntriesOf(t)) + 1
    BY <2>2, Tiers
  <2>7. TypeOK'
    BY <2>1, <2>2, <2>3, <2>4, <2>5, <2>6 DEF TypeOK
  <2> QED
    BY <2>1, <2>2, <2>3, <2>5, <2>7 DEF Arrays, TurnsOfTiers
<1> QED
  BY <1>1, <1>2, <1>3, <1>4, <1>5, <1>6, <1>7, <1>8, <1>9, <1>10, <1>11, <1>12, <1>13, <1>14,
     <1>15, <1>16, <1>17, <1>18 DEF Next, Process, ProcessOBD, ProcessUDS

-----------------------------------------------------------------------------
\* The invariant holds of every drive.
THEOREM Inductive == Spec => []IInv
<1>1. Init => IInv
  BY InitEstablishes
<1>2. IInv /\ [Next]_vars => IInv'
  BY StepPreserves
<1> QED
  BY <1>1, <1>2, PTL DEF Spec

\* The variables keep their types: no tier counter of processOBD() drives its index more than
\* one entry past obdData[], whatever the tiers of the table, and obd.errors stays a number
\* that process() answers.
THEOREM TypeCorrect == Spec => []TypeOK
<1>1. IInv => TypeOK
  BY DEF IInv
<1> QED
  BY <1>1, Inductive, PTL

\* readGroup(): "on any failure nothing is emitted". A record holds all members of the
\* derived-inputs group, with the RPM of its own cycle, or none, whatever members it has.
THEOREM GroupIsAtomic == Spec => []GroupAtomic
<1>1. IInv => GroupAtomic
  BY DEF IInv
<1> QED
  BY <1>1, Inductive, PTL

\* processUDS(): "nothing starves". The delay of a DID is bounded for every table, budget and
\* period of the group; a budget of which the group leaves nothing in any cycle is the only
\* one that bounds nothing.
THEOREM NoneStarves == Spec => []NothingStarves
<1>1. IInv => NothingStarves
  BY StarvesNot DEF IInv
<1> QED
  BY <1>1, Inductive, PTL

=============================================================================
