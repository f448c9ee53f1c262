--------------------------- MODULE TicketsProofs ---------------------------
(***************************************************************************)
(* What a balance is, for every ledger: adding a row moves the balance of  *)
(* the row's user by the row's delta and nobody else's.                    *)
(*                                                                         *)
(* SumDelta is a fold, defined by recursion over the subsets of its        *)
(* argument.  A function on those subsets that obeys the law of addition,  *)
(* Additive below, exists for every finite set of rows and agrees with the *)
(* fold: both facts by a minimal counterexample, which exists because      *)
(* strict inclusion is well founded on the finite subsets of a set.        *)
(***************************************************************************)
EXTENDS Tickets, TLAPS, FiniteSetTheorems, WellFoundedInduction

\* Every row of a set has an integer delta.
IntDeltas(rows) == \A row \in rows : row.delta \in Int

\* sum obeys the law of addition on the subsets of rows.
Additive(sum, rows) ==
    /\ sum \in [SUBSET rows -> Int]
    /\ sum[{}] = 0
    /\ \A s \in SUBSET rows : \A row \in rows \ s :
            sum[s \cup {row}] = sum[s] + row.delta

\* The equation by which the fold defines its iteration.
FoldEquation(sum, rows) ==
    sum = [s \in SUBSET rows |->
              IF s = {} THEN 0
              ELSE LET x == CHOOSE y \in s : TRUE IN x.delta + sum[s \ {x}]]

\* A nonempty family of finite sets has a member none of whose strict
\* subsets belongs to the family.
LEMMA SmallestMember ==
    ASSUME NEW rows, NEW family, family \subseteq FiniteSubsetsOf(rows), family # {}
    PROVE  \E s \in family : \A t \in family : ~(t \subseteq s /\ t # s)
<1>1. IsWellFoundedOn(StrictSubsetOrdering(rows), FiniteSubsetsOf(rows))
  BY FS_StrictSubsetOrderingWellFounded
<1>2. PICK s \in family : \A t \in family : <<t, s>> \notin StrictSubsetOrdering(rows)
  BY <1>1, WFMin
<1>3. \A t \in family : t \subseteq s /\ t # s => <<t, s>> \in StrictSubsetOrdering(rows)
  BY DEF StrictSubsetOrdering, FiniteSubsetsOf
<1>4. \A t \in family : ~(t \subseteq s /\ t # s)
  BY <1>2, <1>3
<1> QED
  BY <1>4

\* Extending an additive function by one row that was missing.
LEMMA ExtendAdditive ==
    ASSUME NEW rows, NEW x, x \notin rows, x.delta \in Int, IntDeltas(rows),
           NEW sum, Additive(sum, rows)
    PROVE  \E g : Additive(g, rows \cup {x})
<1> DEFINE all == rows \cup {x}
<1> DEFINE g == [s \in SUBSET all |-> IF x \in s THEN sum[s \ {x}] + x.delta ELSE sum[s]]
<1>1. \A s \in SUBSET all : x \in s => g[s] = sum[s \ {x}] + x.delta /\ s \ {x} \in SUBSET rows
  OBVIOUS
<1>2. \A s \in SUBSET all : x \notin s => g[s] = sum[s] /\ s \in SUBSET rows
  OBVIOUS
<1>3. \A s \in SUBSET rows : sum[s] \in Int
  BY DEF Additive
<1>4. g \in [SUBSET all -> Int]
  <2>1. \A s \in SUBSET all : (IF x \in s THEN sum[s \ {x}] + x.delta ELSE sum[s]) \in Int
    BY <1>1, <1>2, <1>3
  <2> QED
    BY <2>1
<1>5. g[{}] = 0
  BY <1>2 DEF Additive
<1>6. ASSUME NEW s \in SUBSET all, NEW row \in all \ s
      PROVE  g[s \cup {row}] = g[s] + row.delta
  <2>1. CASE row = x
    <3>1. x \notin s /\ (s \cup {row}) \ {x} = s /\ s \cup {row} \in SUBSET all
      BY <2>1
    <3> QED
      BY <2>1, <3>1, <1>1, <1>2
  <2>2. CASE row # x /\ x \in s
    <3> DEFINE u == s \ {x}
    <3>1. u \in SUBSET rows /\ row \in rows \ u /\ (s \cup {row}) \ {x} = u \cup {row}
      BY <2>2
    <3>2. sum[u \cup {row}] = sum[u] + row.delta
      BY <3>1 DEF Additive
    <3> HIDE DEF u
    <3>3. g[s \cup {row}] = sum[u \cup {row}] + x.delta
      <4>1. s \cup {row} \in SUBSET all /\ x \in s \cup {row}
        BY <2>2
      <4> HIDE DEF g
      <4> QED
        BY <4>1, <3>1, <1>1
    <3>5. g[s] = sum[u] + x.delta
      BY <2>2, <1>1 DEF u
    <3>4. sum[u] \in Int /\ row.delta \in Int
      BY <3>1, <1>3 DEF IntDeltas
    <3> QED
      BY <3>2, <3>3, <3>4, <3>5
  <2>3. CASE row # x /\ x \notin s
    BY <2>3, <1>2 DEF Additive
  <2> QED
    BY <2>1, <2>2, <2>3
<1>7. Additive(g, all)
  <2> HIDE DEF g
  <2> QED
    BY <1>4, <1>5, <1>6 DEF Additive
<1> QED
  BY <1>7

\* Every finite set of rows has an additive function.
LEMMA AdditiveExists ==
    ASSUME NEW rows, IsFiniteSet(rows), IntDeltas(rows)
    PROVE  \E sum : Additive(sum, rows)
<1> DEFINE bad == {s \in FiniteSubsetsOf(rows) : ~ \E sum : Additive(sum, s)}
<1>0. bad \subseteq FiniteSubsetsOf(rows)
  OBVIOUS
<1>1. SUFFICES ASSUME bad # {} PROVE FALSE
  BY DEF FiniteSubsetsOf
<1>2. PICK s \in bad : \A t \in bad : ~(t \subseteq s /\ t # s)
  <2> HIDE DEF bad
  <2> QED BY <1>0, <1>1, SmallestMember
<1>3. s \subseteq rows /\ IsFiniteSet(s) /\ ~ \E sum : Additive(sum, s)
  BY DEF FiniteSubsetsOf
<1>4. CASE s = {}
  <2>1. Additive([t \in SUBSET {} |-> 0], {})
    BY DEF Additive
  <2> QED
    BY <2>1, <1>3, <1>4
<1>5. CASE s # {}
  <2>1. PICK x \in s : TRUE
    BY <1>5
  <2>2. s \ {x} \in FiniteSubsetsOf(rows)
    BY <1>3, FS_RemoveElement DEF FiniteSubsetsOf
  <2>3. PICK sum : Additive(sum, s \ {x})
    BY <1>2, <2>1, <2>2
  <2>4. \E g : Additive(g, (s \ {x}) \cup {x})
    BY <2>1, <2>3, <1>3, ExtendAdditive DEF IntDeltas
  <2>5. (s \ {x}) \cup {x} = s
    BY <2>1
  <2> QED
    BY <2>4, <2>5, <1>3
<1> QED
  BY <1>4, <1>5

\* An additive function solves the equation of the fold.
LEMMA AdditiveSolves ==
    ASSUME NEW rows, IntDeltas(rows), NEW sum, Additive(sum, rows)
    PROVE  FoldEquation(sum, rows)
<1>1. ASSUME NEW s \in SUBSET rows, s # {}
      PROVE  sum[s] = (CHOOSE y \in s : TRUE).delta + sum[s \ {CHOOSE y \in s : TRUE}]
  <2> DEFINE x == CHOOSE y \in s : TRUE
  <2>1. x \in s
    BY <1>1
  <2> HIDE DEF x
  <2>2. x \in rows \ (s \ {x}) /\ s \ {x} \in SUBSET rows /\ (s \ {x}) \cup {x} = s
    BY <2>1
  <2>3. sum[s] = sum[s \ {x}] + x.delta
    BY <2>2 DEF Additive
  <2>4. sum[s \ {x}] \in Int /\ x.delta \in Int
    BY <2>2 DEF Additive, IntDeltas
  <2>5. sum[s] = x.delta + sum[s \ {x}]
    BY <2>3, <2>4
  <2> QED
    BY <2>5 DEF x
<1>2. sum = [s \in SUBSET rows |-> sum[s]] /\ sum[{}] = 0
  BY DEF Additive
<1> QED
  BY <1>1, <1>2 DEF FoldEquation

\* The fold computes what any additive function computes.
LEMMA SumDeltaIsAdditive ==
    ASSUME NEW rows, IsFiniteSet(rows), IntDeltas(rows),
           NEW sum, Additive(sum, rows)
    PROVE  SumDelta(rows) = sum[rows]
<1> DEFINE iter == CHOOSE f : FoldEquation(f, rows)
<1>1. FoldEquation(iter, rows) /\ FoldEquation(sum, rows)
  BY AdditiveSolves
<1>2. SumDelta(rows) = iter[rows]
  BY DEF SumDelta, MapThenSumSet, MapThenFoldSet, FoldEquation
<1> HIDE DEF iter
<1> DEFINE bad == {s \in FiniteSubsetsOf(rows) : iter[s] # sum[s]}
<1>0. bad \subseteq FiniteSubsetsOf(rows)
  OBVIOUS
<1>3. SUFFICES ASSUME bad # {} PROVE FALSE
  BY <1>2 DEF FiniteSubsetsOf
<1>4. PICK s \in bad : \A t \in bad : ~(t \subseteq s /\ t # s)
  <2> HIDE DEF bad
  <2> QED BY <1>0, <1>3, SmallestMember
<1>5. s \in SUBSET rows /\ IsFiniteSet(s) /\ iter[s] # sum[s]
  BY DEF FiniteSubsetsOf
<1>6. s # {}
  BY <1>1, <1>5 DEF FoldEquation
<1> DEFINE x == CHOOSE y \in s : TRUE
<1>7. x \in s
  BY <1>6
<1>8. iter[s] = x.delta + iter[s \ {x}] /\ sum[s] = x.delta + sum[s \ {x}]
  BY <1>1, <1>5, <1>6 DEF FoldEquation
<1> HIDE DEF x
<1>9. s \ {x} \in FiniteSubsetsOf(rows)
  BY <1>5, FS_RemoveElement DEF FiniteSubsetsOf
<1>10. iter[s \ {x}] = sum[s \ {x}]
  BY <1>4, <1>7, <1>9
<1> QED
  BY <1>5, <1>8, <1>10

\* The sum of no rows is 0, and a sum of integers is an integer.
THEOREM SumDeltaType ==
    ASSUME NEW rows, IsFiniteSet(rows), IntDeltas(rows)
    PROVE  SumDelta(rows) \in Int /\ (rows = {} => SumDelta(rows) = 0)
<1>1. PICK sum : Additive(sum, rows)
  BY AdditiveExists
<1>2. SumDelta(rows) = sum[rows]
  BY <1>1, SumDeltaIsAdditive
<1> QED
  BY <1>1, <1>2 DEF Additive

\* Adding a row that was not there adds its delta to the sum.
THEOREM SumDeltaAdd ==
    ASSUME NEW rows, IsFiniteSet(rows), IntDeltas(rows),
           NEW row, row \notin rows, row.delta \in Int
    PROVE  SumDelta(rows \cup {row}) = SumDelta(rows) + row.delta
<1> DEFINE all == rows \cup {row}
<1>1. IsFiniteSet(all) /\ IntDeltas(all)
  BY FS_AddElement DEF IntDeltas
<1>2. PICK sum : Additive(sum, all)
  BY <1>1, AdditiveExists
<1> DEFINE low == [s \in SUBSET rows |-> sum[s]]
<1>3. Additive(low, rows)
  <2>1. \A s \in SUBSET rows : s \in SUBSET all /\ sum[s] \in Int
    BY <1>2 DEF Additive
  <2>2. \A s \in SUBSET rows : \A r \in rows \ s :
            s \cup {r} \in SUBSET rows /\ sum[s \cup {r}] = sum[s] + r.delta
    BY <1>2 DEF Additive
  <2>3. sum[{}] = 0
    BY <1>2 DEF Additive
  <2> QED
    BY <2>1, <2>2, <2>3 DEF Additive
<1>4. SumDelta(rows) = low[rows] /\ low[rows] = sum[rows]
  BY <1>3, SumDeltaIsAdditive
<1>5. SumDelta(all) = sum[all]
  BY <1>1, <1>2, SumDeltaIsAdditive
<1>6. sum[all] = sum[rows] + row.delta
  BY <1>2 DEF Additive
<1> QED
  BY <1>4, <1>5, <1>6

\* What a ledger insert does to the balances: the row's user gains its delta
\* (a debit's is negative), every other balance stays.
THEOREM BalanceAfterInsert ==
    ASSUME NEW ledger, IsFiniteSet(ledger), IntDeltas(ledger),
           NEW row, row \notin ledger, row.delta \in Int, NEW user
    PROVE  GetBalance(ledger \cup {row}, user) =
               IF user = row.userId THEN GetBalance(ledger, user) + row.delta
               ELSE GetBalance(ledger, user)
<1>1. IsFiniteSet(RowsOf(ledger, user)) /\ IntDeltas(RowsOf(ledger, user))
  BY FS_Subset DEF RowsOf, IntDeltas
<1>2. CASE user = row.userId
  <2>1. RowsOf(ledger \cup {row}, user) = RowsOf(ledger, user) \cup {row}
    BY <1>2 DEF RowsOf
  <2>2. row \notin RowsOf(ledger, user)
    BY DEF RowsOf
  <2> QED
    BY <1>1, <1>2, <2>1, <2>2, SumDeltaAdd DEF GetBalance
<1>3. CASE user # row.userId
  <2>1. RowsOf(ledger \cup {row}, user) = RowsOf(ledger, user)
    BY <1>3 DEF RowsOf
  <2> QED
    BY <1>3, <2>1 DEF GetBalance
<1> QED
  BY <1>2, <1>3

\* A balance is an integer, and an empty ledger has every balance at 0.
THEOREM BalanceType ==
    ASSUME NEW ledger, IsFiniteSet(ledger), IntDeltas(ledger), NEW user
    PROVE  GetBalance(ledger, user) \in Int /\ (ledger = {} => GetBalance(ledger, user) = 0)
<1>1. IsFiniteSet(RowsOf(ledger, user)) /\ IntDeltas(RowsOf(ledger, user))
  BY FS_Subset DEF RowsOf, IntDeltas
<1>2. ledger = {} => RowsOf(ledger, user) = {}
  BY DEF RowsOf
<1> QED
  BY <1>1, <1>2, SumDeltaType DEF GetBalance
=============================================================================
