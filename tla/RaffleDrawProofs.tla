-------------------------- MODULE RaffleDrawProofs --------------------------
(***************************************************************************)
(* The safety properties of the draw, for any number of entries, draws     *)
(* and blocks, any hashes and any times: whatever commits or is drawn      *)
(* while a draw runs, its winner is who the published hash selects.        *)
(***************************************************************************)
EXTENDS RaffleDraw, TLAPS, FiniteSetTheorems, WellFoundedInduction

-----------------------------------------------------------------------------
(***************************************************************************)
(* Positions in a finite set of numbers.                                   *)
(***************************************************************************)
\* The members of a set of numbers below a given one.
Below(set, bound) == {n \in set : n < bound}

\* A nonempty set of numbers up to a bound has a smallest member: the smallest
\* of the intervals that begin at 0 and end at a member.
LEMMA SmallestNumber ==
    ASSUME NEW last \in Nat, NEW set \in SUBSET (0 .. last), set # {}
    PROVE  \E k \in set : \A j \in set : k <= j
<1> DEFINE Interval(k) == 0 .. k
<1> DEFINE family == {Interval(k) : k \in set}
<1>1. IsFiniteSet(0 .. last)
  BY FS_Interval
<1>2. family \subseteq FiniteSubsetsOf(0 .. last) /\ family # {}
  <2>1. ASSUME NEW k \in set PROVE Interval(k) \in SUBSET (0 .. last)
    OBVIOUS
  <2>2. ASSUME NEW k \in set PROVE IsFiniteSet(Interval(k))
    BY FS_Interval
  <2> QED
    BY <2>1, <2>2 DEF FiniteSubsetsOf
<1>3. IsWellFoundedOn(StrictSubsetOrdering(0 .. last), FiniteSubsetsOf(0 .. last))
  BY FS_StrictSubsetOrderingWellFounded
<1>4. PICK s \in family : \A t \in family : <<t, s>> \notin StrictSubsetOrdering(0 .. last)
  <2> HIDE DEF family
  <2> QED
    BY <1>2, <1>3, WFMin
<1>5. PICK k \in set : s = Interval(k)
  BY <1>4
<1>6. ASSUME NEW j \in set, j < k PROVE FALSE
  <2>1. Interval(j) \subseteq Interval(k) /\ k \in Interval(k) /\ k \notin Interval(j)
    BY <1>6
  <2>2. Interval(j) \in family /\ Interval(j) \subseteq 0 .. last /\ s \subseteq 0 .. last
    BY <1>5
  <2>3. <<Interval(j), s>> \in StrictSubsetOrdering(0 .. last)
    <3> HIDE DEF Interval
    <3> QED
      BY <2>1, <2>2, <1>5 DEF StrictSubsetOrdering
  <2> QED
    BY <2>2, <2>3, <1>4
<1> QED
  BY <1>6

\* What lies below a bound when the bound moves up by one.
LEMMA BelowSteps ==
    ASSUME NEW set \in SUBSET Nat, NEW n \in Nat
    PROVE  /\ Below(set, 0) = {}
           /\ n \notin Below(set, n)
           /\ n \in set => Below(set, n + 1) = Below(set, n) \cup {n}
           /\ n \notin set => Below(set, n + 1) = Below(set, n)
<1>1. \A m \in set : m \in Nat /\ ~(m < 0) /\ (m < n + 1 <=> m < n \/ m = n)
  OBVIOUS
<1>2. ~(n < n)
  OBVIOUS
<1> QED
  BY <1>1, <1>2 DEF Below

\* Every index below the size of the set is the position of a member.
LEMMA PositionExists ==
    ASSUME NEW last \in Nat, NEW set \in SUBSET (1 .. last),
           NEW index \in Nat, index < Cardinality(set)
    PROVE  \E n \in set : Cardinality(Below(set, n)) = index
<1> DEFINE size(k) == Cardinality(Below(set, k))
<1> DEFINE above == {k \in 0 .. last + 1 : size(k) > index}
<1>1. IsFiniteSet(set) /\ set \in SUBSET Nat
  <2>1. IsFiniteSet(1 .. last)
    BY FS_Interval
  <2>2. IsFiniteSet(set)
    BY <2>1, FS_Subset
  <2> QED
    BY <2>2
<1>2. ASSUME NEW k \in Nat PROVE IsFiniteSet(Below(set, k)) /\ size(k) \in Nat
  BY <1>1, FS_Subset, FS_CardinalityType DEF Below
<1>3. last + 1 \in above
  <2>1. Below(set, last + 1) = set
    <3>1. \A m \in set : m < last + 1
      OBVIOUS
    <3> QED
      BY <3>1 DEF Below
  <2> QED
    BY <2>1
<1>4. size(0) = 0
  BY <1>1, BelowSteps, FS_EmptySet
<1>5. PICK k \in above : \A j \in above : k <= j
  <2>1. above \in SUBSET (0 .. last + 1) /\ above # {} /\ last + 1 \in Nat
    BY <1>3
  <2> HIDE DEF above
  <2> QED
    BY <2>1, SmallestNumber
<1>6. PICK n \in 0 .. last : k = n + 1
  <2>1. k \in 0 .. last + 1 /\ k # 0
    BY <1>4, <1>5
  <2>2. k - 1 \in 0 .. last /\ k = (k - 1) + 1
    BY <2>1
  <2> QED
    BY <2>2
<1>7. size(n) \in Nat /\ size(n) <= index
  <2>1. n \notin above
    BY <1>5, <1>6
  <2> QED
    BY <2>1, <1>2
<1>8. size(n + 1) > index
  BY <1>5, <1>6
<1>9. n \in set
  BY <1>1, <1>7, <1>8, BelowSteps
<1>10. size(n + 1) = size(n) + 1
  <2>1. Below(set, n + 1) = Below(set, n) \cup {n} /\ n \notin Below(set, n)
    BY <1>1, <1>9, BelowSteps
  <2>2. IsFiniteSet(Below(set, n))
    BY <1>2
  <2> QED
    BY <2>1, <2>2, FS_AddElement
<1> QED
  BY <1>7, <1>8, <1>9, <1>10
-----------------------------------------------------------------------------
(***************************************************************************)
(* Types.                                                                  *)
(***************************************************************************)
\* Initially nothing exists.
LEMMA TypeInit == ASSUME Init PROVE TypeOK
  BY ConstantsAssumption DEF Init, TypeOK, Times, ConstantsAssumption

\* A running draw has read something, and runs on a raffle that has closed;
\* the entries are finitely many, and each hash is a number.
LEMMA TypeFacts ==
    ASSUME TypeOK, DrawInv
    PROVE  /\ \A d \in Draws : pc[d] # "idle" => seen[d] \in Reading /\ raffle \in RaffleRow
           /\ Created => raffle \in RaffleRow
           /\ IsFiniteSet(entries)
           /\ \A block \in Blocks \cup {Null} : DrawHash[block] \in Nat
<1>1. IsFiniteSet(Numbers)
  BY ConstantsAssumption, FS_Interval DEF ConstantsAssumption, Numbers
<1>2. IsFiniteSet(entries)
  BY <1>1, FS_Subset DEF TypeOK
<1>3. Created => raffle \in RaffleRow
  BY DEF TypeOK, Created
<1>4. \A d \in Draws : pc[d] # "idle" => seen[d] \in Reading /\ Created
  BY DEF DrawInv, ReadingsSound, Closed
<1>5. \A block \in Blocks \cup {Null} : DrawHash[block] \in Nat
  BY ConstantsAssumption DEF ConstantsAssumption
<1> QED
  BY <1>2, <1>3, <1>4, <1>5

\* A step of a draw keeps the types, if it keeps the type of the raffle.
LEMMA DrawTypes ==
    ASSUME TypeOK, NEW d \in Draws, NEW from, NEW to, NEW reading \in Reading \cup {Null},
           to \in {"idle", "block", "pick", "publish"},
           DrawStep(d, from, to, reading), raffle' \in RaffleRow \cup {Null}
    PROVE  TypeOK'
  BY DEF TypeOK, DrawStep

\* Every step keeps the types.
LEMMA TypeNext ==
    ASSUME TypeOK, DrawInv, [Next]_vars
    PROVE  TypeOK'
<1> USE ConstantsAssumption DEF ConstantsAssumption
<1>1. ASSUME NEW opensAt \in Times, NEW closesAt \in Times, Create(opensAt, closesAt)
      PROVE  TypeOK'
  BY <1>1 DEF Create, RaffleRow, TypeOK
<1>2. ASSUME NEW t \in Requests, Enter(t) PROVE TypeOK'
  BY <1>2 DEF Enter, TypeOK
<1>3. ASSUME NEW t \in Requests, CommitEntry(t) PROVE TypeOK'
  <2>1. raffle \in RaffleRow
    BY <1>3, TypeFacts DEF CommitEntry, DrawInv, CountFollowsEntries
  <2>2. raffle' \in RaffleRow
    BY <1>3, <2>1 DEF CommitEntry, RaffleRow
  <2>3. entries' \subseteq Numbers
    BY <1>3 DEF CommitEntry, TypeOK
  <2> QED
    BY <1>3, <2>2, <2>3 DEF CommitEntry, TypeOK
<1>4. ASSUME NEW t \in Requests, RefuseEntry(t) PROVE TypeOK'
  BY <1>4 DEF RefuseEntry, TypeOK
<1>5. ASSUME NEW d \in Draws, RunDraw(d) PROVE TypeOK'
  <2> DEFINE reading == [entryCount |-> raffle.entryCount, block |-> Null, winner |-> Null]
  <2>1. raffle \in RaffleRow
    BY <1>5, TypeFacts DEF RunDraw, Closed
  <2>2. reading \in Reading
    BY <2>1 DEF RaffleRow, Reading
  <2>3. DrawStep(d, "idle", "block", reading) /\ raffle' = raffle
    BY <1>5 DEF RunDraw
  <2> HIDE DEF reading
  <2> QED
    BY <2>1, <2>2, <2>3, DrawTypes
<1>6. ASSUME NEW d \in Draws, GetLatestBlock(d) PROVE TypeOK'
  <2>1. PICK block \in {Len(mined), Null} \ {0} :
            DrawStep(d, "block", "pick", [seen[d] EXCEPT !.block = block])
    BY <1>6 DEF GetLatestBlock
  <2>2. seen[d] \in Reading /\ raffle \in RaffleRow /\ raffle' = raffle
    BY <1>6, TypeFacts DEF GetLatestBlock
  <2>3. block \in Blocks \cup {Null}
    BY <2>1 DEF TypeOK, Blocks
  <2>4. [seen[d] EXCEPT !.block = block] \in Reading
    BY <2>2, <2>3 DEF Reading
  <2> QED
    BY <2>1, <2>2, <2>4, DrawTypes
<1>7. ASSUME NEW d \in Draws, PickWinner(d) PROVE TypeOK'
  <2>1. seen[d] \in Reading /\ raffle \in RaffleRow /\ raffle' = raffle
    BY <1>7, TypeFacts DEF PickWinner
  <2>2. CASE DrawStep(d, "pick", "idle", Null)
    BY <2>1, <2>2, DrawTypes
  <2>3. ASSUME NEW number \in Winning(d),
               DrawStep(d, "pick", "publish", [seen[d] EXCEPT !.winner = number])
        PROVE  TypeOK'
    <3>1. number \in Numbers
      BY DEF Winning, EntryAt, TypeOK
    <3>2. [seen[d] EXCEPT !.winner = number] \in Reading
      BY <2>1, <3>1 DEF Reading
    <3> QED
      BY <2>1, <2>3, <3>2, DrawTypes
  <2> QED
    BY <1>7, <2>2, <2>3 DEF PickWinner
<1>8. ASSUME NEW d \in Draws, Publish(d) PROVE TypeOK'
  <2>1. seen[d] \in Reading /\ raffle \in RaffleRow
    BY <1>8, TypeFacts DEF Publish
  <2>2. seen[d].winner \in Numbers \cup {Null} /\ seen[d].block \in Blocks \cup {Null}
    BY <2>1 DEF Reading
  <2>3. DrawHash[seen[d].block] \in Nat
    BY <2>2, TypeFacts
  <2>4. (IF seen[d].block = Null THEN raffle.block ELSE seen[d].block) \in Blocks \cup {Null}
    BY <2>1, <2>2 DEF RaffleRow
  <2>5. raffle' \in RaffleRow
    BY <1>8, <2>1, <2>2, <2>3, <2>4 DEF Publish, RaffleRow
  <2> QED
    BY <1>8, <2>5, DrawTypes DEF Publish
<1>9. ASSUME NEW d \in Draws, DrawFails(d) PROVE TypeOK'
  <2>1. raffle \in RaffleRow /\ raffle' = raffle /\ DrawStep(d, pc[d], "idle", Null)
    BY <1>9, TypeFacts DEF DrawFails
  <2> QED
    BY <2>1, DrawTypes
<1>10. CASE Tick
  BY <1>10 DEF Tick, TypeOK, Times
<1>11. CASE MineBlock
  BY <1>11 DEF MineBlock, TypeOK
<1>12. CASE UNCHANGED vars
  BY <1>12 DEF vars, TypeOK
<1> QED
  BY <1>1, <1>2, <1>3, <1>4, <1>5, <1>6, <1>7, <1>8, <1>9, <1>10, <1>11, <1>12
  DEF Next, Server
-----------------------------------------------------------------------------
(***************************************************************************)
(* The invariant.                                                          *)
(***************************************************************************)
\* A winning index is a position below the count.
LEMMA IndexBelowCount ==
    ASSUME TypeOK, DrawInv, NEW block \in Blocks \cup {Null}, NEW count \in Nat \ {0}
    PROVE  WinningIndex(block, count) \in 0 .. count - 1
<1>1. DrawHash[block] \in Nat
  BY TypeFacts
<1> QED
  BY <1>1 DEF WinningIndex

\* What a draw read stands for an entry that is stored.
LEMMA WinnerExists == ASSUME TypeOK, DrawInv PROVE CountNeverDisagrees
<1> SUFFICES ASSUME NEW d \in Draws, pc[d] = "pick"
             PROVE  Winning(d) # {}
  BY DEF CountNeverDisagrees
<1> DEFINE index == WinningIndex(seen[d].block, seen[d].entryCount)
<1>1. /\ seen[d] \in Reading /\ seen[d].entryCount \in 1 .. raffle.entryCount
      /\ raffle.entryCount = Cardinality(entries) /\ raffle \in RaffleRow
  BY TypeFacts DEF DrawInv, ReadingsSound, CountFollowsEntries, Closed
<1>2. raffle.entryCount \in Nat /\ seen[d].block \in Blocks \cup {Null}
  BY <1>1 DEF RaffleRow, Reading
<1>3. index \in Nat /\ index < Cardinality(entries)
  <2>1. seen[d].entryCount \in Nat \ {0}
    BY <1>1, <1>2
  <2>2. index \in 0 .. seen[d].entryCount - 1
    BY <2>1, <1>2, IndexBelowCount
  <2> HIDE DEF index
  <2> QED
    BY <2>1, <2>2, <1>1, <1>2
<1>4. MaxNumber \in Nat /\ entries \in SUBSET (1 .. MaxNumber)
  BY ConstantsAssumption DEF ConstantsAssumption, TypeOK, Numbers
<1> HIDE DEF index
<1>5. PICK n \in entries : Cardinality(Below(entries, n)) = index
  BY <1>3, <1>4, PositionExists
<1>6. n \in Winning(d)
  BY <1>5 DEF Winning, EntryAt, Position, Below, index
<1> QED
  BY <1>6

\* Initially no draw has begun.
LEMMA InvInit == ASSUME Init PROVE DrawInv
  BY FS_EmptySet
  DEF Init, DrawInv, CountFollowsEntries, ReadingsSound, WinnerOfSomePrefix,
      SeedHiddenWhileOpen, BlockOnlyOfDraws, Created, Drawn, SeedPublic

\* A step that leaves the raffle, its entries and the draws alone keeps the
\* invariant while time passes.
LEMMA Frame ==
    ASSUME TypeOK, DrawInv, TypeOK', raffle' = raffle, entries' = entries, pc' = pc,
           seen' = seen, now <= now', ~Created => entering' = {}
    PROVE  DrawInv'
<1>1. now \in Int /\ now' \in Int /\ (Created => raffle.closesAt \in Int)
  BY TypeFacts DEF TypeOK, Times, RaffleRow
<1>2. Closed => Closed'
  BY <1>1 DEF Closed, Created
<1>3. CountFollowsEntries'
  BY DEF DrawInv, CountFollowsEntries, Created
<1>4. ReadingsSound'
  BY <1>2 DEF DrawInv, ReadingsSound, Position, WinningIndex
<1>5. WinnerOfSomePrefix'
  BY DEF DrawInv, WinnerOfSomePrefix, Drawn, Created, Position, WinningIndex
<1>6. SeedHiddenWhileOpen'
  <2>1. Drawn' => Drawn /\ ~ListedOpen'
    BY <1>1 DEF DrawInv, SeedHiddenWhileOpen, SeedPublic, Drawn, Created, ListedOpen
  <2> QED
    BY <1>2, <2>1 DEF DrawInv, SeedHiddenWhileOpen, SeedPublic
<1>7. BlockOnlyOfDraws'
  BY DEF DrawInv, BlockOnlyOfDraws, Drawn, Created
<1> QED
  BY <1>3, <1>4, <1>5, <1>6, <1>7 DEF DrawInv

\* A step of a draw that changes nothing but this draw, which has now read
\* what its next step needs.
LEMMA DrawMoves ==
    ASSUME TypeOK, DrawInv, NEW d \in Draws, NEW from, NEW to, NEW reading,
           DrawStep(d, from, to, reading), Created, Created',
           raffle'.closesAt = raffle.closesAt, raffle'.entryCount = raffle.entryCount,
           to # "idle" =>
               /\ reading \in Reading
               /\ Closed
               /\ reading.entryCount \in 1 .. raffle.entryCount
               /\ to = "publish" =>
                      /\ reading.winner \in entries
                      /\ Position(reading.winner)
                             = WinningIndex(reading.block, reading.entryCount)
    PROVE  CountFollowsEntries' /\ ReadingsSound' /\ \A x \in Draws : pc'[x] # "idle" => Closed'
<1>1. CountFollowsEntries'
  BY DEF DrawInv, CountFollowsEntries, DrawStep
<1>2. Closed => Closed'
  BY DEF Closed, DrawStep
<1>3. entries' = entries
  BY DEF DrawStep
<1>4. pc'[d] = to /\ seen'[d] = reading
  BY DEF TypeOK, DrawStep
<1>5. \A x \in Draws \ {d} : pc'[x] = pc[x] /\ seen'[x] = seen[x]
  BY DEF TypeOK, DrawStep
<1>6. ReadingsSound'
  <2> SUFFICES ASSUME NEW x \in Draws, pc'[x] # "idle"
               PROVE  /\ seen'[x] \in Reading
                      /\ Closed'
                      /\ seen'[x].entryCount \in 1 .. raffle'.entryCount
                      /\ pc'[x] = "publish" =>
                             /\ seen'[x].winner \in entries
                             /\ Position(seen'[x].winner)
                                    = WinningIndex(seen'[x].block, seen'[x].entryCount)
    BY <1>3 DEF ReadingsSound, WinningIndex, Position
  <2>1. CASE x = d
    BY <2>1, <1>2, <1>4
  <2>2. CASE x # d
    BY <2>2, <1>2, <1>5 DEF DrawInv, ReadingsSound
  <2> QED
    BY <2>1, <2>2
<1> QED
  BY <1>1, <1>6 DEF ReadingsSound

\* The same, when the row of the raffle does not change.
LEMMA DrawMovesOnly ==
    ASSUME TypeOK, DrawInv, NEW d \in Draws, NEW from, NEW to, NEW reading,
           DrawStep(d, from, to, reading), Created, raffle' = raffle,
           to # "idle" =>
               /\ reading \in Reading
               /\ Closed
               /\ reading.entryCount \in 1 .. raffle.entryCount
               /\ to = "publish" =>
                      /\ reading.winner \in entries
                      /\ Position(reading.winner)
                             = WinningIndex(reading.block, reading.entryCount)
    PROVE  DrawInv'
<1>1. Created'
  BY DEF Created
<1>2. CountFollowsEntries' /\ ReadingsSound' /\ \A x \in Draws : pc'[x] # "idle" => Closed'
  BY <1>1, DrawMoves
<1>3. WinnerOfSomePrefix'
  BY DEF DrawInv, WinnerOfSomePrefix, Drawn, Created, Position, WinningIndex, DrawStep
<1>4. SeedPublic' => Closed' /\ ~ListedOpen'
  BY DEF DrawInv, SeedHiddenWhileOpen, SeedPublic, Drawn, Created, Closed, ListedOpen, DrawStep
<1>5. BlockOnlyOfDraws'
  BY DEF DrawInv, BlockOnlyOfDraws, Drawn, Created
<1> QED
  BY <1>2, <1>3, <1>4, <1>5 DEF DrawInv, SeedHiddenWhileOpen

\* An entry that commits gets the last position and moves no other.
LEMMA PositionStable ==
    ASSUME TypeOK, NEW t \in Requests, CommitEntry(t)
    PROVE  \A w \in entries : Position(w)' = Position(w)
<1>1. PICK number \in Numbers :
          (\A n \in entries : n < number) /\ entries' = entries \cup {number}
  BY DEF CommitEntry
<1>2. ASSUME NEW w \in entries PROVE {n \in entries' : n < w} = {n \in entries : n < w}
  <2>1. w \in Int /\ number \in Int /\ w < number
    BY <1>1 DEF TypeOK, Numbers
  <2>2. ~(number < w)
    BY <2>1
  <2> QED
    BY <1>1, <2>2
<1> QED
  BY <1>2 DEF Position

\* An entry that commits after a draw began leaves what the draw read true.
LEMMA InvCommit ==
    ASSUME TypeOK, DrawInv, TypeOK', NEW t \in Requests, CommitEntry(t)
    PROVE  DrawInv'
<1>1. Created /\ raffle \in RaffleRow
  BY TypeFacts DEF CommitEntry, DrawInv, CountFollowsEntries
<1>2. PICK number \in Numbers :
          (\A n \in entries : n < number) /\ entries' = entries \cup {number}
  BY DEF CommitEntry
<1>3. number \notin entries
  BY <1>2 DEF Numbers
<1>4. raffle.entryCount \in Nat /\ raffle' = [raffle EXCEPT !.entryCount = raffle.entryCount + 1]
  BY <1>1 DEF CommitEntry, RaffleRow
<1>5. /\ raffle'.entryCount = raffle.entryCount + 1 /\ raffle' \in RaffleRow
      /\ raffle'.status = raffle.status /\ raffle'.closesAt = raffle.closesAt
      /\ raffle'.opensAt = raffle.opensAt
      /\ raffle'.winner = raffle.winner /\ raffle'.block = raffle.block
      /\ raffle'.drawHash = raffle.drawHash
  BY <1>1, <1>4 DEF RaffleRow
<1>6. Created' /\ (Closed' <=> Closed) /\ (Drawn' <=> Drawn) /\ (ListedOpen' <=> ListedOpen)
  BY <1>1, <1>5, NullAssumption DEF Created, Closed, Drawn, ListedOpen, CommitEntry
<1>7. CountFollowsEntries'
  <2>1. Cardinality(entries') = Cardinality(entries) + 1
    BY <1>2, <1>3, TypeFacts, FS_AddElement
  <2> QED
    BY <2>1, <1>1, <1>5, <1>6 DEF DrawInv, CountFollowsEntries
<1>8. \A w \in entries : w \in entries' /\ Position(w)' = Position(w)
  BY <1>2, PositionStable
<1>9. ReadingsSound'
  <2> SUFFICES ASSUME NEW d \in Draws, pc[d] # "idle"
               PROVE  /\ seen[d] \in Reading
                      /\ Closed'
                      /\ seen[d].entryCount \in 1 .. raffle'.entryCount
                      /\ pc[d] = "publish" =>
                             /\ seen[d].winner \in entries'
                             /\ Cardinality({n \in entries' : n < seen[d].winner})
                                    = WinningIndex(seen[d].block, seen[d].entryCount)
    BY DEF ReadingsSound, WinningIndex, Position, CommitEntry
  <2>1. /\ seen[d] \in Reading /\ Closed /\ seen[d].entryCount \in 1 .. raffle.entryCount
        /\ pc[d] = "publish" =>
               /\ seen[d].winner \in entries
               /\ Position(seen[d].winner) = WinningIndex(seen[d].block, seen[d].entryCount)
    BY DEF DrawInv, ReadingsSound
  <2>2. seen[d].entryCount \in 1 .. raffle'.entryCount
    BY <2>1, <1>4, <1>5
  <2>3. \A w \in entries : Cardinality({n \in entries' : n < w}) = Position(w)
    BY <1>8 DEF Position
  <2> QED
    BY <2>1, <2>2, <2>3, <1>6, <1>8
<1>10. WinnerOfSomePrefix'
  <2> SUFFICES ASSUME Drawn
               PROVE  /\ raffle'.winner \in entries'
                      /\ \E block \in {raffle'.block, Null}, count \in 1 .. raffle'.entryCount :
                             /\ raffle'.drawHash = DrawHash[block]
                             /\ Cardinality({n \in entries' : n < raffle'.winner})
                                    = WinningIndex(block, count)
    BY <1>6 DEF WinnerOfSomePrefix, WinningIndex, Position
  <2>1. PICK block \in {raffle.block, Null}, count \in 1 .. raffle.entryCount :
            /\ raffle.drawHash = DrawHash[block]
            /\ Position(raffle.winner) = WinningIndex(block, count)
    BY DEF DrawInv, WinnerOfSomePrefix
  <2>2. raffle.winner \in entries
    BY DEF DrawInv, WinnerOfSomePrefix
  <2>3. count \in 1 .. raffle'.entryCount
    BY <1>4, <1>5
  <2>4. Cardinality({n \in entries' : n < raffle.winner}) = Position(raffle.winner)
    BY <2>2, <1>8 DEF Position
  <2> QED
    BY <2>1, <2>2, <2>3, <2>4, <1>5, <1>8
<1>11. SeedHiddenWhileOpen'
  BY <1>6 DEF DrawInv, SeedHiddenWhileOpen, SeedPublic, CommitEntry
<1>12. BlockOnlyOfDraws'
  BY <1>1, <1>5, <1>6 DEF DrawInv, BlockOnlyOfDraws
<1> QED
  BY <1>7, <1>9, <1>10, <1>11, <1>12 DEF DrawInv

\* What Publish writes, and that it verifies against the count the draw read.
LEMMA PublishedRow ==
    ASSUME TypeOK, DrawInv, NEW d \in Draws, Publish(d)
    PROVE  /\ Created' /\ Drawn' /\ Closed'
           /\ raffle'.entryCount = raffle.entryCount /\ raffle'.closesAt = raffle.closesAt
           /\ raffle'.drawHash = DrawHash[seen[d].block]
           /\ raffle'.block = IF seen[d].block = Null THEN raffle.block ELSE seen[d].block
           /\ raffle'.winner = seen[d].winner
           /\ raffle'.winner \in entries
           /\ seen[d].entryCount \in 1 .. raffle.entryCount
           /\ Position(seen[d].winner) = WinningIndex(seen[d].block, seen[d].entryCount)
<1>1. /\ seen[d] \in Reading /\ Closed /\ raffle \in RaffleRow
      /\ seen[d].entryCount \in 1 .. raffle.entryCount
      /\ seen[d].winner \in entries
      /\ Position(seen[d].winner) = WinningIndex(seen[d].block, seen[d].entryCount)
  BY TypeFacts DEF Publish, DrawInv, ReadingsSound
<1>2. seen[d].winner \in Numbers \cup {Null} /\ seen[d].block \in Blocks \cup {Null}
  BY <1>1 DEF Reading
<1>3. DrawHash[seen[d].block] \in Nat
  BY <1>2, TypeFacts
<1>4. /\ raffle'.entryCount = raffle.entryCount /\ raffle'.closesAt = raffle.closesAt
      /\ raffle'.drawHash = DrawHash[seen[d].block]
      /\ raffle'.block = IF seen[d].block = Null THEN raffle.block ELSE seen[d].block
      /\ raffle'.winner = seen[d].winner /\ raffle'.status = "DRAWN"
      /\ raffle' \in RaffleRow
  BY <1>1, <1>2, <1>3 DEF Publish, RaffleRow
<1>5. Created' /\ Drawn'
  BY <1>4, NullAssumption DEF Created, Drawn
<1>6. Closed'
  BY <1>1, <1>4, <1>5 DEF Closed, Publish, DrawStep
<1> QED
  BY <1>1, <1>4, <1>5, <1>6

\* Publishing keeps the invariant, over an earlier result, too.
LEMMA InvPublish ==
    ASSUME TypeOK, DrawInv, TypeOK', NEW d \in Draws, Publish(d)
    PROVE  DrawInv'
<1>1. DrawStep(d, "publish", "idle", Null) /\ Created
  BY DEF Publish, DrawInv, ReadingsSound, Closed
<1>2. CountFollowsEntries' /\ ReadingsSound' /\ \A x \in Draws : pc'[x] # "idle" => Closed'
  BY <1>1, PublishedRow, DrawMoves
<1>3. WinnerOfSomePrefix'
  <2>1. entries' = entries
    BY <1>1 DEF DrawStep
  <2>2. seen[d].block \in {raffle'.block, Null}
    BY PublishedRow
  <2>3. \E count \in 1 .. raffle'.entryCount :
            /\ raffle'.drawHash = DrawHash[seen[d].block]
            /\ Cardinality({n \in entries' : n < raffle'.winner})
                   = WinningIndex(seen[d].block, count)
    BY <2>1, PublishedRow DEF Position
  <2> QED
    BY <2>1, <2>2, <2>3, PublishedRow DEF WinnerOfSomePrefix, Position, WinningIndex
<1>4. ~ListedOpen'
  BY PublishedRow DEF ListedOpen, Drawn
<1> QED
  BY <1>2, <1>3, <1>4, PublishedRow DEF DrawInv, SeedHiddenWhileOpen, BlockOnlyOfDraws

\* Every step keeps the invariant.
LEMMA InvNext ==
    ASSUME TypeOK, DrawInv, [Next]_vars, TypeOK'
    PROVE  DrawInv'
<1>1. ASSUME NEW opensAt \in Times, NEW closesAt \in Times, Create(opensAt, closesAt)
      PROVE  DrawInv'
  <2>1. entries = {} /\ \A d \in Draws : pc[d] = "idle"
    BY <1>1 DEF Create, DrawInv, CountFollowsEntries
  <2>2. /\ raffle' \in RaffleRow /\ raffle'.status # "DRAWN" /\ raffle'.entryCount = 0
        /\ raffle'.block = Null /\ entries' = {} /\ pc' = pc
    BY <1>1, <2>1 DEF Create, RaffleRow
  <2>3. Created' /\ ~Drawn'
    BY <2>2, NullAssumption DEF Created, Drawn
  <2> QED
    BY <2>1, <2>2, <2>3, FS_EmptySet
    DEF DrawInv, CountFollowsEntries, ReadingsSound, WinnerOfSomePrefix, SeedHiddenWhileOpen,
        BlockOnlyOfDraws, SeedPublic
<1>2. ASSUME NEW t \in Requests, Enter(t) PROVE DrawInv'
  BY <1>2, Frame DEF Enter, TypeOK, Times
<1>3. ASSUME NEW t \in Requests, CommitEntry(t) PROVE DrawInv'
  BY <1>3, InvCommit
<1>4. ASSUME NEW t \in Requests, RefuseEntry(t) PROVE DrawInv'
  BY <1>4, Frame DEF RefuseEntry, TypeOK, Times, DrawInv, CountFollowsEntries
<1>5. ASSUME NEW d \in Draws, RunDraw(d) PROVE DrawInv'
  <2> DEFINE reading == [entryCount |-> raffle.entryCount, block |-> Null, winner |-> Null]
  <2>1. Closed /\ Created /\ raffle \in RaffleRow /\ raffle' = raffle
    BY <1>5, TypeFacts DEF RunDraw, Closed
  <2>2. reading \in Reading /\ reading.entryCount \in 1 .. raffle.entryCount
    BY <1>5, <2>1 DEF RunDraw, RaffleRow, Reading
  <2>3. DrawStep(d, "idle", "block", reading)
    BY <1>5 DEF RunDraw
  <2> HIDE DEF reading
  <2> QED
    BY <2>1, <2>2, <2>3, DrawMovesOnly
<1>6. ASSUME NEW d \in Draws, GetLatestBlock(d) PROVE DrawInv'
  <2>1. PICK block \in {Len(mined), Null} \ {0} :
            DrawStep(d, "block", "pick", [seen[d] EXCEPT !.block = block])
    BY <1>6 DEF GetLatestBlock
  <2> DEFINE reading == [seen[d] EXCEPT !.block = block]
  <2>2. /\ seen[d] \in Reading /\ Closed /\ Created /\ raffle' = raffle
        /\ seen[d].entryCount \in 1 .. raffle.entryCount
    BY <1>6 DEF GetLatestBlock, DrawInv, ReadingsSound, Closed
  <2>3. block \in Blocks \cup {Null}
    BY <2>1 DEF TypeOK, Blocks
  <2>4. reading \in Reading /\ reading.entryCount = seen[d].entryCount
    BY <2>2, <2>3 DEF Reading
  <2>5. DrawStep(d, "block", "pick", reading)
    BY <2>1
  <2> HIDE DEF reading
  <2> QED
    BY <2>2, <2>4, <2>5, DrawMovesOnly
<1>7. ASSUME NEW d \in Draws, PickWinner(d) PROVE DrawInv'
  <2>1. /\ seen[d] \in Reading /\ Closed /\ Created /\ raffle' = raffle
        /\ seen[d].entryCount \in 1 .. raffle.entryCount
    BY <1>7 DEF PickWinner, DrawInv, ReadingsSound, Closed
  <2>2. CASE DrawStep(d, "pick", "idle", Null)
    BY <2>1, <2>2, DrawMovesOnly
  <2>3. ASSUME NEW number \in Winning(d),
               DrawStep(d, "pick", "publish", [seen[d] EXCEPT !.winner = number])
        PROVE  DrawInv'
    <3> DEFINE reading == [seen[d] EXCEPT !.winner = number]
    <3>1. number \in entries /\ number \in Numbers
          /\ Position(number) = WinningIndex(seen[d].block, seen[d].entryCount)
      BY DEF Winning, EntryAt, TypeOK
    <3>2. /\ reading \in Reading /\ reading.entryCount = seen[d].entryCount
          /\ reading.block = seen[d].block /\ reading.winner = number
      BY <2>1, <3>1 DEF Reading
    <3>3. DrawStep(d, "pick", "publish", reading)
      BY <2>3
    <3> HIDE DEF reading
    <3> QED
      BY <2>1, <3>1, <3>2, <3>3, DrawMovesOnly
  <2> QED
    BY <1>7, <2>2, <2>3 DEF PickWinner
<1>8. ASSUME NEW d \in Draws, Publish(d) PROVE DrawInv'
  BY <1>8, InvPublish
<1>9. ASSUME NEW d \in Draws, DrawFails(d) PROVE DrawInv'
  <2>1. Created /\ raffle' = raffle /\ DrawStep(d, pc[d], "idle", Null)
    BY <1>9 DEF DrawFails, DrawInv, ReadingsSound, Closed
  <2> QED
    BY <2>1, DrawMovesOnly
<1>10. CASE Tick
  BY <1>10, Frame DEF Tick, TypeOK, Times, DrawInv, CountFollowsEntries
<1>11. CASE MineBlock
  BY <1>11, Frame DEF MineBlock, TypeOK, Times, DrawInv, CountFollowsEntries
<1>12. CASE UNCHANGED vars
  BY <1>12, Frame DEF vars, TypeOK, Times, DrawInv, CountFollowsEntries
<1> QED
  BY <1>1, <1>2, <1>3, <1>4, <1>5, <1>6, <1>7, <1>8, <1>9, <1>10, <1>11, <1>12
  DEF Next, Server
-----------------------------------------------------------------------------
(***************************************************************************)
(* The theorems.                                                           *)
(***************************************************************************)
\* The types and the invariant hold of every state that create, enter and
\* runDraw can reach.
THEOREM DrawInvariant == Spec => [](TypeOK /\ DrawInv)
<1>1. Init => TypeOK /\ DrawInv
  BY TypeInit, InvInit
<1>2. TypeOK /\ DrawInv /\ [Next]_vars => (TypeOK /\ DrawInv)'
  BY TypeNext, InvNext
<1> QED
  BY <1>1, <1>2, PTL DEF Spec

\* The row of the raffle, its entries, and what the draws hold have their types.
THEOREM TypeCorrect == Spec => []TypeOK
  BY DrawInvariant, PTL

\* The winner that runDraw publishes is who the published hash selects among the
\* first so many entries, whatever committed meanwhile; the hash is of the block
\* in the row, or of none where the RPC node did not answer this draw.
THEOREM WinnersFit == Spec => []WinnerOfSomePrefix
<1>1. DrawInv => WinnerOfSomePrefix
  BY DEF DrawInv
<1> QED
  BY <1>1, DrawInvariant, PTL

\* runDraw always finds the winning entry: its branch for a missing one is dead.
THEOREM CountsAgree == Spec => []CountNeverDisagrees
<1>1. TypeOK /\ DrawInv => CountNeverDisagrees
  BY WinnerExists
<1> QED
  BY <1>1, DrawInvariant, PTL

\* The seed of a raffle is not shown while anybody can still enter it.
THEOREM SeedHidden == Spec => []SeedHiddenWhileOpen
<1>1. DrawInv => SeedHiddenWhileOpen
  BY DEF DrawInv
<1> QED
  BY <1>1, DrawInvariant, PTL

\* A published result verifies, unless an entry was committed since its draw
\* read the count, or its draw read no block and an earlier result had one.
THEOREM PublishedVerifies == Spec => PublishedResultVerifies
<1>1. ASSUME TypeOK, DrawInv, [Next]_vars, NEW d \in Draws,
             pc[d] = "publish", pc'[d] = "idle", seen[d].entryCount = raffle.entryCount,
             seen[d].block # Null \/ raffle.block = Null,
             raffle' # raffle
      PROVE  Verified'
  <2>1. Publish(d)
    <3>1. ASSUME NEW x \in Draws, x # d, NEW from, NEW to, NEW reading,
                 DrawStep(x, from, to, reading)
          PROVE  FALSE
      BY <1>1, <3>1 DEF DrawStep, TypeOK
    <3>2. ASSUME NEW x \in Draws, Publish(x) PROVE x = d
      BY <3>1, <3>2 DEF Publish
    <3> QED
      BY <1>1, <3>2
      DEF Next, Server, Create, Enter, CommitEntry, RefuseEntry, RunDraw, GetLatestBlock,
          PickWinner, DrawFails, Tick, MineBlock, vars
  <2>2. entries' = entries
    BY <2>1 DEF Publish, DrawStep
  <2>3. raffle'.block = seen[d].block
    BY <1>1, <2>1, PublishedRow
  <2>4. Cardinality({n \in entries' : n < raffle'.winner})
            = WinningIndex(raffle'.block, raffle'.entryCount)
    BY <1>1, <2>1, <2>2, <2>3, PublishedRow DEF Position
  <2> QED
    BY <1>1, <2>1, <2>3, <2>4, PublishedRow DEF Verified, Position, WinningIndex
<1>2. TypeOK /\ DrawInv /\ [Next]_vars =>
          [\A d \in Draws :
              /\ pc[d] = "publish" /\ pc'[d] = "idle" /\ Drawn'
              /\ seen[d].entryCount = raffle.entryCount
              /\ seen[d].block # Null \/ raffle.block = Null
              /\ raffle' # raffle
              => Verified']_vars
  BY <1>1
<1> QED
  BY <1>2, DrawInvariant, PTL DEF Spec, PublishedResultVerifies

\* A block that is read is the latest one, and what is mined after the close
\* overtakes no block that was read after the close.
LEMMA EntropyNext ==
    ASSUME TypeOK, DrawInv, EntropyNotStale, [Next]_vars
    PROVE  EntropyNotStale'
<1> USE DEF NotOvertaken
<1>1. ASSUME NEW d \in Draws, NEW from, NEW to, NEW reading, DrawStep(d, from, to, reading),
             raffle' = raffle,
             to \in {"pick", "publish"} => NotOvertaken(reading.block)
      PROVE  EntropyNotStale'
  <2>1. /\ pc'[d] = to /\ seen'[d] = reading /\ mined' = mined
        /\ \A x \in Draws \ {d} : pc'[x] = pc[x] /\ seen'[x] = seen[x]
    BY <1>1 DEF DrawStep, TypeOK
  <2> QED
    BY <1>1, <2>1 DEF EntropyNotStale, Drawn, Created
<1>2. ASSUME NEW d \in Draws, GetLatestBlock(d) PROVE EntropyNotStale'
  <2>1. PICK block \in {Len(mined), Null} \ {0} :
            DrawStep(d, "block", "pick", [seen[d] EXCEPT !.block = block])
    BY <1>2 DEF GetLatestBlock
  <2>2. seen[d] \in Reading /\ raffle' = raffle
    BY <1>2, TypeFacts DEF GetLatestBlock
  <2>3. [seen[d] EXCEPT !.block = block].block = block
    BY <2>2 DEF Reading
  <2>4. block # Null => block = Len(mined) /\ Len(mined) \in Nat /\ Len(mined) # 0
    BY <2>1 DEF TypeOK
  <2>5. block # Null => block \in 1 .. Len(mined) /\ block + 1 .. Len(mined) = {}
    BY <2>4
  <2>6. NotOvertaken(block)
    BY <2>5
  <2> QED
    BY <1>1, <2>1, <2>2, <2>3, <2>6
<1>3. ASSUME NEW d \in Draws, PickWinner(d) PROVE EntropyNotStale'
  <2>1. seen[d] \in Reading /\ raffle' = raffle /\ pc[d] = "pick"
    BY <1>3, TypeFacts DEF PickWinner
  <2>2. CASE DrawStep(d, "pick", "idle", Null)
    BY <1>1, <2>1, <2>2
  <2>3. ASSUME NEW number, DrawStep(d, "pick", "publish", [seen[d] EXCEPT !.winner = number])
        PROVE  EntropyNotStale'
    <3>1. [seen[d] EXCEPT !.winner = number].block = seen[d].block
      BY <2>1 DEF Reading
    <3> QED
      BY <1>1, <2>1, <2>3, <3>1 DEF EntropyNotStale
  <2> QED
    BY <1>3, <2>2, <2>3 DEF PickWinner
<1>4. ASSUME NEW d \in Draws, Publish(d) PROVE EntropyNotStale'
  <2>1. /\ pc[d] = "publish" /\ pc'[d] = "idle" /\ mined' = mined
        /\ \A x \in Draws \ {d} : pc'[x] = pc[x] /\ seen'[x] = seen[x]
    BY <1>4 DEF Publish, DrawStep, TypeOK
  <2>2. /\ raffle'.block = IF seen[d].block = Null THEN raffle.block ELSE seen[d].block
        /\ raffle'.closesAt = raffle.closesAt
    BY <1>4, PublishedRow
  <2>3. raffle.block # Null => NotOvertaken(raffle.block)
    <3>1. Created /\ raffle.block # Null => Drawn
      BY DEF DrawInv, BlockOnlyOfDraws
    <3>2. Created
      BY <2>1 DEF DrawInv, ReadingsSound, Closed
    <3> QED
      BY <3>1, <3>2 DEF EntropyNotStale
  <2>4. NotOvertaken(seen[d].block)
    BY <2>1 DEF EntropyNotStale
  <2>5. raffle'.block # Null =>
            /\ raffle'.block \in 1 .. Len(mined)
            /\ \A later \in raffle'.block + 1 .. Len(mined) : mined[later] >= raffle.closesAt
    BY <2>2, <2>3, <2>4
  <2>6. \A x \in Draws : pc'[x] \in {"pick", "publish"} => NotOvertaken(seen[x].block) /\ x # d
    BY <2>1 DEF EntropyNotStale
  <2> QED
    BY <2>1, <2>2, <2>5, <2>6 DEF EntropyNotStale
<1>5. CASE MineBlock
  <2>1. /\ mined' = Append(mined, now) /\ UNCHANGED <<now, raffle, pc, seen>>
        /\ Len(mined') = Len(mined) + 1 /\ Len(mined) \in Nat
        /\ \A i \in 1 .. Len(mined) : mined'[i] = mined[i]
        /\ mined'[Len(mined) + 1] = now
    BY <1>5 DEF MineBlock, TypeOK
  <2>2. Created => raffle \in RaffleRow
    BY TypeFacts
  <2>3. ASSUME NEW block, NotOvertaken(block), Closed PROVE NotOvertaken(block)'
    <3>1. now \in Int /\ raffle.closesAt \in Int /\ now >= raffle.closesAt
      BY <2>2, <2>3 DEF Closed, RaffleRow, Times, TypeOK
    <3> QED
      BY <2>1, <2>3, <3>1
  <2>4. Drawn => Closed
    BY DEF DrawInv, SeedHiddenWhileOpen, SeedPublic
  <2>5. \A d \in Draws : pc[d] # "idle" => Closed
    BY DEF DrawInv, SeedHiddenWhileOpen
  <2> HIDE DEF NotOvertaken
  <2>6. Drawn' => NotOvertaken(raffle.block)'
    BY <2>1, <2>3, <2>4 DEF EntropyNotStale, Drawn, Created
  <2>7. ASSUME NEW d \in Draws, pc'[d] \in {"pick", "publish"}
        PROVE  NotOvertaken(seen[d].block)'
    BY <2>1, <2>3, <2>5, <2>7 DEF EntropyNotStale
  <2> QED
    BY <2>6, <2>7 DEF EntropyNotStale
<1>6. ASSUME NEW opensAt \in Times, NEW closesAt \in Times, Create(opensAt, closesAt)
      PROVE  EntropyNotStale'
  <2>1. \A d \in Draws : pc'[d] = "idle"
    BY <1>6 DEF Create, DrawInv, CountFollowsEntries
  <2>2. ~Drawn'
    BY <1>6 DEF Create, Drawn
  <2> QED
    BY <2>1, <2>2 DEF EntropyNotStale
<1>7. ASSUME NEW t \in Requests, CommitEntry(t) PROVE EntropyNotStale'
  <2>1. raffle \in RaffleRow /\ Created
    BY <1>7, TypeFacts DEF CommitEntry, DrawInv, CountFollowsEntries
  <2>2. /\ raffle'.status = raffle.status /\ raffle'.block = raffle.block
        /\ raffle'.closesAt = raffle.closesAt /\ UNCHANGED <<mined, pc, seen>>
    BY <1>7, <2>1 DEF CommitEntry, RaffleRow
  <2> QED
    BY <2>1, <2>2 DEF EntropyNotStale, Drawn
<1>8. ASSUME NEW d \in Draws, RunDraw(d) \/ DrawFails(d) PROVE EntropyNotStale'
  BY <1>1, <1>8 DEF RunDraw, DrawFails
<1>9. CASE UNCHANGED <<mined, raffle, pc, seen>>
  BY <1>9 DEF EntropyNotStale, Drawn, Created
<1> QED
  BY <1>2, <1>3, <1>4, <1>5, <1>6, <1>7, <1>8, <1>9
  DEF Next, Server, Enter, RefuseEntry, Tick, vars

\* No draw uses, and no result keeps, a block that another block had followed
\* before the raffle closed.
THEOREM EntropyFresh == Spec => []EntropyNotStale
<1>1. Init => EntropyNotStale
  BY DEF Init, EntropyNotStale, Drawn, Created
<1>2. TypeOK /\ DrawInv /\ EntropyNotStale /\ [Next]_vars => EntropyNotStale'
  BY EntropyNext
<1> QED
  BY <1>1, <1>2, DrawInvariant, PTL DEF Spec
=============================================================================
