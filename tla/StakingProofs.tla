--------------------------- MODULE StakingProofs ---------------------------
(***************************************************************************)
(* The safety properties of the vault, for any number of users, tenants,   *)
(* locks, tiers and concurrent calls, whatever is sold on the chain, and   *)
(* whichever calls and transactions are cut off.                           *)
(***************************************************************************)
EXTENDS Staking, TLAPS

\* What Append does to the indices and the rows of a sequence.
LEMMA AppendRow ==
    ASSUME NEW S, NEW seq \in Seq(S), NEW e \in S
    PROVE  LET new == Append(seq, e)
               last == Len(seq) + 1
           IN  /\ new \in Seq(S)
               /\ DOMAIN new = DOMAIN seq \cup {last} /\ last \notin DOMAIN seq
               /\ \A i \in DOMAIN seq : new[i] = seq[i]
               /\ new[last] = e
  OBVIOUS

\* Initially nothing is stored and nobody is busy.
LEMMA TypeInit == ASSUME Init PROVE TypeOK
  BY ConstantsAssumption DEF ConstantsAssumption, Init, TypeOK, Steps, Exiting

\* Rows are never deleted: what is stored stays stored.
LEMMA StoredGrows == ASSUME TypeOK, [Next]_vars PROVE Stored \subseteq Stored'
<1> USE NullAssumption DEF Stored, StakeRow, TypeOK
<1>1. ASSUME NEW c \in Calls, InsertStake(c) PROVE Stored \subseteq Stored'
  BY <1>1 DEF InsertStake
<1>2. ASSUME NEW c \in Calls, CommitUnstake(c) PROVE Stored \subseteq Stored'
  <2>1. call[c].id \in Stored
    BY <1>2 DEF CommitUnstake, Exiting
  <2>2. Released(stake[call[c].id], call[c].stillOwns) \in StakeRow
    BY <2>1, ConstantsAssumption, ZenonT(60) DEF Released, Statuses, ConstantsAssumption
  <2>3. stake' = [stake EXCEPT ![call[c].id] = Released(stake[call[c].id], call[c].stillOwns)]
    BY <1>2 DEF CommitUnstake
  <2> QED
    BY <2>2, <2>3
<1>3. CASE stake' = stake
  BY <1>3
<1> QED
  BY <1>1, <1>2, <1>3
  DEF Next, Server, Stake, StakeOwnership, Unstake, ExitOwnership, OwnershipUnavailable,
      UpdateStake, CreditReward, Crash, Transfer, Tick, vars

\* What the tables, the chain and the clock hold has its type.
DataOK ==
    /\ stake \in [StakeIds -> StakeRow \cup {Null}]
    /\ ledger \in Seq(LedgerRow(Users, StakeIds))
    /\ owner \in [Nfts -> Users \cup Outsiders]
    /\ now \in 0 .. MaxTime

\* A call that moves to a step with the arguments this step needs keeps the
\* types of all calls.
LEMMA CallMoves ==
    ASSUME TypeOK, DataOK', Stored \subseteq Stored',
           NEW c \in Calls, NEW to \in Steps, NEW v \in StakeCall \cup UnstakeCall \cup {Null},
           pc' = [pc EXCEPT ![c] = to], call' = [call EXCEPT ![c] = v],
           to \in {"askStake", "insert"} => v \in StakeCall,
           to \in Exiting => v \in UnstakeCall /\ v.id \in Stored
    PROVE  TypeOK'
<1>1. pc' \in [Calls -> Steps] /\ call' \in [Calls -> StakeCall \cup UnstakeCall \cup {Null}]
  BY DEF TypeOK
<1>2. ASSUME NEW x \in Calls
      PROVE  /\ pc'[x] \in {"askStake", "insert"} => call'[x] \in StakeCall
             /\ pc'[x] \in Exiting => call'[x] \in UnstakeCall /\ call'[x].id \in Stored
  <2>1. CASE x = c
    BY <2>1 DEF TypeOK
  <2>2. CASE x # c
    BY <2>2 DEF TypeOK
  <2> QED
    BY <2>1, <2>2
<1> QED
  BY <1>1, <1>2 DEF TypeOK, DataOK

\* So does a call that ends.
LEMMA CallEnds ==
    ASSUME TypeOK, DataOK', Stored \subseteq Stored', NEW c \in Calls, Answer(c) \/ Fail(c)
    PROVE  TypeOK'
  BY CallMoves DEF Answer, Fail, End, Steps, Exiting

LEMMA DataStep == ASSUME TypeOK, [Next]_vars PROVE DataOK'
<1> USE ConstantsAssumption DEF ConstantsAssumption, DataOK, TypeOK
<1>1. ASSUME NEW c \in Calls, InsertStake(c) PROVE DataOK'
  <2>1. call[c] \in StakeCall
    BY <1>1 DEF InsertStake
  <2>2. NewStake(c) \in StakeRow
    BY <2>1 DEF NewStake, StakeRow, StakeCall, Statuses
  <2>3. stake' \in [StakeIds -> StakeRow \cup {Null}] /\ UNCHANGED <<ledger, owner, now>>
    <3>1. ASSUME NEW id \in StakeIds \ Stored, stake' = [stake EXCEPT ![id] = NewStake(c)]
          PROVE  stake' \in [StakeIds -> StakeRow \cup {Null}]
      BY <2>2, <3>1
    <3>2. stake \in [StakeIds -> StakeRow \cup {Null}]
      OBVIOUS
    <3>3. \/ stake' = stake
          \/ \E id \in StakeIds \ Stored : stake' = [stake EXCEPT ![id] = NewStake(c)]
      BY <1>1 DEF InsertStake
    <3> QED
      BY <1>1, <3>1, <3>2, <3>3 DEF InsertStake
  <2> QED
    BY <2>3
<1>2. ASSUME NEW c \in Calls, CommitUnstake(c) PROVE DataOK'
  <2> DEFINE id == call[c].id
             row == CreditRow(call[c].userId, stake[id].ticketsEarned, id)
  <2>1. call[c] \in UnstakeCall /\ id \in StakeIds /\ stake[id] \in StakeRow
    BY <1>2 DEF CommitUnstake, Exiting, UnstakeCall, Stored
  <2>2. Released(stake[id], call[c].stillOwns) \in StakeRow
    BY <2>1 DEF Released, StakeRow, Statuses
  <2>3. row \in LedgerRow(Users, StakeIds)
    BY <2>1 DEF CreditRow, LedgerRow, Reasons, UnstakeCall, StakeRow
  <2>4. /\ stake' = [stake EXCEPT ![id] = Released(stake[id], call[c].stillOwns)]
        /\ ledger' = IF call[c].stillOwns THEN Append(ledger, row) ELSE ledger
        /\ UNCHANGED <<owner, now>>
    BY <1>2 DEF CommitUnstake
  <2> HIDE DEF row, id
  <2>5. ledger' \in Seq(LedgerRow(Users, StakeIds))
    BY <2>3, <2>4, AppendRow
  <2> QED
    BY <2>2, <2>4, <2>5
<1>3. ASSUME NEW n \in Nfts, NEW w \in Users \cup Outsiders, Transfer(n, w) PROVE DataOK'
  BY <1>3 DEF Transfer
<1>4. CASE Tick
  BY <1>4 DEF Tick
<1>5. CASE UNCHANGED <<stake, ledger, owner, now>>
  BY <1>5
<1> QED
  BY <1>1, <1>2, <1>3, <1>4, <1>5
  DEF Next, Server, Stake, StakeOwnership, Unstake, ExitOwnership, OwnershipUnavailable,
      UpdateStake, CreditReward, Crash, vars

LEMMA TypeStep == ASSUME TypeOK, [Next]_vars PROVE TypeOK'
<1> USE ConstantsAssumption DEF ConstantsAssumption
<1>0. DataOK' /\ Stored \subseteq Stored'
  BY DataStep, StoredGrows
<1>1. ASSUME NEW c \in Calls, NEW u \in Users, NEW n \in Nfts, NEW tier \in Tiers,
             Stake(c, u, n, tier)
      PROVE  TypeOK'
  <2> DEFINE v == [userId |-> u, nftId |-> n, tier |-> tier, endsAt |-> 0]
  <2>1. v \in StakeCall /\ "askStake" \in Steps /\ "askStake" \notin Exiting
    BY DEF StakeCall, Steps, Exiting
  <2>2. pc' = [pc EXCEPT ![c] = "askStake"] /\ call' = [call EXCEPT ![c] = v]
    BY <1>1 DEF Stake, Goto
  <2> HIDE DEF v
  <2> QED
    BY <1>0, <2>1, <2>2, CallMoves
<1>2. ASSUME NEW c \in Calls, StakeOwnership(c) PROVE TypeOK'
  <2>1. CASE Answer(c)
    BY <1>0, <2>1, CallEnds
  <2>2. CASE ~Answer(c)
    <3> DEFINE v == [call[c] EXCEPT !.endsAt = now + Days[call[c].tier]]
    <3>1. call[c] \in StakeCall /\ now \in Nat
      BY <1>2 DEF StakeOwnership, TypeOK
    <3>2. v \in StakeCall /\ "insert" \in Steps /\ "insert" \notin Exiting
      BY <3>1 DEF StakeCall, Steps, Exiting
    <3>3. pc' = [pc EXCEPT ![c] = "insert"] /\ call' = [call EXCEPT ![c] = v]
      BY <1>2, <2>2 DEF StakeOwnership, Goto
    <3> HIDE DEF v
    <3> QED
      BY <1>0, <3>2, <3>3, CallMoves
  <2> QED
    BY <2>1, <2>2
<1>3. ASSUME NEW c \in Calls, NEW u \in Users, NEW id \in StakeIds, Unstake(c, u, id)
      PROVE  TypeOK'
  <2> DEFINE v == [userId |-> u, id |-> id, stillOwns |-> FALSE]
  <2>1. v \in UnstakeCall /\ "askExit" \in Steps /\ v.id \in Stored
    BY <1>3 DEF UnstakeCall, Steps, Unstake, HasStatus
  <2>2. pc' = [pc EXCEPT ![c] = "askExit"] /\ call' = [call EXCEPT ![c] = v]
    BY <1>3 DEF Unstake, Goto
  <2> HIDE DEF v
  <2> QED
    BY <1>0, <2>1, <2>2, CallMoves
<1>4. ASSUME NEW c \in Calls, ExitOwnership(c) PROVE TypeOK'
  <2> DEFINE v == [call[c] EXCEPT !.stillOwns = Owns(call[c].userId, stake[call[c].id].nftId)]
  <2>1. call[c] \in UnstakeCall /\ call[c].id \in Stored
    BY <1>4 DEF ExitOwnership, TypeOK, Exiting
  <2>2. v \in UnstakeCall /\ v.id \in Stored /\ "update" \in Steps
    BY <2>1 DEF UnstakeCall, Steps, Owns
  <2>3. pc' = [pc EXCEPT ![c] = "update"] /\ call' = [call EXCEPT ![c] = v]
    BY <1>4 DEF ExitOwnership, Goto
  <2> HIDE DEF v
  <2> QED
    BY <1>0, <2>2, <2>3, CallMoves
<1>5. ASSUME NEW c \in Calls, UpdateStake(c) \/ CreditReward(c), ~Answer(c) PROVE TypeOK'
  <2>1. call[c] \in UnstakeCall /\ call[c].id \in Stored /\ call' = [call EXCEPT ![c] = call[c]]
    BY <1>5 DEF UpdateStake, CreditReward, TypeOK, Exiting
  <2>2. PICK to \in {"credit", "commit"} : pc' = [pc EXCEPT ![c] = to]
    BY <1>5 DEF UpdateStake, CreditReward, Goto
  <2> QED
    BY <1>0, <2>1, <2>2, CallMoves DEF Steps
<1>6. ASSUME NEW c \in Calls, Answer(c) \/ Fail(c) PROVE TypeOK'
  BY <1>0, <1>6, CallEnds
<1>7. CASE UNCHANGED <<pc, call>>
  BY <1>0, <1>7 DEF TypeOK, DataOK
<1> QED
  BY <1>1, <1>2, <1>3, <1>4, <1>5, <1>6, <1>7
  DEF Next, Server, InsertStake, OwnershipUnavailable, CommitUnstake, Crash, Transfer, Tick, vars

\* Rows, calls and ledger keep their types in every behaviour.
THEOREM TypeCorrect == Spec => []TypeOK
<1>1. Init => TypeOK
  BY TypeInit
<1>2. TypeOK /\ [Next]_vars => TypeOK'
  BY TypeStep
<1> QED
  BY <1>1, <1>2, PTL DEF Spec
-----------------------------------------------------------------------------
\* The steps by what they do to the tables: three actions write them, and the
\* others leave both alone.
LEMMA Writers ==
    ASSUME [Next]_vars
    PROVE  \/ \E c \in Calls : InsertStake(c) \/ CommitUnstake(c)
           \/ UNCHANGED <<stake, ledger>>
  BY DEF Next, Server, Stake, StakeOwnership, Unstake, ExitOwnership, OwnershipUnavailable,
         UpdateStake, CreditReward, Crash, Transfer, Tick, vars

\* What a committed insert and a committed unstake do to the rows.
LEMMA InsertWrites ==
    ASSUME TypeOK, NEW c \in Calls, InsertStake(c), stake' # stake
    PROVE  /\ SlotFree(call[c].nftId) /\ ledger' = ledger
           /\ \E id \in StakeIds \ Stored :
                  /\ stake' = [stake EXCEPT ![id] = NewStake(c)]
                  /\ Stored' = Stored \cup {id}
                  /\ stake'[id] = NewStake(c)
                  /\ \A j \in StakeIds \ {id} : stake'[j] = stake[j]
<1>1. call[c] \in StakeCall
  BY DEF InsertStake, TypeOK
<1>2. NewStake(c) \in StakeRow
  BY <1>1, ConstantsAssumption
  DEF NewStake, StakeRow, StakeCall, Statuses, ConstantsAssumption
<1>3. PICK id \in StakeIds \ Stored : stake' = [stake EXCEPT ![id] = NewStake(c)]
  BY DEF InsertStake
<1>4. Stored' = Stored \cup {id} /\ stake'[id] = NewStake(c)
      /\ \A j \in StakeIds \ {id} : stake'[j] = stake[j]
  BY <1>2, <1>3, NullAssumption DEF Stored, TypeOK
<1> QED
  BY <1>3, <1>4 DEF InsertStake

LEMMA UnstakeWrites ==
    ASSUME TypeOK, NEW c \in Calls, CommitUnstake(c)
    PROVE  /\ call[c] \in UnstakeCall /\ call[c].id \in Stored
           /\ stake[call[c].id] \in StakeRow
           /\ Stored' = Stored
           /\ stake'[call[c].id] = Released(stake[call[c].id], call[c].stillOwns)
           /\ \A j \in StakeIds \ {call[c].id} : stake'[j] = stake[j]
<1>1. call[c] \in UnstakeCall /\ call[c].id \in Stored /\ call[c].id \in StakeIds
  BY DEF CommitUnstake, TypeOK, Exiting, UnstakeCall
<1>2. stake[call[c].id] \in StakeRow
  BY <1>1 DEF TypeOK, Stored
<1>3. Released(stake[call[c].id], call[c].stillOwns) \in StakeRow
  BY <1>2, ConstantsAssumption DEF Released, StakeRow, Statuses, ConstantsAssumption
<1>4. stake' = [stake EXCEPT ![call[c].id] = Released(stake[call[c].id], call[c].stillOwns)]
  BY DEF CommitUnstake
<1> QED
  BY <1>1, <1>2, <1>3, <1>4, NullAssumption DEF Stored, TypeOK

\* What it does to the ledger, if it pays.
LEMMA CommitAppends ==
    ASSUME TypeOK, NEW c \in Calls, CommitUnstake(c)
    PROVE  LET last == Len(ledger) + 1
               row == CreditRow(call[c].userId, stake[call[c].id].ticketsEarned, call[c].id)
           IN  IF call[c].stillOwns
               THEN /\ DOMAIN ledger' = DOMAIN ledger \cup {last} /\ last \notin DOMAIN ledger
                    /\ \A i \in DOMAIN ledger : ledger'[i] = ledger[i]
                    /\ ledger'[last] = row
               ELSE ledger' = ledger
<1> DEFINE row == CreditRow(call[c].userId, stake[call[c].id].ticketsEarned, call[c].id)
<1>1. ledger' = IF call[c].stillOwns THEN Append(ledger, row) ELSE ledger
  BY DEF CommitUnstake
<1>2. row \in LedgerRow(Users, StakeIds)
  BY UnstakeWrites, ConstantsAssumption
  DEF CreditRow, LedgerRow, Reasons, UnstakeCall, StakeRow, ConstantsAssumption
<1> HIDE DEF row
<1>3. ledger \in Seq(LedgerRow(Users, StakeIds))
  BY DEF TypeOK
<1>4. CASE call[c].stillOwns
  BY <1>1, <1>2, <1>3, <1>4, AppendRow DEF row
<1> QED
  BY <1>1, <1>4

\* A released row differs from the old one in its status and its slot only.
LEMMA ReleasedRow ==
    ASSUME NEW row \in StakeRow, NEW owns \in BOOLEAN
    PROVE  LET new == Released(row, owns)
           IN  /\ new.userId = row.userId /\ new.nftId = row.nftId
               /\ new.ticketsEarned = row.ticketsEarned /\ new.endsAt = row.endsAt
               /\ new.activeNftId = Null
               /\ new.status = IF owns THEN "WITHDRAWN" ELSE "CANCELLED"
  BY DEF Released, StakeRow

\* A lock keeps its user, its tenant, its reward and its end.
LEMMA RowsKeep ==
    ASSUME TypeOK, [Next]_vars, NEW id \in Stored
    PROVE  /\ stake'[id].userId = stake[id].userId
           /\ stake'[id].nftId = stake[id].nftId
           /\ stake'[id].ticketsEarned = stake[id].ticketsEarned
           /\ stake'[id].endsAt = stake[id].endsAt
           /\ now' >= now
<1>1. now' >= now /\ id \in StakeIds
  BY DEF Next, Server, InsertStake, CommitUnstake, Stake, StakeOwnership, Unstake, ExitOwnership,
         OwnershipUnavailable, UpdateStake, CreditReward, Crash, Transfer, Tick, vars, TypeOK, Stored
<1>2. ASSUME NEW c \in Calls, InsertStake(c) PROVE stake'[id] = stake[id]
  BY <1>1, <1>2, InsertWrites
<1>3. ASSUME NEW c \in Calls, CommitUnstake(c)
      PROVE  /\ stake'[id].userId = stake[id].userId /\ stake'[id].nftId = stake[id].nftId
             /\ stake'[id].ticketsEarned = stake[id].ticketsEarned
             /\ stake'[id].endsAt = stake[id].endsAt
  <2>1. CASE id = call[c].id
    BY <2>1, <1>3, UnstakeWrites, ReleasedRow DEF UnstakeCall
  <2>2. CASE id # call[c].id
    BY <1>1, <2>2, <1>3, UnstakeWrites
  <2> QED
    BY <2>1, <2>2
<1> QED
  BY <1>1, <1>2, <1>3, Writers

\* The unique index, and the rule that activeNftId mirrors nftId while a lock
\* is ACTIVE, keep each other true.
LEMMA SlotStep ==
    ASSUME TypeOK, SlotMirrorsStatus, OneActiveLock, [Next]_vars
    PROVE  SlotMirrorsStatus' /\ OneActiveLock'
<1> USE DEF SlotMirrorsStatus, OneActiveLock, HasStatus
<1>0. \A id \in Stored : id \in StakeIds /\ stake[id] \in StakeRow
  BY DEF Stored, TypeOK
<1>1. ASSUME NEW c \in Calls, InsertStake(c), stake' # stake
      PROVE  SlotMirrorsStatus' /\ OneActiveLock'
  <2>1. PICK id \in StakeIds \ Stored :
            /\ Stored' = Stored \cup {id} /\ stake'[id] = NewStake(c)
            /\ \A j \in StakeIds \ {id} : stake'[j] = stake[j]
    BY <1>1, InsertWrites
  <2>2. /\ NewStake(c).status = "ACTIVE" /\ NewStake(c).nftId = call[c].nftId
        /\ NewStake(c).activeNftId = call[c].nftId
    BY DEF NewStake
  <2>3. \A j \in Stored : stake[j].status = "ACTIVE" => stake[j].nftId # call[c].nftId
    BY <1>1, InsertWrites DEF SlotFree
  <2> QED
    BY <1>0, <2>1, <2>2, <2>3
<1>2. ASSUME NEW c \in Calls, CommitUnstake(c) PROVE SlotMirrorsStatus' /\ OneActiveLock'
  <2>1. /\ Stored' = Stored /\ call[c].id \in Stored
        /\ stake'[call[c].id].activeNftId = Null /\ stake'[call[c].id].status # "ACTIVE"
        /\ \A j \in StakeIds \ {call[c].id} : stake'[j] = stake[j]
    BY <1>2, UnstakeWrites, ReleasedRow DEF UnstakeCall
  <2> QED
    BY <1>0, <2>1
<1>3. CASE stake' = stake
  BY <1>3 DEF Stored
<1> QED
  BY <1>1, <1>2, <1>3, Writers

\* A tenant is in at most one lock at a time.
THEOREM OneLock == Spec => []OneActiveLock
<1>1. Init => SlotMirrorsStatus /\ OneActiveLock
  BY DEF Init, SlotMirrorsStatus, OneActiveLock, HasStatus, Stored
<1>2. TypeOK /\ SlotMirrorsStatus /\ OneActiveLock /\ [Next]_vars
          => SlotMirrorsStatus' /\ OneActiveLock'
  BY SlotStep
<1> QED
  BY <1>1, <1>2, TypeCorrect, PTL DEF Spec
-----------------------------------------------------------------------------
\* The transaction of c holds a row lock.
InTransaction == {"credit", "commit"}

\* How a call can come to be at a step of unstake.
LEMMA ExitingCalls ==
    ASSUME TypeOK, [Next]_vars, NEW x \in Calls, pc'[x] \in Exiting
    PROVE  \/ \E u \in Users, id \in StakeIds : Unstake(x, u, id)
           \/ /\ pc[x] \in Exiting
              /\ call'[x].id = call[x].id /\ call'[x].userId = call[x].userId
<1> USE DEF Exiting, TypeOK
<1>1. ASSUME NEW c \in Calls, NEW u \in Users, NEW n \in Nfts, NEW tier \in Tiers,
             Stake(c, u, n, tier)
      PROVE  pc[x] \in Exiting /\ call'[x] = call[x]
  BY <1>1 DEF Stake, Goto
<1>2. ASSUME NEW c \in Calls, StakeOwnership(c) PROVE pc[x] \in Exiting /\ call'[x] = call[x]
  BY <1>2 DEF StakeOwnership, Goto, Answer, End
<1>3. ASSUME NEW c \in Calls, NEW u \in Users, NEW id \in StakeIds, Unstake(c, u, id), c # x
      PROVE  pc[x] \in Exiting /\ call'[x] = call[x]
  BY <1>3 DEF Unstake, Goto
<1>4. ASSUME NEW c \in Calls, ExitOwnership(c)
      PROVE  pc[x] \in Exiting /\ call'[x].id = call[x].id /\ call'[x].userId = call[x].userId
  <2>1. call[c] \in UnstakeCall
    BY <1>4 DEF ExitOwnership
  <2> QED
    BY <1>4, <2>1 DEF ExitOwnership, Goto, UnstakeCall
<1>5. ASSUME NEW c \in Calls, UpdateStake(c) PROVE pc[x] \in Exiting /\ call'[x] = call[x]
  BY <1>5 DEF UpdateStake, Goto
<1>6. ASSUME NEW c \in Calls, CreditReward(c) PROVE pc[x] \in Exiting /\ call'[x] = call[x]
  BY <1>6 DEF CreditReward, Goto, Answer, End
<1>7. ASSUME NEW c \in Calls, Answer(c) \/ Fail(c) PROVE pc[x] \in Exiting /\ call'[x] = call[x]
  BY <1>7 DEF Answer, Fail, End
<1>8. CASE UNCHANGED <<pc, call>>
  BY <1>8
<1> QED
  <2> HIDE DEF Exiting, TypeOK
  <2> QED
    BY <1>1, <1>2, <1>3, <1>4, <1>5, <1>6, <1>7, <1>8
    DEF Next, Server, InsertStake, OwnershipUnavailable, CommitUnstake, Crash, Transfer, Tick, vars

\* And how at a step of its transaction.
LEMMA TransactionCalls ==
    ASSUME TypeOK, [Next]_vars, NEW x \in Calls, pc'[x] \in InTransaction
    PROVE  \/ UpdateStake(x)
           \/ /\ pc[x] \in InTransaction /\ call'[x] = call[x]
              /\ pc[x] = pc'[x] \/ CreditReward(x)
<1> USE DEF InTransaction, TypeOK
<1>1. ASSUME NEW c \in Calls, NEW u \in Users, NEW n \in Nfts, NEW tier \in Tiers,
             Stake(c, u, n, tier)
      PROVE  pc[x] = pc'[x] /\ call'[x] = call[x]
  BY <1>1 DEF Stake, Goto
<1>2. ASSUME NEW c \in Calls, StakeOwnership(c) PROVE pc[x] = pc'[x] /\ call'[x] = call[x]
  BY <1>2 DEF StakeOwnership, Goto, Answer, End
<1>3. ASSUME NEW c \in Calls, NEW u \in Users, NEW id \in StakeIds, Unstake(c, u, id)
      PROVE  pc[x] = pc'[x] /\ call'[x] = call[x]
  BY <1>3 DEF Unstake, Goto
<1>4. ASSUME NEW c \in Calls, ExitOwnership(c) PROVE pc[x] = pc'[x] /\ call'[x] = call[x]
  BY <1>4 DEF ExitOwnership, Goto
<1>5. ASSUME NEW c \in Calls, UpdateStake(c), c # x PROVE pc[x] = pc'[x] /\ call'[x] = call[x]
  BY <1>5 DEF UpdateStake, Goto
<1>6. ASSUME NEW c \in Calls, CreditReward(c)
      PROVE  pc[x] \in InTransaction /\ call'[x] = call[x] /\ (pc[x] = pc'[x] \/ CreditReward(x))
  BY <1>6 DEF CreditReward, Goto, Answer, End
<1>7. ASSUME NEW c \in Calls, Answer(c) \/ Fail(c) PROVE pc[x] = pc'[x] /\ call'[x] = call[x]
  BY <1>7 DEF Answer, Fail, End
<1>8. CASE UNCHANGED <<pc, call>>
  BY <1>8
<1> QED
  <2> HIDE DEF TypeOK
  <2> QED
    BY <1>1, <1>2, <1>3, <1>4, <1>5, <1>6, <1>7, <1>8
    DEF Next, Server, InsertStake, OwnershipUnavailable, CommitUnstake, Crash, Transfer, Tick, vars

LEMMA CallsStep ==
    ASSUME TypeOK, TypeOK', CallsAreSound, [Next]_vars
    PROVE  CallsAreSound'
<1> SUFFICES ASSUME NEW x \in Calls, pc'[x] \in Exiting
             PROVE  /\ stake'[call'[x].id].userId = call'[x].userId
                    /\ stake'[call'[x].id].endsAt <= now'
                    /\ pc'[x] \in InTransaction => LockedBy(call[x].id)' = {x}
                    /\ pc'[x] = "commit" /\ call'[x].stillOwns =>
                           CanCredit(Rows', stake'[call'[x].id].ticketsEarned, call'[x].id)
  BY DEF CallsAreSound, InTransaction
<1>0. InTransaction \subseteq Exiting
  BY DEF InTransaction, Exiting
<1>1. call'[x].id \in Stored /\ now \in Int /\ now' \in Int
      /\ stake[call'[x].id].endsAt \in Nat
  <2>1. call'[x].id \in Stored
    <3>1. ASSUME NEW u \in Users, NEW id \in StakeIds, Unstake(x, u, id)
          PROVE  call'[x].id \in Stored
      BY <3>1 DEF Unstake, HasStatus, TypeOK
    <3>2. CASE pc[x] \in Exiting /\ call'[x].id = call[x].id
      BY <3>2 DEF TypeOK
    <3> QED
      BY <3>1, <3>2, ExitingCalls
  <2>2. stake[call'[x].id] \in StakeRow
    BY <2>1 DEF Stored, TypeOK
  <2> QED
    BY <2>1, <2>2, ConstantsAssumption DEF StakeRow, TypeOK, ConstantsAssumption
<1>2. /\ stake'[call'[x].id].userId = call'[x].userId
      /\ stake'[call'[x].id].endsAt <= now'
  <2>1. /\ stake[call'[x].id].userId = call'[x].userId
        /\ stake[call'[x].id].endsAt <= now
    <3>1. ASSUME NEW u \in Users, NEW id \in StakeIds, Unstake(x, u, id)
          PROVE  /\ stake[call'[x].id].userId = call'[x].userId
                 /\ stake[call'[x].id].endsAt <= now
      BY <3>1 DEF Unstake, TypeOK
    <3>2. CASE /\ pc[x] \in Exiting
               /\ call'[x].id = call[x].id /\ call'[x].userId = call[x].userId
      BY <3>2 DEF CallsAreSound
    <3> QED
      BY <3>1, <3>2, ExitingCalls
  <2> QED
    BY <1>1, <2>1, RowsKeep
<1>3. ASSUME pc'[x] \in InTransaction PROVE LockedBy(call[x].id)' = {x}
  <2> SUFFICES ASSUME NEW y \in Calls, y # x, pc'[y] \in InTransaction,
                      call'[y].id = call'[x].id
               PROVE  FALSE
    BY <1>3 DEF LockedBy, InTransaction
  <2>1. ASSUME NEW p \in Calls, NEW q \in Calls, p # q, UpdateStake(p),
               pc'[q] \in InTransaction, call'[p].id = call'[q].id
        PROVE  FALSE
    <3>1. /\ pc'[q] = pc[q] /\ call' = call /\ LockedBy(call[p].id) = {}
      BY <2>1 DEF UpdateStake, Goto, TypeOK
    <3> QED
      BY <2>1, <3>1 DEF LockedBy, InTransaction
  <2>2. CASE UpdateStake(x)
    BY <2>1, <2>2
  <2>3. CASE UpdateStake(y)
    BY <1>3, <2>1, <2>3
  <2>4. CASE ~UpdateStake(x) /\ ~UpdateStake(y)
    <3>1. /\ pc[x] \in InTransaction /\ call'[x] = call[x]
          /\ pc[y] \in InTransaction /\ call'[y] = call[y]
      BY <1>3, <2>4, TransactionCalls
    <3>2. LockedBy(call[x].id) = {x} /\ y \in LockedBy(call[x].id)
      BY <1>0, <3>1 DEF CallsAreSound, LockedBy, InTransaction
    <3> QED
      BY <3>2
  <2> QED
    BY <2>2, <2>3, <2>4
<1>4. ASSUME pc'[x] = "commit", call'[x].stillOwns
      PROVE  CanCredit(Rows', stake'[call'[x].id].ticketsEarned, call'[x].id)
  <2> DEFINE id == call'[x].id
  <2>0. stake'[id].ticketsEarned = stake[id].ticketsEarned
    BY <1>1, RowsKeep
  <2>1. ~UpdateStake(x)
    BY <1>4 DEF UpdateStake, Goto, TypeOK
  <2>2. pc[x] \in InTransaction /\ call'[x] = call[x] /\ (pc[x] = "commit" \/ CreditReward(x))
    BY <1>4, <2>1, TransactionCalls DEF InTransaction
  <2>3. CASE CreditReward(x)
    BY <1>4, <2>0, <2>2, <2>3 DEF CreditReward, Answer, End, TypeOK, Rows
  <2>4. CASE pc[x] = "commit" /\ ~CreditReward(x)
    <3>1. CanCredit(Rows, stake[id].ticketsEarned, id) /\ LockedBy(id) = {x}
      BY <1>4, <2>2, <2>4 DEF CallsAreSound, Exiting
    <3>2. \A row \in Rows' \ Rows : row.source # id
      <4>1. ASSUME NEW c \in Calls, CommitUnstake(c), NEW row \in Rows' \ Rows
            PROVE  row.source # id
        <5>0. PICK i \in DOMAIN ledger' : row = ledger'[i]
          BY <4>1 DEF Rows
        <5>1. row.source = call[c].id
          <6>1. ~(i \in DOMAIN ledger /\ ledger'[i] = ledger[i])
            BY <4>1, <5>0 DEF Rows
          <6>2. row = CreditRow(call[c].userId, stake[call[c].id].ticketsEarned, call[c].id)
            BY <4>1, <5>0, <6>1, CommitAppends
          <6> QED
            BY <6>2 DEF CreditRow
        <5>2. c # x
          BY <1>4, <4>1 DEF CommitUnstake, Answer, End, TypeOK
        <5>3. c \in LockedBy(call[c].id)
          BY <4>1 DEF LockedBy, CommitUnstake
        <5> QED
          BY <3>1, <5>1, <5>2, <5>3
      <4>2. (\A c \in Calls : ~CommitUnstake(c)) => Rows' = Rows
        BY Writers DEF InsertStake, Rows
      <4> QED
        BY <4>1, <4>2
    <3> QED
      BY <2>0, <3>1, <3>2 DEF CanCredit
  <2> QED
    BY <2>2, <2>3, <2>4
<1> QED
  BY <1>2, <1>3, <1>4

\* Unstakes that are under way are sound, and hold their rows alone.
THEOREM SoundCalls == Spec => []CallsAreSound
<1>1. Init => CallsAreSound
  BY DEF Init, CallsAreSound, Exiting
<1>2. TypeOK /\ TypeOK' /\ CallsAreSound /\ [Next]_vars => CallsAreSound'
  BY CallsStep
<1> QED
  BY <1>1, <1>2, TypeCorrect, PTL DEF Spec

LEMMA RewardsStep ==
    ASSUME TypeOK, TypeOK', CallsAreSound, RewardsAreEarned, WithdrawnIsPaid, [Next]_vars
    PROVE  RewardsAreEarned' /\ WithdrawnIsPaid'
<1>0. \A i \in Stored : i \in StakeIds /\ stake[i] \in StakeRow
  BY DEF Stored, TypeOK
<1>1. ASSUME NEW c \in Calls, InsertStake(c), stake' # stake
      PROVE  RewardsAreEarned' /\ WithdrawnIsPaid'
  <2>1. PICK id \in StakeIds \ Stored :
            /\ Stored' = Stored \cup {id} /\ stake'[id] = NewStake(c)
            /\ \A j \in StakeIds \ {id} : stake'[j] = stake[j]
    BY <1>1, InsertWrites
  <2>2. ledger' = ledger /\ now' = now /\ NewStake(c).status = "ACTIVE"
    BY <1>1 DEF InsertStake, NewStake
  <2>3. \A j \in Stored : stake'[j] = stake[j]
    BY <1>0, <2>1
  <2> QED
    BY <2>1, <2>2, <2>3 DEF RewardsAreEarned, WithdrawnIsPaid, Credits, HasStatus
<1>2. ASSUME NEW c \in Calls, CommitUnstake(c) PROVE RewardsAreEarned' /\ WithdrawnIsPaid'
  <2> DEFINE id == call[c].id
             row == CreditRow(call[c].userId, stake[id].ticketsEarned, id)
  <2>1. /\ call[c] \in UnstakeCall /\ id \in Stored /\ Stored' = Stored
        /\ stake'[id].status = IF call[c].stillOwns THEN "WITHDRAWN" ELSE "CANCELLED"
        /\ \A j \in StakeIds \ {id} : stake'[j] = stake[j]
    BY <1>2, UnstakeWrites, ReleasedRow DEF UnstakeCall
  <2>2. /\ stake[id].userId = call[c].userId /\ stake[id].endsAt <= now
        /\ call[c].stillOwns => CanCredit(Rows, stake[id].ticketsEarned, id)
    BY <1>2 DEF CommitUnstake, CallsAreSound, Exiting
  <2>3. /\ ledger' = IF call[c].stillOwns THEN Append(ledger, row) ELSE ledger
        /\ now' = now
    BY <1>2 DEF CommitUnstake
  <2>4. /\ row.userId = call[c].userId /\ row.delta = stake[id].ticketsEarned
        /\ row.source = id /\ row.reason = "STAKE_REWARD"
    BY DEF CreditRow
  <2>5. \A j \in Stored : /\ stake'[j].userId = stake[j].userId
                          /\ stake'[j].ticketsEarned = stake[j].ticketsEarned
                          /\ stake'[j].endsAt = stake[j].endsAt
    BY RowsKeep
  <2>6. \A j \in Stored : stake[j].status # "ACTIVE" => stake'[j].status # "ACTIVE"
    BY <1>0, <2>1
  <2> HIDE DEF row, id
  <2>7. CASE ~call[c].stillOwns
    <3>1. ledger' = ledger /\ stake'[id].status = "CANCELLED"
      BY <2>1, <2>3, <2>7
    <3>2. RewardsAreEarned'
      BY <2>1, <2>3, <2>5, <2>6, <3>1 DEF RewardsAreEarned, Credits
    <3>3. WithdrawnIsPaid'
      BY <1>0, <2>1, <3>1 DEF WithdrawnIsPaid, Credits, HasStatus
    <3> QED
      BY <3>2, <3>3
  <2>8. CASE call[c].stillOwns
    <3> DEFINE last == Len(ledger) + 1
    <3>1. /\ DOMAIN ledger' = DOMAIN ledger \cup {last} /\ last \notin DOMAIN ledger
          /\ \A i \in DOMAIN ledger : ledger'[i] = ledger[i]
          /\ ledger'[last] = row
          /\ stake'[id].status = "WITHDRAWN"
      BY <1>2, <2>1, <2>8, CommitAppends DEF row, id
    <3> HIDE DEF last
    <3>2. \A i \in DOMAIN ledger : ledger[i].source # id
      BY <2>2, <2>8 DEF CanCredit, RewardsAreEarned, Rows
    <3>3. \A i \in DOMAIN ledger :
              {j \in DOMAIN ledger' : ledger'[j].source = ledger[i].source} = Credits(ledger[i].source)
      BY <2>4, <3>1, <3>2 DEF Credits
    <3>4. {j \in DOMAIN ledger' : ledger'[j].source = id} = {last}
      BY <2>4, <3>1, <3>2
    <3>5. RewardsAreEarned'
      <4> SUFFICES ASSUME NEW i \in DOMAIN ledger'
                   PROVE  LET r == ledger'[i]
                              lock == stake'[r.source]
                          IN  /\ r.reason = "STAKE_REWARD" /\ r.source \in Stored'
                              /\ r.userId = lock.userId /\ r.delta = lock.ticketsEarned
                              /\ lock.endsAt <= now' /\ lock.status # "ACTIVE"
                              /\ {j \in DOMAIN ledger' : ledger'[j].source = r.source} = {i}
        BY DEF RewardsAreEarned, Credits
      <4>1. CASE i = last
        <5>1. ledger'[i] = row /\ row.source = id /\ id \in Stored'
          BY <4>1, <2>1, <2>4, <3>1
        <5>2. row.userId = stake'[id].userId /\ row.delta = stake'[id].ticketsEarned
          BY <2>1, <2>2, <2>4, <2>5
        <5>3. stake'[id].endsAt <= now' /\ stake'[id].status # "ACTIVE"
          BY <2>1, <2>2, <2>3, <2>5, <3>1
        <5>4. {j \in DOMAIN ledger' : ledger'[j].source = id} = {i}
          BY <3>4, <4>1
        <5> QED
          BY <2>4, <5>1, <5>2, <5>3, <5>4
      <4>2. CASE i \in DOMAIN ledger
        <5> DEFINE r == ledger[i]
        <5>1. /\ r.reason = "STAKE_REWARD" /\ r.source \in Stored
              /\ r.userId = stake[r.source].userId /\ r.delta = stake[r.source].ticketsEarned
              /\ stake[r.source].endsAt <= now /\ stake[r.source].status # "ACTIVE"
              /\ Credits(r.source) = {i}
          BY <4>2 DEF RewardsAreEarned
        <5>2. ledger'[i] = r
          BY <4>2, <3>1
        <5>3. {j \in DOMAIN ledger' : ledger'[j].source = r.source} = {i}
          BY <4>2, <3>3, <5>1
        <5> HIDE DEF r
        <5> QED
          BY <2>1, <2>3, <2>5, <2>6, <5>1, <5>2, <5>3
      <4> QED
        BY <3>1, <4>1, <4>2
    <3>6. WithdrawnIsPaid'
      BY <1>0, <2>1, <3>1, <3>4 DEF WithdrawnIsPaid, Credits, HasStatus
    <3> QED
      BY <3>5, <3>6
  <2> QED
    BY <2>7, <2>8
<1>3. CASE UNCHANGED <<stake, ledger>>
  <2>1. now' >= now /\ Stored' = Stored
    BY <1>3 DEF Next, Server, InsertStake, CommitUnstake, Stake, StakeOwnership, Unstake,
       ExitOwnership, OwnershipUnavailable, UpdateStake, CreditReward, Crash, Transfer, Tick, vars,
       TypeOK, Stored
  <2>2. \A i \in Stored : stake[i].endsAt <= now => stake[i].endsAt <= now'
    BY <1>0, <2>1, ConstantsAssumption DEF TypeOK, StakeRow, ConstantsAssumption
  <2> QED
    BY <1>3, <2>1, <2>2 DEF RewardsAreEarned, WithdrawnIsPaid, Credits, HasStatus
<1> QED
  BY <1>1, <1>2, <1>3, Writers DEF InsertStake

\* A lock is paid once, to the user who made it, what it was promised, after it
\* matured; and a WITHDRAWN lock has been paid.
THEOREM Rewards == Spec => [](RewardsAreEarned /\ WithdrawnIsPaid)
<1>1. Init => RewardsAreEarned /\ WithdrawnIsPaid
  BY DEF Init, RewardsAreEarned, WithdrawnIsPaid, HasStatus, Stored
<1>2. TypeOK /\ TypeOK' /\ CallsAreSound /\ RewardsAreEarned /\ WithdrawnIsPaid /\ [Next]_vars
          => RewardsAreEarned' /\ WithdrawnIsPaid'
  BY RewardsStep
<1> QED
  BY <1>1, <1>2, TypeCorrect, SoundCalls, PTL DEF Spec

\* The invariant of the vault, all parts together.
THEOREM VaultInvariant == Spec => []VaultInv
<1>1. Init => SlotMirrorsStatus
  BY DEF Init, SlotMirrorsStatus, Stored
<1>2. Spec => []SlotMirrorsStatus
  <2>1. TypeOK /\ SlotMirrorsStatus /\ OneActiveLock /\ [Next]_vars => SlotMirrorsStatus'
    BY SlotStep
  <2> QED
    BY <1>1, <2>1, TypeCorrect, OneLock, PTL DEF Spec
<1>3. SlotMirrorsStatus /\ OneActiveLock /\ CallsAreSound /\ RewardsAreEarned /\ WithdrawnIsPaid
          => VaultInv
  BY DEF VaultInv
<1> QED
  BY <1>2, <1>3, OneLock, SoundCalls, Rewards, PTL
-----------------------------------------------------------------------------
\* A call that is about to insert has taken its time from the clock before.
LEMMA TimedStep == ASSUME TypeOK, InsertsAreTimed, [Next]_vars PROVE InsertsAreTimed'
<1> SUFFICES ASSUME NEW x \in Calls, pc'[x] = "insert"
             PROVE  \E startsAt \in 0 .. now' :
                        call'[x].endsAt = startsAt + Days[call'[x].tier]
  BY DEF InsertsAreTimed
<1>0. now \in Nat /\ now' \in Nat /\ now' >= now
  BY ConstantsAssumption
  DEF Next, Server, InsertStake, CommitUnstake, Stake, StakeOwnership, Unstake, ExitOwnership,
      OwnershipUnavailable, UpdateStake, CreditReward, Crash, Transfer, Tick, vars, TypeOK,
      ConstantsAssumption
<1>1. CASE pc[x] = "insert" /\ call'[x] = call[x]
  BY <1>0, <1>1 DEF InsertsAreTimed
<1>2. CASE StakeOwnership(x)
  <2>1. Goto(x, "insert")
        /\ call' = [call EXCEPT ![x].endsAt = now + Days[call[x].tier]]
    BY <1>2 DEF StakeOwnership, Answer, End, TypeOK
  <2>2. call[x] \in StakeCall
    BY <1>2 DEF StakeOwnership, TypeOK
  <2>3. call'[x] = [call[x] EXCEPT !.endsAt = now + Days[call[x].tier]]
    BY <2>1 DEF TypeOK
  <2>4. call'[x].endsAt = now + Days[call'[x].tier]
    BY <2>2, <2>3 DEF StakeCall
  <2> QED
    BY <2>4, <1>0
<1>3. \/ pc[x] = "insert" /\ call'[x] = call[x]
      \/ StakeOwnership(x)
  <2>1. ASSUME NEW c \in Calls, NEW u \in Users, NEW n \in Nfts, NEW tier \in Tiers,
               Stake(c, u, n, tier)
        PROVE  pc[x] = "insert" /\ call'[x] = call[x]
    BY <2>1 DEF Stake, Goto, TypeOK
  <2>2. ASSUME NEW c \in Calls, NEW u \in Users, NEW id \in StakeIds, Unstake(c, u, id)
        PROVE  pc[x] = "insert" /\ call'[x] = call[x]
    BY <2>2 DEF Unstake, Goto, TypeOK
  <2>3. ASSUME NEW c \in Calls, c # x, Server(c) \/ OwnershipUnavailable(c) \/ Crash(c)
        PROVE  pc[x] = "insert" /\ call'[x] = call[x]
    BY <2>3 DEF Server, StakeOwnership, InsertStake, ExitOwnership, UpdateStake, CreditReward,
       CommitUnstake, OwnershipUnavailable, Crash, Goto, Answer, Fail, End, TypeOK
  <2>4. ASSUME Server(x) \/ OwnershipUnavailable(x) \/ Crash(x) PROVE StakeOwnership(x)
    BY <2>4 DEF Server, InsertStake, ExitOwnership, UpdateStake, CreditReward, CommitUnstake,
       OwnershipUnavailable, Crash, Goto, Answer, Fail, End, TypeOK
  <2>5. CASE Tick \/ UNCHANGED vars \/ \E n \in Nfts, w \in Users \cup Outsiders : Transfer(n, w)
    BY <2>5 DEF Tick, Transfer, vars
  <2> QED
    BY <2>1, <2>2, <2>3, <2>4, <2>5 DEF Next
<1> QED
  BY <1>1, <1>2, <1>3

\* Every step of the service is a step of the promise, or changes nothing there.
LEMMA PromiseStep ==
    ASSUME TypeOK, VaultInv, InsertsAreTimed, [Next]_vars
    PROVE  [Promise!Next]_Promise!vars
<1>1. ASSUME NEW c \in Calls, InsertStake(c), stake' # stake PROVE Promise!Next
  <2>1. call[c] \in StakeCall /\ call[c].nftId \in Nfts /\ call[c].userId \in Users
        /\ call[c].tier \in Tiers /\ pc[c] = "insert"
    BY <1>1 DEF InsertStake, TypeOK, StakeCall
  <2>2. PICK id \in StakeIds \ Stored : stake' = [stake EXCEPT ![id] = NewStake(c)]
    BY <1>1, InsertWrites
  <2>3. PICK startsAt \in 0 .. now : call[c].endsAt = startsAt + Days[call[c].tier]
    BY <2>1 DEF InsertsAreTimed
  <2>4. ~Promise!Locked(call[c].nftId)
    BY <1>1, InsertWrites, <2>1, NullAssumption
    DEF VaultInv, SlotMirrorsStatus, SlotFree, Promise!Locked, Promise!Stored, Stored
  <2>5. Promise!Lock(id, call[c].userId, call[c].nftId, call[c].tier, startsAt)
    BY <1>1, InsertWrites, <2>2, <2>3, <2>4
    DEF Promise!Lock, Promise!Stored, Stored, NewStake, InsertStake
  <2> QED
    BY <2>1, <2>2, <2>5 DEF Promise!Next
<1>2. ASSUME NEW c \in Calls, CommitUnstake(c) PROVE Promise!Next
  <2> DEFINE id == call[c].id
  <2>1. /\ call[c] \in UnstakeCall /\ id \in Stored /\ id \in StakeIds
        /\ stake[id] \in StakeRow /\ pc[c] = "commit"
    BY <1>2, UnstakeWrites DEF CommitUnstake, UnstakeCall
  <2>2. stake[id].userId = call[c].userId /\ Promise!Matured(id)
    BY <2>1 DEF VaultInv, CallsAreSound, Exiting, Promise!Matured, Promise!Stored, Stored
  <2>3. stake' = [stake EXCEPT ![id] = Released(stake[id], call[c].stillOwns)]
    BY <1>2 DEF CommitUnstake
  <2>4. now' = now
    BY <1>2 DEF CommitUnstake
  <2>5. CASE call[c].stillOwns
    <3>1. Promise!Released(id, "WITHDRAWN")
      BY <2>1, <2>3, <2>5 DEF Released, Promise!Released, TypeOK
    <3>2. ledger' = Append(ledger, CreditRow(stake[id].userId, stake[id].ticketsEarned, id))
      BY <1>2, <2>2, <2>5 DEF CommitUnstake
    <3>3. CanCredit(Rows, stake[id].ticketsEarned, id)
      BY <2>1, <2>5 DEF VaultInv, CallsAreSound, Exiting
    <3>4. ~Promise!Paid(id)
      BY <3>3 DEF VaultInv, RewardsAreEarned, CanCredit, Rows, Promise!Paid
    <3> QED
      BY <2>1, <2>2, <2>4, <3>1, <3>2, <3>4
      DEF Promise!Withdraw, Promise!Next, Promise!CreditRow, CreditRow
  <2>6. CASE ~call[c].stillOwns
    <3>1. Promise!Released(id, "CANCELLED")
      BY <2>1, <2>3, <2>6 DEF Released, Promise!Released, TypeOK
    <3>2. ledger' = ledger
      BY <1>2, <2>6 DEF CommitUnstake
    <3> QED
      BY <2>1, <2>2, <2>4, <3>1, <3>2 DEF Promise!Cancel, Promise!Next
  <2> QED
    BY <2>5, <2>6
<1>3. ASSUME Tick PROVE Promise!Next
  BY <1>3 DEF Tick, Promise!Tick, Promise!Next
<1>4. CASE UNCHANGED <<stake, ledger, now>>
  BY <1>4 DEF Promise!vars
<1>5. \/ UNCHANGED <<stake, ledger, now>> \/ Tick
      \/ \E c \in Calls : CommitUnstake(c) \/ (InsertStake(c) /\ stake' # stake)
  BY DEF Next, Server, Stake, StakeOwnership, Unstake, ExitOwnership, OwnershipUnavailable,
         UpdateStake, CreditReward, Crash, Transfer, InsertStake, vars
<1> QED
  BY <1>1, <1>2, <1>3, <1>4, <1>5

\* The service implements the promise: a lock is made, withdrawn with its one
\* payment, or cancelled without, each in one step, for any number of calls.
THEOREM Implements == Spec => ImplementsVault
<1>1. Init => InsertsAreTimed /\ Promise!Init
  BY DEF Init, InsertsAreTimed, Promise!Init
<1>2. TypeOK /\ InsertsAreTimed /\ [Next]_vars => InsertsAreTimed'
  BY TimedStep
<1>3. TypeOK /\ VaultInv /\ InsertsAreTimed /\ [Next]_vars => [Promise!Next]_Promise!vars
  BY PromiseStep
<1> QED
  BY <1>1, <1>2, <1>3, TypeCorrect, VaultInvariant, PTL DEF Spec, ImplementsVault, Promise!Spec

\* A WITHDRAWN lock has been paid, also after crashes and refused credits.
THEOREM WithdrawnPaid == Spec => []WithdrawnIsPaid
  BY Rewards, PTL
=============================================================================
