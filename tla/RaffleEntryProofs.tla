------------------------- MODULE RaffleEntryProofs -------------------------
(***************************************************************************)
(* The safety properties of entering a raffle, for every number of users,  *)
(* raffles, requests and stakes, every price and every limit.              *)
(*                                                                         *)
(* The invariant is proved in layers, each using the ones before it:       *)
(* types, then the exclusion of the two FOR UPDATE locks, then the numbers *)
(* taken from the sequence, then the money and the counts.                 *)
(***************************************************************************)
EXTENDS RaffleEntry, TicketsProofs

\* Every variable keeps its type: in particular the ledger stays a finite set
\* of rows with integer deltas, for which a balance is defined.
LEMMA TypeInit == ASSUME ConstantsAssumption, Init PROVE TypeOK
  BY FS_EmptySet DEF ConstantsAssumption, Init, TypeOK, Statements, InTx, Locked, Numbered,
     Charging, Spending

LEMMA TypeStep ==
    ASSUME ConstantsAssumption, TypeOK, [Next]_vars
    PROVE  TypeOK'
<1> USE DEF ConstantsAssumption
<1>0. Statements = {"idle", "holder", "begin", "limit", "eligible", "insert", "parents",
                    "lockUser", "spend", "commit"}
  BY DEF Statements, InTx, Locked, Numbered, Charging, Spending
<1>1. ASSUME NEW t \in Requests, NEW from, NEW to \in Statements, Step(t, from, to)
      PROVE  TypeOK'
  BY <1>1 DEF TypeOK, Step, Goto
<1>2. ASSUME NEW t \in Requests, Answer(t)
      PROVE  TypeOK'
  <2>1. pc' \in [Requests -> Statements] /\ num' \in [Requests -> 0 .. MaxNumber]
    BY <1>0, <1>2 DEF TypeOK, Answer, Goto
  <2> QED
    BY <1>2, <2>1 DEF TypeOK, Answer
<1>3. ASSUME NEW t \in Requests, Enter(t) PROVE TypeOK'
  BY <1>0, <1>1, <1>3 DEF Enter
<1>4. ASSUME NEW t \in Requests, HolderConfirmed(t) \/ HolderRefused(t) PROVE TypeOK'
  BY <1>0, <1>1, <1>2, <1>4 DEF HolderConfirmed, HolderRefused
<1>5. ASSUME NEW t \in Requests, CheckLimit(t) PROVE TypeOK'
  BY <1>0, <1>1, <1>2, <1>5 DEF CheckLimit
<1>6. ASSUME NEW t \in Requests, CheckBalance(t) PROVE TypeOK'
  BY <1>0, <1>1, <1>2, <1>6 DEF CheckBalance
<1>7. ASSUME NEW t \in Requests, InsertEntry(t) PROVE TypeOK'
  <2>1. CASE Answer(t)
    BY <1>2, <2>1
  <2>2. CASE ~Answer(t)
    <3>1. /\ nextNumber <= MaxNumber /\ nextNumber \in 1 .. MaxNumber + 1
          /\ num' = [num EXCEPT ![t] = nextNumber] /\ nextNumber' = nextNumber + 1
          /\ pc' = [pc EXCEPT ![t] = "parents"]
          /\ UNCHANGED <<ledger, entries, entryCount, accepting>>
      BY <1>7, <2>2 DEF InsertEntry, TypeOK, Goto
    <3>2. nextNumber' \in 1 .. MaxNumber + 1 /\ nextNumber \in 0 .. MaxNumber
      BY <3>1
    <3>3. pc' \in [Requests -> Statements] /\ num' \in [Requests -> 0 .. MaxNumber]
      BY <1>0, <3>1, <3>2 DEF TypeOK
    <3> QED
      BY <3>1, <3>2, <3>3 DEF TypeOK
  <2> QED
    BY <2>1, <2>2
<1>8. ASSUME NEW t \in Requests, Debit(t) PROVE TypeOK'
  BY <1>0, <1>1, <1>2, <1>8 DEF Debit
<1>9. ASSUME NEW t \in Requests, Commit(t) PROVE TypeOK'
  <2> DEFINE e == [entryNumber |-> num[t], raffleId |-> RaffleOf[t], userId |-> UserOf[t]]
  <2> DEFINE row == DebitRow(UserOf[t], EntryCost[RaffleOf[t]], num[t])
  <2>1. e \in Entry /\ row \in LedgerRow(Users, Stakes \cup Nat)
    BY DEF TypeOK, Entry, DebitRow, LedgerRow, Reasons
  <2>2. ledger' = ledger \cup {row} /\ entries' = entries \cup {e}
    BY <1>9 DEF Commit
  <2>3. IsFiniteSet(ledger') /\ IsFiniteSet(entries')
    BY <2>2, FS_AddElement DEF TypeOK
  <2>4. entryCount' \in [Raffles -> Nat] /\ pc' \in [Requests -> Statements]
        /\ num' \in [Requests -> 0 .. MaxNumber] /\ nextNumber' = nextNumber
        /\ accepting' = accepting
    BY <1>0, <1>9 DEF Commit, TypeOK, Goto
  <2> HIDE DEF e, row
  <2> QED
    BY <2>1, <2>2, <2>3, <2>4 DEF TypeOK
<1>10. ASSUME NEW t \in Requests, Acquire(t) PROVE TypeOK'
  BY <1>0, <1>1, <1>10 DEF Acquire, LockRaffle, LockParents, LockUser
<1>11. ASSUME NEW t \in Requests, Rollback(t) \/ DeadlockAbort(t) PROVE TypeOK'
  BY <1>2, <1>11 DEF Rollback, DeadlockAbort
<1>12. ASSUME NEW s \in Stakes, Credit(s) PROVE TypeOK'
  <2> DEFINE row == CreditRow(StakeOwner[s], StakeTickets[s], s)
  <2>1. row \in LedgerRow(Users, Stakes \cup Nat)
    BY DEF CreditRow, LedgerRow, Reasons
  <2>2. ledger' = ledger \cup {row}
    BY <1>12 DEF Credit
  <2>3. IsFiniteSet(ledger')
    BY <2>2, FS_AddElement DEF TypeOK
  <2> HIDE DEF row
  <2> QED
    BY <1>12, <2>1, <2>2, <2>3 DEF TypeOK, Credit
<1>13. ASSUME NEW r \in Raffles, Close(r) PROVE TypeOK'
  BY <1>13 DEF TypeOK, Close
<1>14. CASE UNCHANGED vars
  BY <1>14 DEF TypeOK, vars
<1> QED
  BY <1>3, <1>4, <1>5, <1>6, <1>7, <1>8, <1>9, <1>10, <1>11, <1>12, <1>13, <1>14
  DEF Next, Local

\* In every behaviour the types hold in every state.
THEOREM TypeCorrect == Spec => []TypeOK
<1>1. Init => TypeOK
  BY ConstantsAssumption, TypeInit
<1>2. TypeOK /\ [Next]_vars => TypeOK'
  BY ConstantsAssumption, TypeStep
<1> QED
  BY <1>1, <1>2, PTL DEF Spec
-----------------------------------------------------------------------------
(***************************************************************************)
(* Locks.                                                                  *)
(***************************************************************************)
\* A request moves to a statement only with the locks that statement needs.
Grants(t, to) ==
    /\ to \in Locked   => pc[t] \in Locked \/ RaffleLockedBy(t) = {}
    /\ to \in Charging => pc[t] \in Charging \/ UserLockedBy(t) = {}
    /\ to \in Spending => UserSharedBy(t) = {}

MovesTo(t, to) == pc' = [pc EXCEPT ![t] = to] /\ Grants(t, to)

\* Every action moves at most one request, and never without its locks.
LEMMA MovesAreGranted ==
    ASSUME TypeOK, LocksExclusive, [Next]_vars
    PROVE  pc' = pc \/ \E t \in Requests, to \in Statements : MovesTo(t, to)
<1> USE DEF Statements, InTx, Locked, Numbered, Charging, Spending, Grants, MovesTo, Goto
<1>1. ASSUME NEW t \in Requests, Answer(t) PROVE MovesTo(t, "idle")
  BY <1>1 DEF Answer
<1>2. ASSUME NEW t \in Requests, Enter(t) PROVE MovesTo(t, "holder") \/ MovesTo(t, "begin")
  BY <1>2 DEF Enter, Step
<1>3. ASSUME NEW t \in Requests, HolderConfirmed(t) PROVE MovesTo(t, "begin")
  BY <1>3 DEF HolderConfirmed, Step
<1>4. ASSUME NEW t \in Requests, LockRaffle(t) PROVE MovesTo(t, "limit")
  BY <1>4 DEF LockRaffle, Step
<1>5. ASSUME NEW t \in Requests, CheckLimit(t), ~Answer(t) PROVE MovesTo(t, "eligible")
  BY <1>5 DEF CheckLimit, Step
<1>6. ASSUME NEW t \in Requests, CheckBalance(t), ~Answer(t) PROVE MovesTo(t, "insert")
  BY <1>6 DEF CheckBalance, Step
<1>7. ASSUME NEW t \in Requests, InsertEntry(t), ~Answer(t) PROVE MovesTo(t, "parents")
  BY <1>7 DEF InsertEntry
<1>8. ASSUME NEW t \in Requests, LockParents(t) PROVE MovesTo(t, "lockUser")
  BY <1>8 DEF LockParents, Step
<1>9. ASSUME NEW t \in Requests, LockUser(t) PROVE MovesTo(t, "spend")
  BY <1>9 DEF LockUser, Step
<1>10. ASSUME NEW t \in Requests, Debit(t), ~Answer(t) PROVE MovesTo(t, "commit")
  BY <1>10 DEF Debit, Step, LocksExclusive
<1>11. ASSUME NEW t \in Requests, Commit(t) PROVE MovesTo(t, "idle")
  BY <1>11 DEF Commit
<1>12. ASSUME NEW t \in Requests, HolderRefused(t) \/ Rollback(t) \/ DeadlockAbort(t)
       PROVE MovesTo(t, "idle")
  BY <1>1, <1>12 DEF HolderRefused, Rollback, DeadlockAbort
<1>13. ASSUME NEW s \in Stakes, Credit(s) PROVE pc' = pc
  BY <1>13 DEF Credit
<1>14. ASSUME NEW r \in Raffles, Close(r) PROVE pc' = pc
  BY <1>14 DEF Close
<1>15. CASE UNCHANGED vars
  BY <1>15 DEF vars
<1>16. {"idle", "holder", "begin", "limit", "eligible", "insert", "parents", "lockUser",
        "spend", "commit"} \subseteq Statements
  OBVIOUS
<1> QED
  <2> USE DEF Next, Local, Acquire
  <2> HIDE DEF Statements, InTx, Locked, Numbered, Charging, Spending, Grants, MovesTo, Goto
  <2> QED
    BY <1>1, <1>2, <1>3, <1>4, <1>5, <1>6, <1>7, <1>8, <1>9, <1>10, <1>11, <1>12, <1>13,
       <1>14, <1>15, <1>16

LEMMA LocksStep ==
    ASSUME TypeOK, LocksExclusive, [Next]_vars
    PROVE  LocksExclusive'
<1>1. CASE pc' = pc
  BY <1>1 DEF LocksExclusive, RaffleLockedBy, UserSharedBy
<1>2. ASSUME NEW t \in Requests, NEW to \in Statements, MovesTo(t, to)
      PROVE  LocksExclusive'
  <2> USE DEF RaffleLockedBy, UserSharedBy, UserLockedBy
  <2>1. pc'[t] = to /\ \A x \in Requests \ {t} : pc'[x] = pc[x]
    BY <1>2 DEF MovesTo, TypeOK
  <2>2. Spending \subseteq Charging
    BY DEF Charging
  <2>3. ASSUME NEW x \in Requests, NEW y \in Requests \ {x}, RaffleOf[x] = RaffleOf[y],
               pc'[x] \in Locked, pc'[y] \in Locked
        PROVE  FALSE
    BY <1>2, <2>1, <2>3 DEF MovesTo, Grants, LocksExclusive
  <2>4. ASSUME NEW x \in Requests, NEW y \in Requests \ {x}, UserOf[x] = UserOf[y],
               pc'[x] \in Spending, pc'[y] \in Charging
        PROVE  FALSE
    BY <1>2, <2>1, <2>2, <2>4 DEF MovesTo, Grants, LocksExclusive
  <2> QED
    BY <2>3, <2>4 DEF LocksExclusive
<1> QED
  BY <1>1, <1>2, MovesAreGranted

\* The FOR UPDATE locks exclude: at most one transaction is past the first
\* statement for a raffle, and a user is charged by one transaction at a time.
THEOREM LocksAreExclusive == Spec => []LocksExclusive
<1>1. Init => LocksExclusive
  BY DEF Init, LocksExclusive, Locked, Numbered, Charging, Spending
<1>2. TypeOK /\ LocksExclusive /\ [Next]_vars => LocksExclusive'
  BY LocksStep
<1> QED
  BY <1>1, <1>2, TypeCorrect, PTL DEF Spec

\* Requests to one raffle never deadlock, nor do those of different users:
\* whatever the number of requests, a deadlocked group contains two requests
\* of one user for two raffles that both wait for the user's row.
THEOREM DeadlocksSpan == Spec => []DeadlocksSpanRaffles
<1>1. LocksExclusive => DeadlocksSpanRaffles
  <2> SUFFICES ASSUME LocksExclusive, NEW group \in SUBSET Requests, Deadlocked(group)
               PROVE  \E t, x \in group :
                          /\ UserOf[t] = UserOf[x] /\ RaffleOf[t] # RaffleOf[x]
                          /\ pc[t] = "lockUser" /\ pc[x] = "lockUser"
    BY DEF DeadlocksSpanRaffles
  <2> USE DEF RaffleLockedBy, UserSharedBy, UserLockedBy, WaitsFor, Locked, Numbered,
              Charging, Spending
  <2>1. \A t \in group : pc[t] \in {"begin", "parents", "lockUser"}
    BY DEF Deadlocked
  <2>2. \A t \in group : pc[t] # "parents"
    BY <2>1 DEF Deadlocked
  <2>3. PICK t \in group : pc[t] = "lockUser"
    BY <2>1, <2>2 DEF Deadlocked
  <2>4. PICK x \in group : x \in UserSharedBy(t)
    BY <2>3 DEF Deadlocked
  <2>5. x # t /\ UserOf[t] = UserOf[x] /\ pc[x] = "lockUser"
    BY <2>1, <2>2, <2>4
  <2>6. RaffleOf[t] # RaffleOf[x]
    BY <2>3, <2>5 DEF LocksExclusive
  <2> QED
    BY <2>3, <2>5, <2>6
<1> QED
  BY <1>1, LocksAreExclusive, PTL
-----------------------------------------------------------------------------
(***************************************************************************)
(* Numbers.                                                                *)
(***************************************************************************)
\* A move that neither enters nor leaves the statements after the insert.
Keeps(t) ==
    \E from, to \in Statements : Step(t, from, to) /\ (from \in Numbered <=> to \in Numbered)

\* The kinds of steps the rest of the invariant distinguishes.
LEMMA StepKinds ==
    ASSUME [Next]_vars
    PROVE  \/ \E t \in Requests :
                  Answer(t) \/ Keeps(t) \/ (InsertEntry(t) /\ ~Answer(t)) \/ Commit(t)
           \/ \E s \in Stakes : Credit(s)
           \/ \E r \in Raffles : Close(r)
           \/ UNCHANGED vars
<1> USE DEF Statements, InTx, Locked, Numbered, Charging, Spending
<1>1. \A t \in Requests : Enter(t) \/ HolderConfirmed(t) \/ Acquire(t) => Keeps(t)
  BY DEF Keeps, Enter, HolderConfirmed, Acquire, LockRaffle, LockParents, LockUser
<1>2. \A t \in Requests : CheckLimit(t) \/ CheckBalance(t) \/ Debit(t) => Keeps(t) \/ Answer(t)
  BY DEF Keeps, CheckLimit, CheckBalance, Debit
<1>3. \A t \in Requests : HolderRefused(t) \/ Rollback(t) \/ DeadlockAbort(t) => Answer(t)
  BY DEF HolderRefused, Rollback, DeadlockAbort
<1> QED
  <2> HIDE DEF Statements, InTx, Locked, Numbered, Charging, Spending
  <2> QED
    BY <1>1, <1>2, <1>3 DEF Next, Local

LEMMA NumbersStep ==
    ASSUME TypeOK, LocksExclusive, NumbersStaged, [Next]_vars
    PROVE  NumbersStaged'
<1> USE DEF NumbersStaged, EntriesOf
<1>0. /\ "idle" \notin Numbered /\ "parents" \in Numbered /\ "commit" \in Numbered
      /\ Numbered \subseteq Locked
  BY DEF Locked, Numbered, Charging, Spending
<1>1. ASSUME NEW t \in Requests, Answer(t) PROVE NumbersStaged'
  <2>1. /\ pc'[t] = "idle" /\ num'[t] = 0
        /\ \A x \in Requests \ {t} : pc'[x] = pc[x] /\ num'[x] = num[x]
        /\ UNCHANGED <<entries, nextNumber>>
    BY <1>1 DEF Answer, Goto, TypeOK
  <2> QED
    BY <1>0, <2>1
<1>2. ASSUME NEW t \in Requests, Keeps(t) PROVE NumbersStaged'
  <2>1. \A x \in Requests : (pc'[x] \in Numbered <=> pc[x] \in Numbered)
    BY <1>2 DEF Keeps, Step, Goto, TypeOK
  <2>2. UNCHANGED <<entries, nextNumber, num>>
    BY <1>2 DEF Keeps, Step
  <2> QED
    BY <2>1, <2>2
<1>3. ASSUME NEW t \in Requests, InsertEntry(t), ~Answer(t) PROVE NumbersStaged'
  <2>1. /\ pc'[t] = "parents" /\ num'[t] = nextNumber /\ nextNumber' = nextNumber + 1
        /\ \A x \in Requests \ {t} : pc'[x] = pc[x] /\ num'[x] = num[x]
        /\ entries' = entries
    BY <1>3 DEF InsertEntry, Goto, TypeOK
  <2>2. nextNumber \in Nat \ {0}
    BY ConstantsAssumption DEF TypeOK, ConstantsAssumption
  <2>3. \A n \in 1 .. nextNumber - 1 : n \in 1 .. nextNumber' - 1 /\ n < nextNumber
    BY <2>1, <2>2
  <2>4. nextNumber \in 1 .. nextNumber' - 1
    BY <2>1, <2>2
  <2>5. \A e \in entries' : e.entryNumber \in 1 .. nextNumber' - 1 /\ e.entryNumber < nextNumber
    BY <2>1, <2>3
  <2>6. ASSUME NEW x \in Requests, pc'[x] \in Numbered
        PROVE  /\ num'[x] \in 1 .. nextNumber' - 1
               /\ \A e \in entries' : e.entryNumber # num'[x]
               /\ \A e \in entries' : e.raffleId = RaffleOf[x] => e.entryNumber < num'[x]
               /\ \A y \in Requests \ {x} : pc'[y] \in Numbered => num'[y] # num'[x]
    <3>1. \A y \in Requests \ {t} : pc[y] \in Numbered => num[y] < nextNumber
      BY <2>3
    <3>2. CASE x = t
      BY <2>1, <2>2, <2>4, <2>5, <3>1, <3>2
    <3>3. CASE x # t
      BY <2>1, <2>2, <2>3, <2>6, <3>1, <3>3
    <3> QED
      BY <3>2, <3>3
  <2>7. \A x \in Requests : pc'[x] \notin Numbered => num'[x] = 0
    BY <1>0, <2>1
  <2> QED
    BY <2>5, <2>6, <2>7
<1>4. ASSUME NEW t \in Requests, Commit(t) PROVE NumbersStaged'
  <2> DEFINE new == [entryNumber |-> num[t], raffleId |-> RaffleOf[t], userId |-> UserOf[t]]
  <2>1. /\ pc[t] = "commit" /\ pc'[t] = "idle" /\ num'[t] = 0 /\ nextNumber' = nextNumber
        /\ \A x \in Requests \ {t} : pc'[x] = pc[x] /\ num'[x] = num[x]
        /\ entries' = entries \cup {new}
    BY <1>4 DEF Commit, Goto, TypeOK
  <2>2. new.entryNumber = num[t] /\ new.raffleId = RaffleOf[t]
    OBVIOUS
  <2> HIDE DEF new
  <2>3. num[t] \in 1 .. nextNumber - 1
    BY <1>0, <2>1
  <2>4. \A x \in Requests \ {t} : pc[x] \in Numbered =>
            num[x] # num[t] /\ RaffleOf[x] # RaffleOf[t]
    BY <1>0, <2>1 DEF LocksExclusive, RaffleLockedBy
  <2> QED
    BY <1>0, <2>1, <2>2, <2>3, <2>4
<1>5. CASE UNCHANGED <<entries, nextNumber, pc, num>>
  BY <1>5
<1>6. (\E s \in Stakes : Credit(s)) \/ (\E r \in Raffles : Close(r)) \/ UNCHANGED vars
          => UNCHANGED <<entries, nextNumber, pc, num>>
  BY DEF Credit, Close, vars
<1> QED
  BY <1>1, <1>2, <1>3, <1>4, <1>5, <1>6, StepKinds

\* Entry numbers are handed out once and stay above what the raffle holds.
THEOREM NumbersAreStaged == Spec => []NumbersStaged
<1>1. Init => NumbersStaged
  BY DEF Init, NumbersStaged, Numbered, Charging, Spending
<1>2. TypeOK /\ LocksExclusive /\ NumbersStaged /\ [Next]_vars => NumbersStaged'
  BY NumbersStep
<1> QED
  BY <1>1, <1>2, TypeCorrect, LocksAreExclusive, PTL DEF Spec

\* Entries to a raffle become visible in the order of their numbers: a new
\* entry comes after all that can be seen, and moves none of their positions.
THEOREM NumberOrder == Spec => CommitsInNumberOrder
<1>1. ASSUME TypeOK, NumbersStaged, [Next]_vars
      PROVE  \A e \in entries' \ entries :
                 \A f \in EntriesOf(e.raffleId) : f.entryNumber < e.entryNumber
  <2>1. ASSUME NEW t \in Requests, Commit(t), NEW e \in entries' \ entries,
               NEW f \in EntriesOf(e.raffleId)
        PROVE  f.entryNumber < e.entryNumber
    <3>1. e.entryNumber = num[t] /\ e.raffleId = RaffleOf[t] /\ pc[t] = "commit"
      BY <2>1 DEF Commit
    <3>2. pc[t] \in Numbered /\ f \in EntriesOf(RaffleOf[t])
      BY <2>1, <3>1 DEF Numbered, Charging, Spending
    <3>3. f.entryNumber < num[t]
      BY <3>2, <1>1 DEF NumbersStaged
    <3> QED
      BY <3>1, <3>3
  <2>2. (\A t \in Requests : ~Commit(t)) => entries' = entries
    BY StepKinds, <1>1 DEF Answer, Keeps, Step, InsertEntry, Credit, Close, vars
  <2> QED
    BY <2>1, <2>2
<1>2. TypeOK /\ NumbersStaged /\ [Next]_vars =>
          [\A e \in entries' \ entries :
               \A f \in EntriesOf(e.raffleId) : f.entryNumber < e.entryNumber]_vars
  BY <1>1
<1> QED
  BY <1>2, TypeCorrect, NumbersAreStaged, PTL DEF Spec, CommitsInNumberOrder
-----------------------------------------------------------------------------
(***************************************************************************)
(* Money.                                                                  *)
(***************************************************************************)
\* The ledger is a ledger: finitely many rows with integer deltas.
LEMMA LedgerShape ==
    ASSUME TypeOK
    PROVE  IsFiniteSet(ledger) /\ IntDeltas(ledger)
  BY DEF TypeOK, LedgerRow, IntDeltas

LEMMA DebitsStep ==
    ASSUME TypeOK, DebitsHaveEntries, [Next]_vars
    PROVE  DebitsHaveEntries'
<1>1. ASSUME NEW t \in Requests, Commit(t) PROVE DebitsHaveEntries'
  <2> DEFINE new == [entryNumber |-> num[t], raffleId |-> RaffleOf[t], userId |-> UserOf[t]]
             row == DebitRow(UserOf[t], EntryCost[RaffleOf[t]], num[t])
  <2>1. ledger' = ledger \cup {row} /\ entries' = entries \cup {new}
    BY <1>1 DEF Commit
  <2>2. row = DebitRow(new.userId, EntryCost[new.raffleId], new.entryNumber)
    OBVIOUS
  <2> HIDE DEF new, row
  <2> QED
    BY <2>1, <2>2 DEF DebitsHaveEntries, Debits
<1>2. ASSUME NEW s \in Stakes, Credit(s) PROVE DebitsHaveEntries'
  BY <1>2 DEF Credit, DebitsHaveEntries, Debits, CreditRow
<1>3. CASE UNCHANGED <<ledger, entries>>
  BY <1>3 DEF DebitsHaveEntries, Debits
<1> QED
  BY <1>1, <1>2, <1>3, StepKinds DEF Answer, Keeps, Step, InsertEntry, Close, vars

\* The ledger row of a commit is new: its number was never charged before.
LEMMA CommitRowIsNew ==
    ASSUME NumbersStaged, DebitsHaveEntries, NEW t \in Requests, pc[t] = "commit"
    PROVE  DebitRow(UserOf[t], EntryCost[RaffleOf[t]], num[t]) \notin ledger
<1> DEFINE row == DebitRow(UserOf[t], EntryCost[RaffleOf[t]], num[t])
<1>1. row.reason = "RAFFLE_ENTRY" /\ row.source = num[t]
  BY DEF DebitRow
<1>2. \A e \in entries : DebitRow(e.userId, EntryCost[e.raffleId], e.entryNumber).source
                            = e.entryNumber
  BY DEF DebitRow
<1>3. \A e \in entries : e.entryNumber # num[t]
  BY DEF NumbersStaged, Numbered, Charging, Spending
<1> HIDE DEF row
<1>4. row \notin ledger
  BY <1>1, <1>2, <1>3 DEF DebitsHaveEntries, Debits
<1> QED
  BY <1>4 DEF row

\* A commit lowers the balance of its user by the cost, and no other balance.
LEMMA CommitBalance ==
    ASSUME TypeOK, NumbersStaged, DebitsHaveEntries, NEW t \in Requests, Commit(t),
           NEW u \in Users
    PROVE  Balance(u)' = IF u = UserOf[t] THEN Balance(u) - EntryCost[RaffleOf[t]] ELSE Balance(u)
<1> DEFINE row == DebitRow(UserOf[t], EntryCost[RaffleOf[t]], num[t])
<1>1. EntryCost[RaffleOf[t]] \in Nat
  BY ConstantsAssumption DEF ConstantsAssumption
<1>2. row.delta = -EntryCost[RaffleOf[t]] /\ row.userId = UserOf[t] /\ row.delta \in Int
  BY <1>1 DEF DebitRow
<1>3. row \notin ledger
  BY CommitRowIsNew DEF Commit
<1>4. ledger' = ledger \cup {row}
  BY DEF Commit
<1> HIDE DEF row
<1>5. GetBalance(ledger', u) = IF u = row.userId THEN GetBalance(ledger, u) + row.delta
                               ELSE GetBalance(ledger, u)
  BY <1>2, <1>3, <1>4, LedgerShape, BalanceAfterInsert
<1>6. GetBalance(ledger, u) \in Int
  BY LedgerShape, BalanceType
<1> QED
  BY <1>1, <1>2, <1>5, <1>6 DEF Balance

\* A credit raises the balance of the stake's owner, and no other balance.
LEMMA CreditBalance ==
    ASSUME TypeOK, NEW s \in Stakes, Credit(s), NEW u \in Users
    PROVE  /\ Balance(u)' \in Int /\ Balance(u)' >= Balance(u)
           /\ Balance(u)' = IF u = StakeOwner[s] THEN Balance(u) + StakeTickets[s] ELSE Balance(u)
<1> DEFINE row == CreditRow(StakeOwner[s], StakeTickets[s], s)
<1>1. row.delta = StakeTickets[s] /\ row.delta \in Nat /\ row.userId = StakeOwner[s]
  BY ConstantsAssumption DEF ConstantsAssumption, CreditRow
<1>2. row \notin ledger
  BY DEF Credit, CanCredit, CreditRow
<1>3. ledger' = ledger \cup {row}
  BY DEF Credit
<1> HIDE DEF row
<1>4. GetBalance(ledger', u) = IF u = row.userId THEN GetBalance(ledger, u) + row.delta
                               ELSE GetBalance(ledger, u)
  BY <1>1, <1>2, <1>3, LedgerShape, BalanceAfterInsert
<1>5. GetBalance(ledger, u) \in Int
  BY LedgerShape, BalanceType
<1> QED
  BY <1>1, <1>4, <1>5 DEF Balance

\* A request is about to commit only after debit saw enough tickets.
LEMMA CommitIsFunded ==
    ASSUME TypeOK, [Next]_vars, NEW x \in Requests, pc'[x] = "commit"
    PROVE  \/ pc[x] = "commit"
           \/ GetBalance(ledger, UserOf[x]) >= EntryCost[RaffleOf[x]] /\ ledger' = ledger
<1>1. ASSUME NEW t \in Requests, Answer(t) PROVE pc[x] = "commit"
  BY <1>1 DEF Answer, Goto, TypeOK
<1>2. ASSUME NEW t \in Requests, NEW from, NEW to, to # "commit", Step(t, from, to)
      PROVE  pc[x] = "commit"
  BY <1>2 DEF Step, Goto, TypeOK
<1>3. ASSUME NEW t \in Requests, Enter(t) \/ HolderConfirmed(t) \/ Acquire(t)
      PROVE  pc[x] = "commit"
  BY <1>2, <1>3 DEF Enter, HolderConfirmed, Acquire, LockRaffle, LockParents, LockUser
<1>4. ASSUME NEW t \in Requests, CheckLimit(t) \/ CheckBalance(t) \/ InsertEntry(t)
      PROVE  pc[x] = "commit"
  <2>1. CASE InsertEntry(t) /\ ~Answer(t)
    BY <2>1 DEF InsertEntry, Goto, TypeOK
  <2> QED
    BY <1>1, <1>2, <1>4, <2>1 DEF CheckLimit, CheckBalance
<1>5. ASSUME NEW t \in Requests, Debit(t), ~Answer(t)
      PROVE  \/ pc[x] = "commit"
             \/ GetBalance(ledger, UserOf[x]) >= EntryCost[RaffleOf[x]] /\ ledger' = ledger
  BY <1>5 DEF Debit, CanDebit, Step, Goto, TypeOK
<1>6. ASSUME NEW t \in Requests, Commit(t) PROVE pc[x] = "commit"
  BY <1>6 DEF Commit, Goto, TypeOK
<1>7. ASSUME NEW t \in Requests, HolderRefused(t) \/ Rollback(t) \/ DeadlockAbort(t)
      PROVE  pc[x] = "commit"
  BY <1>1, <1>7 DEF HolderRefused, Rollback, DeadlockAbort
<1>8. (\E s \in Stakes : Credit(s)) \/ (\E r \in Raffles : Close(r)) \/ UNCHANGED vars
          => pc[x] = "commit"
  BY DEF Credit, Close, vars
<1> QED
  BY <1>1, <1>3, <1>4, <1>5, <1>6, <1>7, <1>8 DEF Next, Local

LEMMA MoneyStep ==
    ASSUME TypeOK, LocksExclusive, NumbersStaged, DebitsHaveEntries,
           BalanceNeverNegative, CommitAffordable, [Next]_vars
    PROVE  BalanceNeverNegative' /\ CommitAffordable'
<1>0. \A x \in Requests : UserOf[x] \in Users /\ EntryCost[RaffleOf[x]] \in Nat
  BY ConstantsAssumption DEF ConstantsAssumption
<1>9. \A u \in Users : Balance(u) \in Int
  BY LedgerShape, BalanceType DEF Balance
<1>1. ASSUME NEW t \in Requests, Commit(t)
      PROVE  BalanceNeverNegative' /\ CommitAffordable'
  <2>1. pc[t] = "commit" /\ pc'[t] = "idle" /\ \A x \in Requests \ {t} : pc'[x] = pc[x]
    BY <1>1 DEF Commit, Goto, TypeOK
  <2>2. \A u \in Users : Balance(u)' >= 0
    BY <1>0, <1>9, <1>1, <2>1, CommitBalance DEF BalanceNeverNegative, CommitAffordable
  <2>3. ASSUME NEW x \in Requests, pc'[x] = "commit"
        PROVE  Balance(UserOf[x])' >= EntryCost[RaffleOf[x]]
    <3>1. x # t /\ pc[x] = "commit"
      BY <2>1, <2>3
    <3>2. UserOf[x] # UserOf[t]
      BY <2>1, <3>1 DEF LocksExclusive, UserSharedBy, Charging, Spending
    <3> QED
      BY <1>0, <1>1, <3>1, <3>2, CommitBalance DEF CommitAffordable
  <2> QED
    BY <2>2, <2>3 DEF BalanceNeverNegative, CommitAffordable
<1>2. ASSUME NEW s \in Stakes, Credit(s)
      PROVE  BalanceNeverNegative' /\ CommitAffordable'
  <2>1. pc' = pc /\ \A u \in Users : Balance(u)' \in Int /\ Balance(u)' >= Balance(u)
    BY <1>2, CreditBalance DEF Credit
  <2> QED
    BY <1>0, <1>9, <2>1 DEF BalanceNeverNegative, CommitAffordable
<1>3. CASE ledger' = ledger
  BY <1>3, CommitIsFunded DEF BalanceNeverNegative, CommitAffordable, Balance
<1> QED
  BY <1>1, <1>2, <1>3, StepKinds DEF Answer, Keeps, Step, InsertEntry, Close, vars

\* Nobody spends a ticket twice: no interleaving of requests and credits, no
\* rollback and no deadlock takes a balance below zero.
THEOREM NeverNegative == Spec => []BalanceNeverNegative
<1>1. Init => DebitsHaveEntries /\ BalanceNeverNegative /\ CommitAffordable
  BY FS_EmptySet, BalanceType
  DEF Init, DebitsHaveEntries, Debits, BalanceNeverNegative, CommitAffordable, Balance, IntDeltas
<1>2. TypeOK /\ DebitsHaveEntries /\ [Next]_vars => DebitsHaveEntries'
  BY DebitsStep
<1>3. TypeOK /\ LocksExclusive /\ NumbersStaged /\ DebitsHaveEntries /\ BalanceNeverNegative
      /\ CommitAffordable /\ [Next]_vars => BalanceNeverNegative' /\ CommitAffordable'
  BY MoneyStep
<1> QED
  BY <1>1, <1>2, <1>3, TypeCorrect, LocksAreExclusive, NumbersAreStaged, PTL DEF Spec
-----------------------------------------------------------------------------
(***************************************************************************)
(* Counts.                                                                 *)
(***************************************************************************)
NewEntry(t) == [entryNumber |-> num[t], raffleId |-> RaffleOf[t], userId |-> UserOf[t]]

\* A commit adds one entry, with a number no entry has.
LEMMA CommitEntry ==
    ASSUME NumbersStaged, NEW t \in Requests, Commit(t)
    PROVE  entries' = entries \cup {NewEntry(t)} /\ NewEntry(t) \notin entries
<1>1. \A e \in entries : e.entryNumber # num[t]
  BY DEF Commit, NumbersStaged, Numbered, Charging, Spending
<1> QED
  BY <1>1 DEF Commit, NewEntry

\* Every other step leaves the entries alone.
LEMMA OtherEntries ==
    ASSUME [Next]_vars, \A t \in Requests : ~Commit(t)
    PROVE  UNCHANGED <<entries, entryCount>>
  BY StepKinds DEF Answer, Keeps, Step, InsertEntry, Credit, Close, vars

\* Sets of entries are finite, and gain exactly one element with a new entry.
LEMMA OneMore ==
    ASSUME NEW S, NEW T, IsFiniteSet(T), S \subseteq T, NEW x, x \notin S
    PROVE  Cardinality(S) \in Nat /\ Cardinality(S \cup {x}) = Cardinality(S) + 1
  BY FS_Subset, FS_AddElement, FS_CardinalityType

LEMMA CountStep ==
    ASSUME TypeOK, NumbersStaged, CountMatchesEntries, [Next]_vars
    PROVE  CountMatchesEntries'
<1>1. ASSUME NEW t \in Requests, Commit(t), NEW r \in Raffles
      PROVE  entryCount'[r] = Cardinality(EntriesOf(r)')
  <2>1. entries' = entries \cup {NewEntry(t)} /\ NewEntry(t) \notin entries
    BY <1>1, CommitEntry
  <2>2. CASE r = RaffleOf[t]
    <3>1. EntriesOf(r)' = EntriesOf(r) \cup {NewEntry(t)}
      BY <2>1, <2>2 DEF EntriesOf, NewEntry
    <3>2. Cardinality(EntriesOf(r) \cup {NewEntry(t)}) = Cardinality(EntriesOf(r)) + 1
      BY <2>1, OneMore DEF EntriesOf, TypeOK
    <3>3. entryCount'[r] = entryCount[r] + 1
      BY <1>1, <2>2 DEF Commit, TypeOK
    <3> QED
      BY <3>1, <3>2, <3>3 DEF CountMatchesEntries
  <2>3. CASE r # RaffleOf[t]
    <3>1. EntriesOf(r)' = EntriesOf(r)
      BY <2>1, <2>3 DEF EntriesOf, NewEntry
    <3>2. entryCount'[r] = entryCount[r]
      BY <1>1, <2>3 DEF Commit, TypeOK
    <3> QED
      BY <3>1, <3>2 DEF CountMatchesEntries
  <2> QED
    BY <2>2, <2>3
<1>2. CASE \A t \in Requests : ~Commit(t)
  BY <1>2, OtherEntries DEF CountMatchesEntries, EntriesOf
<1> QED
  BY <1>1, <1>2 DEF CountMatchesEntries

\* The counter the draw divides by is the number of stored entries.
THEOREM CountIsExact == Spec => []CountMatchesEntries
<1>1. Init => CountMatchesEntries
  <2> SUFFICES ASSUME Init, NEW r \in Raffles PROVE entryCount[r] = Cardinality(EntriesOf(r))
    BY DEF CountMatchesEntries
  <2>1. EntriesOf(r) = {} /\ entryCount[r] = 0
    BY DEF Init, EntriesOf
  <2> QED
    BY <2>1, FS_EmptySet
<1>2. TypeOK /\ NumbersStaged /\ CountMatchesEntries /\ [Next]_vars => CountMatchesEntries'
  BY CountStep
<1> QED
  BY <1>1, <1>2, TypeCorrect, NumbersAreStaged, PTL DEF Spec

LEMMA PaidStep ==
    ASSUME TypeOK, NumbersStaged, DebitsHaveEntries, EntriesPaidOnce, [Next]_vars
    PROVE  EntriesPaidOnce'
<1>1. ASSUME NEW t \in Requests, Commit(t) PROVE EntriesPaidOnce'
  <2> DEFINE row == DebitRow(UserOf[t], EntryCost[RaffleOf[t]], num[t])
  <2>1. entries' = entries \cup {NewEntry(t)} /\ NewEntry(t) \notin entries
    BY <1>1, CommitEntry
  <2>2. ledger' = ledger \cup {row} /\ row \notin ledger
    BY <1>1, CommitRowIsNew DEF Commit
  <2>3. row.reason = "RAFFLE_ENTRY" /\ row = DebitRow(NewEntry(t).userId,
             EntryCost[NewEntry(t).raffleId], NewEntry(t).entryNumber)
    BY DEF DebitRow, NewEntry
  <2> HIDE DEF row
  <2>4. Debits' = Debits \cup {row} /\ row \notin Debits
    BY <2>2, <2>3 DEF Debits
  <2>5. Cardinality(Debits') = Cardinality(Debits) + 1
    BY <2>4, OneMore DEF Debits, TypeOK
  <2>6. Cardinality(entries') = Cardinality(entries) + 1
    BY <2>1, OneMore DEF TypeOK
  <2>7. \A e \in entries' :
            DebitRow(e.userId, EntryCost[e.raffleId], e.entryNumber) \in ledger'
    BY <2>1, <2>2, <2>3 DEF EntriesPaidOnce
  <2> QED
    BY <2>5, <2>6, <2>7 DEF EntriesPaidOnce
<1>2. ASSUME NEW s \in Stakes, Credit(s) PROVE EntriesPaidOnce'
  <2>1. ledger' = ledger \cup {CreditRow(StakeOwner[s], StakeTickets[s], s)} /\ entries' = entries
    BY <1>2 DEF Credit
  <2>2. Debits' = Debits
    BY <2>1 DEF Debits, CreditRow
  <2> QED
    BY <2>1, <2>2 DEF EntriesPaidOnce
<1>3. CASE UNCHANGED <<ledger, entries>>
  BY <1>3 DEF EntriesPaidOnce, Debits
<1> QED
  BY <1>1, <1>2, <1>3, StepKinds DEF Answer, Keeps, Step, InsertEntry, Close, vars

\* No entry without its payment, no payment without its entry.
THEOREM PaidOnce == Spec => []EntriesPaidOnce
<1>1. Init => DebitsHaveEntries /\ EntriesPaidOnce
  <2> SUFFICES ASSUME Init PROVE DebitsHaveEntries /\ EntriesPaidOnce
    OBVIOUS
  <2>1. Debits = {} /\ entries = {}
    BY DEF Init, Debits
  <2> QED
    BY <2>1, FS_EmptySet DEF DebitsHaveEntries, EntriesPaidOnce
<1>2. TypeOK /\ DebitsHaveEntries /\ [Next]_vars => DebitsHaveEntries'
  BY DebitsStep
<1>3. TypeOK /\ NumbersStaged /\ DebitsHaveEntries /\ EntriesPaidOnce /\ [Next]_vars
          => EntriesPaidOnce'
  BY PaidStep
<1> QED
  BY <1>1, <1>2, <1>3, TypeCorrect, NumbersAreStaged, PTL DEF Spec

\* A request is past the limit check only if it passed the count, by which no
\* entry has become visible since.
LEMMA PastLimit ==
    ASSUME TypeOK, [Next]_vars, NEW x \in Requests, pc'[x] \in Locked \ {"limit"}
    PROVE  \/ pc[x] \in Locked \ {"limit"}
           \/ BelowLimit(x) /\ entries' = entries
<1> USE DEF Locked, Numbered, Charging, Spending
<1>1. ASSUME NEW t \in Requests, Answer(t) PROVE pc[x] \in Locked \ {"limit"}
  BY <1>1 DEF Answer, Goto, TypeOK
<1>2. ASSUME NEW t \in Requests, NEW from, NEW to, Step(t, from, to),
             to \in Locked \ {"limit"} => from \in Locked \ {"limit"}
      PROVE  pc[x] \in Locked \ {"limit"}
  BY <1>2 DEF Step, Goto, TypeOK
<1>3. ASSUME NEW t \in Requests,
             Enter(t) \/ HolderConfirmed(t) \/ Acquire(t) \/ CheckBalance(t) \/ Debit(t)
      PROVE  pc[x] \in Locked \ {"limit"}
  BY <1>1, <1>2, <1>3
  DEF Enter, HolderConfirmed, Acquire, LockRaffle, LockParents, LockUser, CheckBalance, Debit
<1>4. ASSUME NEW t \in Requests, CheckLimit(t), ~Answer(t)
      PROVE  pc[x] \in Locked \ {"limit"} \/ (BelowLimit(x) /\ entries' = entries)
  BY <1>4 DEF CheckLimit, Step, Goto, TypeOK
<1>5. ASSUME NEW t \in Requests, InsertEntry(t), ~Answer(t) PROVE pc[x] \in Locked \ {"limit"}
  BY <1>5 DEF InsertEntry, Goto, TypeOK
<1>6. ASSUME NEW t \in Requests, Commit(t) PROVE pc[x] \in Locked \ {"limit"}
  BY <1>6 DEF Commit, Goto, TypeOK
<1>7. ASSUME NEW t \in Requests, HolderRefused(t) \/ Rollback(t) \/ DeadlockAbort(t)
      PROVE  pc[x] \in Locked \ {"limit"}
  BY <1>1, <1>7 DEF HolderRefused, Rollback, DeadlockAbort
<1>8. (\E s \in Stakes : Credit(s)) \/ (\E r \in Raffles : Close(r)) \/ UNCHANGED vars
          => pc' = pc
  BY DEF Credit, Close, vars
<1> QED
  <2> HIDE DEF Locked, Numbered, Charging, Spending
  <2> QED
    BY <1>1, <1>3, <1>4, <1>5, <1>6, <1>7, <1>8 DEF Next, Local

LEMMA LimitStep ==
    ASSUME TypeOK, LocksExclusive, NumbersStaged, CommitBelowLimit, LimitRespected, [Next]_vars
    PROVE  CommitBelowLimit' /\ LimitRespected'
<1> USE DEF BelowLimit
<1>1. ASSUME NEW t \in Requests, Commit(t) PROVE CommitBelowLimit' /\ LimitRespected'
  <2>1. /\ pc[t] = "commit" /\ pc'[t] = "idle" /\ \A x \in Requests \ {t} : pc'[x] = pc[x]
        /\ "commit" \in Locked \ {"limit"} /\ "idle" \notin Locked
    BY <1>1 DEF Commit, Goto, TypeOK, Locked, Numbered, Charging, Spending
  <2>2. entries' = entries \cup {NewEntry(t)} /\ NewEntry(t) \notin entries
    BY <1>1, CommitEntry
  <2>3. \A u, r : (u # UserOf[t] \/ r # RaffleOf[t]) => EntriesBy(u, r)' = EntriesBy(u, r)
    BY <2>2 DEF EntriesBy, EntriesOf, NewEntry
  <2>4. ASSUME NEW x \in Requests, pc'[x] \in Locked \ {"limit"} PROVE BelowLimit(x)'
    <3>1. x # t /\ pc[x] \in Locked \ {"limit"}
      BY <2>1, <2>4
    <3>2. RaffleOf[x] # RaffleOf[t]
      BY <2>1, <3>1 DEF LocksExclusive, RaffleLockedBy
    <3> QED
      BY <2>3, <3>1, <3>2 DEF CommitBelowLimit
  <2>5. ASSUME NEW u \in Users, NEW r \in Raffles, MaxEntriesPerUser[r] # Null
        PROVE  Cardinality(EntriesBy(u, r)') <= MaxEntriesPerUser[r]
    <3>1. CASE u = UserOf[t] /\ r = RaffleOf[t]
      <4>1. EntriesBy(u, r)' = EntriesBy(u, r) \cup {NewEntry(t)}
        BY <2>2, <3>1 DEF EntriesBy, EntriesOf, NewEntry
      <4>2. /\ Cardinality(EntriesBy(u, r)) \in Nat
            /\ Cardinality(EntriesBy(u, r) \cup {NewEntry(t)}) = Cardinality(EntriesBy(u, r)) + 1
        BY <2>2, OneMore DEF EntriesBy, EntriesOf, TypeOK
      <4>3. Cardinality(EntriesBy(u, r)) < MaxEntriesPerUser[r]
        BY <2>1, <2>5, <3>1 DEF CommitBelowLimit
      <4>4. MaxEntriesPerUser[r] \in Nat
        BY <2>5, ConstantsAssumption DEF ConstantsAssumption
      <4> QED
        BY <4>1, <4>2, <4>3, <4>4
    <3>2. CASE u # UserOf[t] \/ r # RaffleOf[t]
      BY <2>3, <2>5, <3>2 DEF LimitRespected
    <3> QED
      BY <3>1, <3>2
  <2> QED
    BY <2>4, <2>5 DEF CommitBelowLimit, LimitRespected
<1>2. CASE \A t \in Requests : ~Commit(t)
  <2>1. entries' = entries
    BY <1>2, OtherEntries
  <2>2. \A x \in Requests : pc'[x] \in Locked \ {"limit"} => BelowLimit(x)
    BY PastLimit DEF CommitBelowLimit
  <2>3. \A u, r : EntriesBy(u, r)' = EntriesBy(u, r)
    BY <2>1 DEF EntriesBy, EntriesOf
  <2> QED
    BY <2>2, <2>3 DEF CommitBelowLimit, LimitRespected
<1> QED
  BY <1>1, <1>2

\* The cap counted before the insert holds after the commit, however many
\* requests of the user passed the count.
THEOREM LimitHolds == Spec => []LimitRespected
<1>1. Init => CommitBelowLimit /\ LimitRespected
  <2> SUFFICES ASSUME Init PROVE CommitBelowLimit /\ LimitRespected
    OBVIOUS
  <2>1. CommitBelowLimit
    BY DEF Init, CommitBelowLimit, Locked, Numbered, Charging, Spending
  <2>2. \A u, r : EntriesBy(u, r) = {}
    BY DEF Init, EntriesBy, EntriesOf
  <2>3. \A r \in Raffles : MaxEntriesPerUser[r] # Null => 0 <= MaxEntriesPerUser[r]
    BY ConstantsAssumption DEF ConstantsAssumption
  <2> QED
    BY <2>1, <2>2, <2>3, FS_EmptySet DEF LimitRespected
<1>2. TypeOK /\ LocksExclusive /\ NumbersStaged /\ CommitBelowLimit /\ LimitRespected
      /\ [Next]_vars => CommitBelowLimit' /\ LimitRespected'
  BY LimitStep
<1> QED
  BY <1>1, <1>2, TypeCorrect, LocksAreExclusive, NumbersAreStaged, PTL DEF Spec

\* The whole inductive invariant, as the runs check it.
THEOREM Inductive == Spec => []EntryInv
<1>1. Init => DebitsHaveEntries /\ BalanceNeverNegative /\ CommitAffordable
  BY FS_EmptySet, BalanceType
  DEF Init, DebitsHaveEntries, Debits, BalanceNeverNegative, CommitAffordable, Balance, IntDeltas
<1>2. TypeOK /\ DebitsHaveEntries /\ [Next]_vars => DebitsHaveEntries'
  BY DebitsStep
<1>3. TypeOK /\ LocksExclusive /\ NumbersStaged /\ DebitsHaveEntries /\ BalanceNeverNegative
      /\ CommitAffordable /\ [Next]_vars => BalanceNeverNegative' /\ CommitAffordable'
  BY MoneyStep
<1>4. Init => CommitBelowLimit
  BY DEF Init, CommitBelowLimit, Locked, Numbered, Charging, Spending
<1>5. TypeOK /\ LocksExclusive /\ NumbersStaged /\ CommitBelowLimit /\ LimitRespected
      /\ [Next]_vars => CommitBelowLimit' /\ LimitRespected'
  BY LimitStep
<1> QED
  BY <1>1, <1>2, <1>3, <1>4, <1>5, TypeCorrect, LocksAreExclusive, NumbersAreStaged,
     LimitHolds, PTL DEF Spec, EntryInv
-----------------------------------------------------------------------------
(***************************************************************************)
(* The minimum that is checked without a lock.                             *)
(***************************************************************************)
Checked == Locked \ {"limit", "eligible"}

\* A request is past the minimum check only if it had the minimum, and no
\* ledger row has become visible since.
LEMMA PastMinimum ==
    ASSUME TypeOK, [Next]_vars, NEW x \in Requests, pc'[x] \in Checked
    PROVE  \/ pc[x] \in Checked
           \/ Balance(UserOf[x]) >= MinTicketsToEnter[RaffleOf[x]] /\ ledger' = ledger
<1> USE DEF Checked, Locked, Numbered, Charging, Spending
<1>1. ASSUME NEW t \in Requests, Answer(t) PROVE pc[x] \in Checked
  BY <1>1 DEF Answer, Goto, TypeOK
<1>2. ASSUME NEW t \in Requests, NEW from, NEW to, Step(t, from, to), to \in Checked => from \in Checked
      PROVE  pc[x] \in Checked
  BY <1>2 DEF Step, Goto, TypeOK
<1>3. ASSUME NEW t \in Requests,
             Enter(t) \/ HolderConfirmed(t) \/ Acquire(t) \/ CheckLimit(t) \/ Debit(t)
      PROVE  pc[x] \in Checked
  BY <1>1, <1>2, <1>3
  DEF Enter, HolderConfirmed, Acquire, LockRaffle, LockParents, LockUser, CheckLimit, Debit
<1>4. ASSUME NEW t \in Requests, CheckBalance(t), ~Answer(t)
      PROVE  \/ pc[x] \in Checked
             \/ Balance(UserOf[x]) >= MinTicketsToEnter[RaffleOf[x]] /\ ledger' = ledger
  BY <1>4 DEF CheckBalance, Step, Goto, TypeOK
<1>5. ASSUME NEW t \in Requests, InsertEntry(t), ~Answer(t) PROVE pc[x] \in Checked
  BY <1>5 DEF InsertEntry, Goto, TypeOK
<1>6. ASSUME NEW t \in Requests, Commit(t) PROVE pc[x] \in Checked
  BY <1>6 DEF Commit, Goto, TypeOK
<1>7. ASSUME NEW t \in Requests, HolderRefused(t) \/ Rollback(t) \/ DeadlockAbort(t)
      PROVE  pc[x] \in Checked
  BY <1>1, <1>7 DEF HolderRefused, Rollback, DeadlockAbort
<1>8. (\E s \in Stakes : Credit(s)) \/ (\E r \in Raffles : Close(r)) \/ UNCHANGED vars
          => pc' = pc
  BY DEF Credit, Close, vars
<1> QED
  <2> HIDE DEF Checked, Locked, Numbered, Charging, Spending
  <2> QED
    BY <1>1, <1>3, <1>4, <1>5, <1>6, <1>7, <1>8 DEF Next, Local

LEMMA MinimumStep ==
    ASSUME TypeOK, LocksExclusive, NumbersStaged, DebitsHaveEntries, MinimumHeldInRaffle,
           [Next]_vars
    PROVE  MinimumHeldInRaffle'
<1>0. /\ \A u \in Users : Balance(u) \in Int
      /\ \A x \in Requests : UserOf[x] \in Users /\ MinTicketsToEnter[RaffleOf[x]] \in Nat
  BY LedgerShape, BalanceType, ConstantsAssumption DEF Balance, ConstantsAssumption
<1> SUFFICES ASSUME NEW x \in Requests, pc'[x] \in Checked,
                    Balance(UserOf[x])' < MinTicketsToEnter[RaffleOf[x]]
             PROVE  \E e \in entries' : e.userId = UserOf[x] /\ e.raffleId # RaffleOf[x]
  BY DEF MinimumHeldInRaffle, Checked
<1>1. pc[x] \in Checked /\ Balance(UserOf[x]) < MinTicketsToEnter[RaffleOf[x]]
          => \E e \in entries : e.userId = UserOf[x] /\ e.raffleId # RaffleOf[x]
  BY DEF MinimumHeldInRaffle, Checked
<1>2. pc[x] \in Checked \/ Balance(UserOf[x])' >= MinTicketsToEnter[RaffleOf[x]]
  BY PastMinimum DEF Balance
<1>3. pc[x] \in Checked
  <2>1. \/ pc[x] \in Checked
        \/ Balance(UserOf[x]) >= MinTicketsToEnter[RaffleOf[x]] /\ Balance(UserOf[x])' = Balance(UserOf[x])
    BY PastMinimum DEF Balance
  <2> QED
    BY <1>0, <2>1
<1>4. ASSUME NEW t \in Requests, Commit(t)
      PROVE  \E e \in entries' : e.userId = UserOf[x] /\ e.raffleId # RaffleOf[x]
  <2>1. pc[t] = "commit" /\ pc'[t] = "idle" /\ entries' = entries \cup {NewEntry(t)}
    BY <1>4, CommitEntry DEF Commit, Goto, TypeOK
  <2>2. x # t /\ RaffleOf[x] # RaffleOf[t]
    BY <1>3, <2>1 DEF LocksExclusive, RaffleLockedBy, Checked, Locked, Numbered, Charging, Spending
  <2>3. CASE UserOf[x] = UserOf[t]
    <3>1. NewEntry(t).userId = UserOf[x] /\ NewEntry(t).raffleId # RaffleOf[x]
      BY <2>2, <2>3 DEF NewEntry
    <3> QED
      BY <2>1, <3>1
  <2>4. CASE UserOf[x] # UserOf[t]
    <3>1. Balance(UserOf[x])' = Balance(UserOf[x])
      BY <1>0, <1>4, <2>4, CommitBalance
    <3> QED
      BY <1>1, <1>3, <2>1, <3>1
  <2> QED
    BY <2>3, <2>4
<1>5. ASSUME NEW s \in Stakes, Credit(s)
      PROVE  \E e \in entries' : e.userId = UserOf[x] /\ e.raffleId # RaffleOf[x]
  <2>1. Balance(UserOf[x])' >= Balance(UserOf[x]) /\ Balance(UserOf[x])' \in Int
    BY <1>0, <1>5, CreditBalance
  <2>2. Balance(UserOf[x]) < MinTicketsToEnter[RaffleOf[x]]
    BY <1>0, <2>1
  <2> QED
    BY <1>1, <1>3, <1>5, <2>2 DEF Credit
<1>6. CASE UNCHANGED <<ledger, entries>>
  BY <1>1, <1>3, <1>6 DEF Balance
<1> QED
  BY <1>4, <1>5, <1>6, StepKinds DEF Answer, Keeps, Step, InsertEntry, Close, vars

\* A request that passed the minimum check still has the minimum, unless an
\* entry of the same user to another raffle spent it.
THEOREM MinimumHeld == Spec => []MinimumHeldInRaffle
<1>1. Init => MinimumHeldInRaffle /\ DebitsHaveEntries
  BY DEF Init, MinimumHeldInRaffle, DebitsHaveEntries, Debits, Locked, Numbered, Charging, Spending
<1>2. TypeOK /\ DebitsHaveEntries /\ [Next]_vars => DebitsHaveEntries'
  BY DebitsStep
<1>3. TypeOK /\ LocksExclusive /\ NumbersStaged /\ DebitsHaveEntries /\ MinimumHeldInRaffle
      /\ [Next]_vars => MinimumHeldInRaffle'
  BY MinimumStep
<1> QED
  BY <1>1, <1>2, <1>3, TypeCorrect, LocksAreExclusive, NumbersAreStaged, PTL DEF Spec
-----------------------------------------------------------------------------
(***************************************************************************)
(* The promise.                                                            *)
(***************************************************************************)
\* One cell of a table of numbers is increased.
LEMMA OneCell ==
    ASSUME NEW U, NEW R, NEW f, NEW g, NEW user \in U, NEW raffle \in R,
           f = [u \in U |-> [r \in R |-> f[u][r]]],
           g = [u \in U |-> [r \in R |-> g[u][r]]],
           \A u \in U, r \in R : g[u][r] = IF u = user /\ r = raffle THEN f[u][r] + 1 ELSE f[u][r]
    PROVE  g = [f EXCEPT ![user][raffle] = @ + 1]
<1> DEFINE h == [f EXCEPT ![user][raffle] = @ + 1]
<1>1. h[user] = [f[user] EXCEPT ![raffle] = @ + 1] /\ \A u \in U \ {user} : h[u] = f[u]
  OBVIOUS
<1>2. ASSUME NEW u \in U PROVE h[u] = g[u]
  <2>1. g[u] = [r \in R |-> g[u][r]] /\ f[u] = [r \in R |-> f[u][r]]
    OBVIOUS
  <2> QED
    BY <1>1, <2>1, SMTT(30)
<1>3. h = [u \in U |-> h[u]]
  OBVIOUS
<1> HIDE DEF h
<1>4. h = g
  BY <1>2, <1>3
<1> QED
  BY <1>4 DEF h

LEMMA BookInit == ASSUME Init PROVE Promise!Init
<1>1. ledger = {} /\ entries = {} /\ entryCount = [r \in Raffles |-> 0]
  BY DEF Init
<1>2. \A u \in Users : Balance(u) = 0
  BY <1>1, FS_EmptySet, BalanceType DEF Balance, IntDeltas
<1>3. \A u \in Users, r \in Raffles : EntriesBy(u, r) = {}
  BY <1>1 DEF EntriesBy, EntriesOf
<1>4. \A u \in Users, r \in Raffles : Cardinality(EntriesBy(u, r)) = 0
  BY <1>3, FS_EmptySet
<1>5. PaidStakes = {}
  BY <1>1 DEF PaidStakes
<1> QED
  BY <1>1, <1>2, <1>4, <1>5 DEF Promise!Init

LEMMA BookStep ==
    ASSUME TypeOK, EntryInv, [Next]_vars
    PROVE  [Promise!Next]_Promise!vars
<1> DEFINE balance == [u \in Users |-> Balance(u)]
           bought == [u \in Users |-> [r \in Raffles |-> Cardinality(EntriesBy(u, r))]]
<1>1. ASSUME NEW t \in Requests, Commit(t) PROVE Promise!Next
  <2> DEFINE user == UserOf[t]
             raffle == RaffleOf[t]
  <2>1. /\ pc[t] = "commit" /\ "commit" \in Numbered /\ "commit" \in Locked \ {"limit"}
        /\ user \in Users /\ raffle \in Raffles
    BY <1>1, ConstantsAssumption
    DEF Commit, ConstantsAssumption, Locked, Numbered, Charging, Spending
  <2>2. Balance(user) >= EntryCost[raffle] /\ BelowLimit(t)
    BY <2>1 DEF EntryInv, CommitAffordable, CommitBelowLimit
  <2>3. balance' = [balance EXCEPT ![user] = @ - EntryCost[raffle]]
    <3>1. \A u \in Users : Balance(u)' = IF u = user THEN Balance(u) - EntryCost[raffle]
                                         ELSE Balance(u)
      BY <1>1, CommitBalance DEF EntryInv
    <3> QED
      BY <2>1, <3>1
  <2>4. entries' = entries \cup {NewEntry(t)} /\ NewEntry(t) \notin entries
    BY <1>1, CommitEntry DEF EntryInv
  <2>5. \A u \in Users, r \in Raffles :
            Cardinality(EntriesBy(u, r))' = IF u = user /\ r = raffle
                                            THEN Cardinality(EntriesBy(u, r)) + 1
                                            ELSE Cardinality(EntriesBy(u, r))
    <3> SUFFICES ASSUME NEW u \in Users, NEW r \in Raffles
                 PROVE  Cardinality(EntriesBy(u, r)') =
                            IF u = user /\ r = raffle THEN Cardinality(EntriesBy(u, r)) + 1
                            ELSE Cardinality(EntriesBy(u, r))
      OBVIOUS
    <3>1. CASE u = user /\ r = raffle
      <4>1. EntriesBy(u, r)' = EntriesBy(u, r) \cup {NewEntry(t)}
        BY <2>4, <3>1 DEF EntriesBy, EntriesOf, NewEntry
      <4>2. Cardinality(EntriesBy(u, r) \cup {NewEntry(t)}) = Cardinality(EntriesBy(u, r)) + 1
        BY <2>4, OneMore DEF EntriesBy, EntriesOf, TypeOK
      <4> QED
        BY <3>1, <4>1, <4>2
    <3>2. CASE ~(u = user /\ r = raffle)
      <4>1. EntriesBy(u, r)' = EntriesBy(u, r)
        BY <2>4, <3>2 DEF EntriesBy, EntriesOf, NewEntry
      <4> QED
        BY <3>2, <4>1
    <3> QED
      BY <3>1, <3>2
  <2>6. bought' = [bought EXCEPT ![user][raffle] = @ + 1]
    <3> DEFINE now == bought'
    <3>1. \A u \in Users, r \in Raffles :
              /\ bought[u][r] = Cardinality(EntriesBy(u, r))
              /\ now[u][r] = Cardinality(EntriesBy(u, r))'
      OBVIOUS
    <3>2. /\ bought = [u \in Users |-> [r \in Raffles |-> bought[u][r]]]
          /\ now = [u \in Users |-> [r \in Raffles |-> now[u][r]]]
      OBVIOUS
    <3> HIDE DEF bought, now, user, raffle
    <3>3. \A u \in Users, r \in Raffles :
              now[u][r] = IF u = user /\ r = raffle THEN bought[u][r] + 1 ELSE bought[u][r]
      BY <2>5, <3>1
    <3>4. now = [bought EXCEPT ![user][raffle] = @ + 1]
      BY <2>1, <3>2, <3>3, OneCell, SMTT(30)
    <3> QED
      BY <3>4 DEF now
  <2>7. bought[user][raffle] = Cardinality(EntriesBy(user, raffle)) /\ balance[user] = Balance(user)
    BY <2>1
  <2>8. entryCount' = [entryCount EXCEPT ![raffle] = @ + 1]
    BY <1>1 DEF Commit
  <2>9. PaidStakes' = PaidStakes
    BY <1>1 DEF PaidStakes, Commit, DebitRow
  <2> HIDE DEF balance, bought
  <2>10. /\ balance[user] >= EntryCost[raffle]
         /\ MaxEntriesPerUser[raffle] # Null => bought[user][raffle] < MaxEntriesPerUser[raffle]
    BY <2>2, <2>7 DEF BelowLimit
  <2>11. Promise!Enter(user, raffle)
    BY <2>3, <2>6, <2>8, <2>9, <2>10 DEF Promise!Enter, balance, bought
  <2> QED
    BY <2>1, <2>11 DEF Promise!Next
<1>2. ASSUME NEW s \in Stakes, Credit(s) PROVE Promise!Next
  <2>1. \A u \in Users : Balance(u)' = IF u = StakeOwner[s] THEN Balance(u) + StakeTickets[s]
                                       ELSE Balance(u)
    BY <1>2, CreditBalance
  <2>2. StakeOwner[s] \in Users
    BY ConstantsAssumption DEF ConstantsAssumption
  <2>3. balance' = [balance EXCEPT ![StakeOwner[s]] = @ + StakeTickets[s]]
    BY <2>1, <2>2
  <2>4. UNCHANGED <<entries, entryCount>>
    BY <1>2 DEF Credit
  <2>5. bought' = bought
    BY <2>4 DEF EntriesBy, EntriesOf
  <2>6. s \notin PaidStakes /\ PaidStakes' = PaidStakes \cup {s}
    <3> DEFINE row == CreditRow(StakeOwner[s], StakeTickets[s], s)
    <3>1. ledger' = ledger \cup {row} /\ row.reason = "STAKE_REWARD" /\ row.source = s
      BY <1>2 DEF Credit, CreditRow
    <3> HIDE DEF row
    <3>2. s \notin PaidStakes
      BY <1>2 DEF Credit, CanCredit, PaidStakes
    <3>3. \A z \in Stakes : z \in PaidStakes' <=> z \in PaidStakes \/ z = s
      BY <3>1 DEF PaidStakes
    <3>4. PaidStakes \subseteq Stakes /\ PaidStakes' \subseteq Stakes
      BY DEF PaidStakes
    <3> QED
      BY <3>2, <3>3, <3>4
  <2>7. Promise!Credit(s)
    BY <2>3, <2>4, <2>5, <2>6 DEF Promise!Credit
  <2> QED
    BY <2>7 DEF Promise!Next
<1>3. CASE UNCHANGED <<ledger, entries, entryCount>>
  <2>1. balance' = balance /\ bought' = bought /\ PaidStakes' = PaidStakes
    BY <1>3 DEF Balance, EntriesBy, EntriesOf, PaidStakes
  <2> QED
    BY <1>3, <2>1 DEF Promise!vars
<1> QED
  BY <1>1, <1>2, <1>3, StepKinds DEF Answer, Keeps, Step, InsertEntry, Close, vars

\* Statement by statement, entering a raffle is the indivisible purchase that
\* module EntryBook describes.
THEOREM Implements == Spec => ImplementsBook
<1>1. Init => Promise!Init
  BY BookInit
<1>2. TypeOK /\ EntryInv /\ [Next]_vars => [Promise!Next]_Promise!vars
  BY BookStep
<1> QED
  BY <1>1, <1>2, TypeCorrect, Inductive, PTL DEF Spec, ImplementsBook, Promise!Spec
=============================================================================
