SPECIFICATION Spec
CONSTANTS
    alice = alice
    bob = bob
    gold = gold
    silver = silver
    a1 = a1
    a2 = a2
    a3 = a3
    b1 = b1
    s1 = s1
    s2 = s2
    Null = Null
    Users = {alice, bob}
    Raffles = {gold, silver}
    Requests = {a1, a2, a3, b1}
    Stakes = {s1, s2}
    MaxNumber = 4
    EntryCost <- MCEntryCost
    MinTicketsToEnter <- MCMinTicketsToEnter
    MaxEntriesPerUser <- MCMaxEntriesPerUser
    HoldersOnly <- MCHoldersOnly
    UserOf <- MCUserOf
    RaffleOf <- MCRaffleOf
    StakeOwner <- MCStakeOwner
    StakeTickets <- MCStakeTickets
INVARIANTS
    TypeOK
    EntryInv
    BalanceNeverNegative
    EntriesPaidOnce
    CountMatchesEntries
    LimitRespected
    MinimumHeldInRaffle
    DeadlocksSpanRaffles
PROPERTIES
    ImplementsBook
    CommitsInNumberOrder
CHECK_DEADLOCK FALSE
