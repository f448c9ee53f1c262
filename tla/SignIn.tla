------------------------------- MODULE SignIn -------------------------------
(***************************************************************************)
(* Sign-In-With-Ethereum: AuthService.issueNonce and verifySignature on    *)
(* the rows of users.  verifySignature reads the row, waits for the        *)
(* library to check the signature, and then updates the row by its key;    *)
(* nothing is locked in between.                                           *)
(*                                                                         *)
(* A nonce is a number in the order of issue, for generateNonce never      *)
(* repeats itself; Null is one that was generated and given to nobody.     *)
(***************************************************************************)
EXTENDS Integers, Sequences

CONSTANTS
    Wallets,    \* addresses, lowercased
    Calls,      \* concurrent calls of verifySignature
    NonceTtl,   \* NONCE_TTL_MS
    MaxNonce,   \* bound: last nonce issued
    MaxTime,    \* bound: last moment of the clock
    Null

ASSUME ConstantsAssumption ==
    /\ NonceTtl \in Nat
    /\ MaxNonce \in Nat /\ MaxTime \in Nat
    /\ Null \notin Nat

VARIABLES
    user,       \* the row of a wallet in users, Null for none
    answers,    \* what issueNonce answered; a wallet may sign any of it, again and again
    nextNonce,  \* nonces issued so far, plus one
    logins,     \* updates of lastLoginAt, in their order
    now,        \* the clock
    pc, call    \* the next step of a call of verifySignature, and what it has read

vars == <<user, answers, nextNonce, logins, now, pc, call>>
-----------------------------------------------------------------------------
Nonces == 1 .. MaxNonce

UserRow == [nonce : Nonces \cup {Null}, nonceExpiresAt : Nat \cup {Null}, isBanned : BOOLEAN]

NonceAnswer == [walletAddress : Wallets, nonce : Nonces, expiresAt : Nat]

\* What a call knows: its message; the nonce it read, when, and after how many
\* logins.
Reading == [message : NonceAnswer, nonce : Nonces \cup {Null}, at : Nat, after : Nat]

ASSUME NullAssumption == Null \notin UserRow \cup Reading

Login == [message : NonceAnswer, at : Nat, after : Nat]

Wallet(c) == call[c].message.walletAddress
-----------------------------------------------------------------------------
\* Mutant of IssueNonce: the nonce has expired before it is answered.
IssueNonceExpired(w) ==
    /\ nextNonce <= MaxNonce
    /\ user' = [user EXCEPT ![w] =
           [nonce |-> nextNonce, nonceExpiresAt |-> now - NonceTtl,
            isBanned |-> IF user[w] = Null THEN FALSE ELSE user[w].isBanned]]
    /\ answers' = answers \cup
           {[walletAddress |-> w, nonce |-> nextNonce, expiresAt |-> now - NonceTtl]}
    /\ nextNonce' = nextNonce + 1
    /\ UNCHANGED <<logins, now, pc, call>>

\* issueNonce: one upsert; an earlier nonce of the wallet is overwritten.  (The
\* expiry is computed just before it, which could only make it earlier.)
IssueNonce(w) ==
    /\ nextNonce <= MaxNonce
    /\ user' = [user EXCEPT ![w] =
           [nonce |-> nextNonce, nonceExpiresAt |-> now + NonceTtl,
            isBanned |-> IF user[w] = Null THEN FALSE ELSE user[w].isBanned]]
    /\ answers' = answers \cup
           {[walletAddress |-> w, nonce |-> nextNonce, expiresAt |-> now + NonceTtl]}
    /\ nextNonce' = nextNonce + 1
    /\ UNCHANGED <<logins, now, pc, call>>

\* Mutant of VerifySignature: the nonce's expiry is not checked.
VerifySignatureLate(c, message) ==
    LET row == user[message.walletAddress]
    IN  /\ pc[c] = "idle"
        /\ row # Null
        /\ ~row.isBanned
        /\ row.nonceExpiresAt # Null
        /\ pc' = [pc EXCEPT ![c] = "verify"]
        /\ call' = [call EXCEPT ![c] =
               [message |-> message, nonce |-> row.nonce, at |-> now, after |-> Len(logins)]]
        /\ UNCHANGED <<user, answers, nextNonce, logins, now>>

\* verifySignature up to siwe.verify: the row is read and checked
VerifySignature(c, message) ==
    LET row == user[message.walletAddress]
    IN  /\ pc[c] = "idle"
        /\ row # Null
        /\ ~row.isBanned
        /\ row.nonceExpiresAt # Null /\ now <= row.nonceExpiresAt
        /\ pc' = [pc EXCEPT ![c] = "verify"]
        /\ call' = [call EXCEPT ![c] =
               [message |-> message, nonce |-> row.nonce, at |-> now, after |-> Len(logins)]]
        /\ UNCHANGED <<user, answers, nextNonce, logins, now>>

Answer(c) ==
    /\ pc' = [pc EXCEPT ![c] = "idle"]
    /\ call' = [call EXCEPT ![c] = Null]

\* Mutant of Verified: siwe.verify is not told which nonce to expect.
VerifiedAnyNonce(c) ==
    /\ pc[c] = "verify"
    /\ pc' = [pc EXCEPT ![c] = "burn"]
    /\ UNCHANGED <<user, answers, nextNonce, logins, now, call>>

\* siwe.verify: the message carries the nonce that was read
Verified(c) ==
    /\ pc[c] = "verify"
    /\ call[c].message.nonce = call[c].nonce
    /\ pc' = [pc EXCEPT ![c] = "burn"]
    /\ UNCHANGED <<user, answers, nextNonce, logins, now, call>>

\* siwe.verify throws: another nonce, another domain, a wrong signature
Refused(c) ==
    /\ pc[c] = "verify"
    /\ Answer(c)
    /\ UNCHANGED <<user, answers, nextNonce, logins, now>>

LoginOf(c) == [message |-> call[c].message, at |-> call[c].at, after |-> call[c].after]

\* Mutant of BurnNonce: only lastLoginAt is updated.
BurnNonceNot(c) ==
    /\ pc[c] = "burn"
    /\ logins' = Append(logins, LoginOf(c))
    /\ Answer(c)
    /\ UNCHANGED <<user, answers, nextNonce, now>>

\* Mutant of BurnNonce: nonceExpiresAt is left alone.
BurnNonceKeepExpiry(c) ==
    /\ pc[c] = "burn"
    /\ user' = [user EXCEPT ![Wallet(c)].nonce = Null]
    /\ logins' = Append(logins, LoginOf(c))
    /\ Answer(c)
    /\ UNCHANGED <<answers, nextNonce, now>>

\* user.update by the row's key: whatever nonce the row has by now is replaced
\* by one that nobody is told, and the session is answered
BurnNonce(c) ==
    /\ pc[c] = "burn"
    /\ user' = [user EXCEPT ![Wallet(c)].nonce = Null, ![Wallet(c)].nonceExpiresAt = Null]
    /\ logins' = Append(logins, LoginOf(c))
    /\ Answer(c)
    /\ UNCHANGED <<answers, nextNonce, now>>

\* A lost connection, a crash of the server
Crash(c) ==
    /\ pc[c] # "idle"
    /\ Answer(c)
    /\ UNCHANGED <<user, answers, nextNonce, logins, now>>

\* The operator bans a wallet, or lifts the ban, in the database.
SetBanned(w) ==
    /\ user[w] # Null
    /\ user' = [user EXCEPT ![w].isBanned = ~@]
    /\ UNCHANGED <<answers, nextNonce, logins, now, pc, call>>

Tick ==
    /\ now < MaxTime
    /\ now' = now + 1
    /\ UNCHANGED <<user, answers, nextNonce, logins, pc, call>>
-----------------------------------------------------------------------------
Init ==
    /\ user = [w \in Wallets |-> Null]
    /\ answers = {}
    /\ nextNonce = 1
    /\ logins = <<>>
    /\ now = 0
    /\ pc = [c \in Calls |-> "idle"]
    /\ call = [c \in Calls |-> Null]

Next ==
    \/ \E w \in Wallets : IssueNonce(w) \/ SetBanned(w)
    \/ \E c \in Calls :
           \/ \E message \in answers : VerifySignature(c, message)
           \/ Verified(c) \/ Refused(c) \/ BurnNonce(c) \/ Crash(c)
    \/ Tick

Spec == Init /\ [][Next]_vars
-----------------------------------------------------------------------------
TypeOK ==
    /\ user \in [Wallets -> UserRow \cup {Null}]
    /\ answers \subseteq NonceAnswer
    /\ nextNonce \in 1 .. MaxNonce + 1
    /\ logins \in Seq(Login)
    /\ now \in 0 .. MaxTime
    /\ pc \in [Calls -> {"idle", "verify", "burn"}]
    /\ call \in [Calls -> Reading \cup {Null}]
    /\ \A c \in Calls : pc[c] # "idle" => call[c] \in Reading /\ user[Wallet(c)] # Null

\* A replay that comes too late: a verification that begins after a signature
\* has signed in (auth.service.ts:94 burned its nonce) never signs in with it,
\* whatever nonces are issued, burnt and taken along meanwhile.  Calls that
\* overlap are not refused: OneSignatureOneLogin below is violated.
ReplayRefused ==
    \A i, j \in DOMAIN logins :
        i < j /\ logins[i].message = logins[j].message => logins[j].after < i

\* auth.service.ts:56: "The message's nonce is the one WE issued and has not
\* expired": nonce and expiry come from one read of the row, so a login never
\* combines an old signature with the expiry of a younger nonce.
LoginsInTime ==
    \A i \in DOMAIN logins :
        /\ logins[i].message \in answers
        /\ logins[i].at <= logins[i].message.expiresAt

\* An expiry that is set is the expiry of the nonce beside it, which was answered
\* to this wallet: no update leaves half of an earlier one behind.
ExpiryOfNonce ==
    \A w \in Wallets :
        user[w] # Null /\ user[w].nonceExpiresAt # Null =>
            [walletAddress |-> w, nonce |-> user[w].nonce,
             expiresAt |-> user[w].nonceExpiresAt] \in answers

\* auth.service.ts:93-101: the update names the row and not the nonce it burns, so
\* a slow login can take a younger nonce with it.  That is all that can happen:
\* a nonce leaves its row for a younger one, or with a login of the same wallet
\* that was signed with it or had read the row before it was issued; never with
\* a refused call, another wallet's login, or one that began after its issue.
Valid(w) == user[w] # Null /\ user[w].nonceExpiresAt # Null
SupersededBy(w) == user'[w].nonceExpiresAt # Null /\ user'[w].nonce > user[w].nonce
BurntWith(c, w) ==
    /\ pc[c] = "burn" /\ pc'[c] = "idle" /\ Wallet(c) = w
    /\ call[c].message.nonce = user[w].nonce \/ call[c].nonce < user[w].nonce
NonceLostWithCause ==
    [][\A w \in Wallets :
           Valid(w) /\ (~Valid(w)' \/ user'[w].nonce # user[w].nonce) =>
               SupersededBy(w) \/ \E c \in Calls : BurntWith(c, w)]_vars

(***************************************************************************)
(* The inductive invariant behind the safety properties.                   *)
(***************************************************************************)
\* Nonces are answered once, and a burnt nonce is in no row.
NoncesDistinct ==
    /\ \A a \in answers : a.nonce < nextNonce
    /\ \A a, b \in answers : a.nonce = b.nonce => a = b
    /\ \A w \in Wallets, i \in DOMAIN logins :
           user[w] # Null /\ user[w].nonceExpiresAt # Null =>
               logins[i].message.nonce # user[w].nonce

\* The nonce a call read was burned by nobody before the read, and by then its
\* message had not expired.
ReadingsSound ==
    \A c \in Calls : pc[c] # "idle" =>
        /\ call[c].message \in answers
        /\ call[c].after <= Len(logins)
        /\ pc[c] = "burn" => call[c].message.nonce = call[c].nonce
        /\ call[c].message.nonce = call[c].nonce =>
               /\ call[c].at <= call[c].message.expiresAt
               /\ \A i \in DOMAIN logins :
                      logins[i].message = call[c].message => call[c].after < i

SignInInv ==
    /\ NoncesDistinct
    /\ ExpiryOfNonce
    /\ ReadingsSound
    /\ ReplayRefused
    /\ LoginsInTime

(***************************************************************************)
(* What the repository says of a signature, and does not hold.             *)
(***************************************************************************)
\* API.md:49-50: "A signature is single-use.  The nonce rotates on every
\* successful login, so replaying the same signature returns 401", and
\* auth.service.ts:92-93: "One signature, one login."  Two calls that both read
\* the row before either update (auth.service.ts:69, :94) both sign in.
OneSignatureOneLogin ==
    \A i, j \in DOMAIN logins : logins[i].message = logins[j].message => i = j
=============================================================================
