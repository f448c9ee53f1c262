---------------------------- MODULE SignInProofs ----------------------------
(***************************************************************************)
(* The safety properties of signing in, for any number of wallets and of   *)
(* overlapping calls, whatever is issued, banned and cut off meanwhile.    *)
(***************************************************************************)
EXTENDS SignIn, TLAPS

\* What Append does to the indices and the members of a sequence.
LEMMA AppendLogin ==
    ASSUME NEW S, NEW seq \in Seq(S), NEW e \in S
    PROVE  LET new == Append(seq, e)
               last == Len(seq) + 1
           IN  /\ new \in Seq(S)
               /\ DOMAIN seq = 1 .. Len(seq)
               /\ DOMAIN new = DOMAIN seq \cup {last}
               /\ Len(new) = last
               /\ \A i \in DOMAIN seq : new[i] = seq[i]
               /\ new[last] = e
  OBVIOUS

\* What a login records, and what it changes in the row.
LEMMA Burns ==
    ASSUME TypeOK, NEW c \in Calls, BurnNonce(c)
    PROVE  /\ call[c] \in Reading /\ LoginOf(c) \in Login /\ Wallet(c) \in Wallets
           /\ user' \in [Wallets -> UserRow \cup {Null}]
           /\ \A w \in Wallets : user'[w] = Null <=> user[w] = Null
           /\ \A w \in Wallets : user'[w] # Null /\ user'[w].nonceExpiresAt # Null =>
                  w # Wallet(c) /\ user'[w] = user[w]
<1> DEFINE new == [user[Wallet(c)] EXCEPT !.nonce = Null, !.nonceExpiresAt = Null]
<1>1. call[c] \in Reading /\ user[Wallet(c)] # Null
  BY DEF BurnNonce, TypeOK
<1>2. LoginOf(c) \in Login /\ Wallet(c) \in Wallets
  BY <1>1 DEF Reading, LoginOf, Login, Wallet, NonceAnswer
<1>3. user' = [user EXCEPT ![Wallet(c)] = new]
  <2>1. user \in [Wallets -> UserRow \cup {Null}]
    BY DEF TypeOK
  <2> QED
    BY <2>1, <1>2 DEF BurnNonce
<1>4. new \in UserRow /\ new.nonceExpiresAt = Null /\ new # Null
  BY <1>1, <1>2, NullAssumption DEF TypeOK, UserRow
<1> HIDE DEF new
<1> QED
  BY <1>1, <1>2, <1>3, <1>4 DEF TypeOK

\* What a sign-in that begins has read.
LEMMA Begins ==
    ASSUME TypeOK, NEW c \in Calls, NEW message \in answers, VerifySignature(c, message)
    PROVE  /\ message \in NonceAnswer
           /\ user[message.walletAddress] \in UserRow
           /\ call'[c] \in Reading
           /\ call'[c].message = message
           /\ call'[c].nonce = user[message.walletAddress].nonce
           /\ call'[c].at = now /\ call'[c].after = Len(logins)
           /\ pc'[c] = "verify"
           /\ \A x \in Calls \ {c} : pc'[x] = pc[x] /\ call'[x] = call[x]
           /\ call' \in [Calls -> Reading \cup {Null}]
<1> DEFINE reading == [message |-> message, nonce |-> user[message.walletAddress].nonce,
                       at |-> now, after |-> Len(logins)]
<1>1. message \in NonceAnswer /\ message.walletAddress \in Wallets
  BY DEF TypeOK, NonceAnswer
<1>2. user[message.walletAddress] \in UserRow
  BY <1>1 DEF VerifySignature, TypeOK
<1>3. reading \in Reading
  BY <1>1, <1>2 DEF Reading, UserRow, TypeOK
<1>4. call' = [call EXCEPT ![c] = reading] /\ pc' = [pc EXCEPT ![c] = "verify"]
  BY DEF VerifySignature
<1> QED
  BY <1>1, <1>2, <1>3, <1>4 DEF TypeOK

\* Initially nobody has asked for a nonce.
LEMMA SignInInit == ASSUME Init PROVE TypeOK /\ SignInInv
<1> USE ConstantsAssumption DEF ConstantsAssumption, Init
<1>1. TypeOK
  BY DEF TypeOK
<1>2. NoncesDistinct /\ ExpiryOfNonce /\ ReadingsSound /\ ReplayRefused /\ LoginsInTime
  BY DEF NoncesDistinct, ExpiryOfNonce, ReadingsSound, ReplayRefused, LoginsInTime
<1> QED
  BY <1>1, <1>2 DEF SignInInv

\* Every step keeps the types.
LEMMA TypeNext == ASSUME TypeOK, [Next]_vars PROVE TypeOK'
<1> USE ConstantsAssumption, NullAssumption DEF ConstantsAssumption
<1>1. ASSUME NEW w \in Wallets, IssueNonce(w) PROVE TypeOK'
  <2> DEFINE row == [nonce |-> nextNonce, nonceExpiresAt |-> now + NonceTtl,
                     isBanned |-> IF user[w] = Null THEN FALSE ELSE user[w].isBanned]
  <2>1. nextNonce \in Nonces /\ now + NonceTtl \in Nat
    BY <1>1 DEF IssueNonce, TypeOK, Nonces
  <2>2. row \in UserRow
    <3>1. (IF user[w] = Null THEN FALSE ELSE user[w].isBanned) \in BOOLEAN
      BY DEF TypeOK, UserRow
    <3> QED
      BY <2>1, <3>1 DEF UserRow
  <2>3. user' = [user EXCEPT ![w] = row]
    BY <1>1 DEF IssueNonce
  <2>4. answers' \subseteq NonceAnswer /\ nextNonce' \in 1 .. MaxNonce + 1
    BY <1>1, <2>1 DEF IssueNonce, TypeOK, NonceAnswer, Nonces
  <2> HIDE DEF row
  <2>5. user' \in [Wallets -> UserRow \cup {Null}]
        /\ \A v \in Wallets : user[v] # Null => user'[v] # Null
    BY <2>2, <2>3 DEF TypeOK
  <2> QED
    BY <1>1, <2>4, <2>5 DEF IssueNonce, TypeOK, Wallet, Reading, NonceAnswer
<1>2. ASSUME NEW w \in Wallets, SetBanned(w) PROVE TypeOK'
  <2> DEFINE row == [user[w] EXCEPT !.isBanned = ~user[w].isBanned]
  <2>1. row \in UserRow
    BY <1>2, ZenonT(60) DEF SetBanned, TypeOK, UserRow
  <2>2. user' = [user EXCEPT ![w] = row]
    BY <1>2 DEF SetBanned, TypeOK
  <2> HIDE DEF row
  <2>3. user' \in [Wallets -> UserRow \cup {Null}]
        /\ \A v \in Wallets : user[v] # Null => user'[v] # Null
    BY <2>1, <2>2 DEF TypeOK
  <2> QED
    BY <1>2, <2>3 DEF SetBanned, TypeOK, Wallet, Reading, NonceAnswer
<1>3. ASSUME NEW c \in Calls, NEW message \in answers, VerifySignature(c, message)
      PROVE  TypeOK'
  <2>1. user[message.walletAddress] # Null
    BY <1>3 DEF VerifySignature
  <2>2. pc' \in [Calls -> {"idle", "verify", "burn"}]
    BY <1>3 DEF VerifySignature, TypeOK
  <2> QED
    BY <1>3, <2>1, <2>2, Begins, ZenonT(60) DEF VerifySignature, TypeOK, Wallet
<1>4. ASSUME NEW c \in Calls, Verified(c) PROVE TypeOK'
  BY <1>4 DEF Verified, TypeOK, Wallet
<1>5. ASSUME NEW c \in Calls, Refused(c) \/ Crash(c) PROVE TypeOK'
  BY <1>5 DEF Refused, Crash, Answer, TypeOK, Wallet
<1>6. ASSUME NEW c \in Calls, BurnNonce(c) PROVE TypeOK'
  <2>1. logins' \in Seq(Login)
    BY <1>6, Burns, AppendLogin DEF BurnNonce, TypeOK
  <2>2. \A x \in Calls : pc'[x] # "idle" => pc[x] # "idle" /\ call'[x] = call[x]
    BY <1>6 DEF BurnNonce, Answer, TypeOK
  <2>3. \A x \in Calls : call[x] \in Reading => Wallet(x) \in Wallets
    BY DEF Wallet, Reading, NonceAnswer
  <2>4. \A x \in Calls : pc'[x] # "idle" => call'[x] \in Reading /\ user'[Wallet(x)'] # Null
    BY <1>6, <2>2, <2>3, Burns DEF TypeOK, Wallet
  <2> QED
    BY <1>6, <2>1, <2>4, Burns DEF BurnNonce, Answer, TypeOK, Wallet
<1>7. CASE Tick
  BY <1>7 DEF Tick, TypeOK, Wallet
<1>8. CASE UNCHANGED vars
  BY <1>8 DEF vars, TypeOK, Wallet
<1> QED
  BY <1>1, <1>2, <1>3, <1>4, <1>5, <1>6, <1>7, <1>8 DEF Next

\* A step that leaves logins, answers and readings alone, and changes no nonce.
LEMMA Frame ==
    ASSUME TypeOK, SignInInv, answers' = answers, nextNonce' = nextNonce, logins' = logins,
           \A w \in Wallets : user'[w] # Null =>
               /\ user[w] # Null
               /\ user'[w].nonce = user[w].nonce
               /\ user'[w].nonceExpiresAt = user[w].nonceExpiresAt,
           \A c \in Calls : pc'[c] # "idle" =>
               /\ pc[c] # "idle" /\ call'[c] = call[c]
               /\ pc'[c] = "burn" => call[c].message.nonce = call[c].nonce
    PROVE  SignInInv'
<1>1. NoncesDistinct'
  BY DEF SignInInv, NoncesDistinct
<1>2. ExpiryOfNonce'
  BY DEF SignInInv, ExpiryOfNonce
<1>3. ReadingsSound'
  BY DEF SignInInv, ReadingsSound
<1>4. ReplayRefused' /\ LoginsInTime'
  BY DEF SignInInv, ReplayRefused, LoginsInTime
<1> QED
  BY <1>1, <1>2, <1>3, <1>4 DEF SignInInv

\* A nonce that is issued is new to every row and to every login.
LEMMA InvIssue ==
    ASSUME TypeOK, SignInInv, NEW w \in Wallets, IssueNonce(w)
    PROVE  SignInInv'
<1> DEFINE fresh == [walletAddress |-> w, nonce |-> nextNonce, expiresAt |-> now + NonceTtl]
<1>1. /\ answers' = answers \cup {fresh} /\ nextNonce' = nextNonce + 1
      /\ logins' = logins /\ pc' = pc /\ call' = call
  BY DEF IssueNonce
<1>2. /\ user'[w].nonce = nextNonce /\ user'[w].nonceExpiresAt = now + NonceTtl
      /\ \A v \in Wallets \ {w} : user'[v] = user[v]
  BY DEF IssueNonce, TypeOK
<1>3. nextNonce \in Nat /\ \A a \in answers : a.nonce \in Nat /\ a.nonce < nextNonce
  BY DEF TypeOK, NonceAnswer, Nonces, SignInInv, NoncesDistinct
<1>4. \A i \in DOMAIN logins : logins[i].message \in answers
  BY DEF SignInInv, LoginsInTime
<1>5. NoncesDistinct'
  <2>1. \A a \in answers' : a.nonce < nextNonce'
    BY <1>1, <1>3
  <2>2. \A a, b \in answers' : a.nonce = b.nonce => a = b
    BY <1>1, <1>3 DEF SignInInv, NoncesDistinct
  <2>3. ASSUME NEW v \in Wallets, NEW i \in DOMAIN logins, user'[v] # Null,
               user'[v].nonceExpiresAt # Null
        PROVE  logins[i].message.nonce # user'[v].nonce
    <3>1. CASE v = w
      BY <3>1, <1>2, <1>3, <1>4
    <3>2. CASE v # w
      BY <3>2, <2>3, <1>2 DEF SignInInv, NoncesDistinct
    <3> QED
      BY <3>1, <3>2
  <2> QED
    BY <1>1, <2>1, <2>2, <2>3 DEF NoncesDistinct
<1>6. ExpiryOfNonce'
  BY <1>1, <1>2 DEF SignInInv, ExpiryOfNonce
<1>7. ReadingsSound'
  BY <1>1 DEF SignInInv, ReadingsSound
<1>8. ReplayRefused' /\ LoginsInTime'
  BY <1>1 DEF SignInInv, ReplayRefused, LoginsInTime
<1> QED
  BY <1>5, <1>6, <1>7, <1>8 DEF SignInInv

\* Nonce and expiry come from one read, and the nonce of a row is not burnt.
LEMMA InvBegin ==
    ASSUME TypeOK, SignInInv, NEW c \in Calls, NEW message \in answers,
           VerifySignature(c, message)
    PROVE  SignInInv'
<1>1. /\ answers' = answers /\ nextNonce' = nextNonce /\ logins' = logins /\ user' = user
  BY DEF VerifySignature
<1>2. NoncesDistinct' /\ ExpiryOfNonce' /\ ReplayRefused' /\ LoginsInTime'
  BY <1>1 DEF SignInInv, NoncesDistinct, ExpiryOfNonce, ReplayRefused, LoginsInTime
<1>3. ASSUME message.nonce = user[message.walletAddress].nonce
      PROVE  /\ now <= message.expiresAt
             /\ \A i \in DOMAIN logins : logins[i].message # message
  <2> DEFINE w == message.walletAddress
  <2>1. w \in Wallets /\ user[w] # Null /\ user[w].nonceExpiresAt # Null
        /\ now <= user[w].nonceExpiresAt
    BY DEF VerifySignature, TypeOK, NonceAnswer
  <2>2. [walletAddress |-> w, nonce |-> user[w].nonce,
         expiresAt |-> user[w].nonceExpiresAt] \in answers
    BY <2>1 DEF SignInInv, ExpiryOfNonce
  <2>3. message.expiresAt = user[w].nonceExpiresAt
    BY <1>3, <2>2 DEF SignInInv, NoncesDistinct
  <2>4. \A i \in DOMAIN logins : logins[i].message.nonce # user[w].nonce
    BY <2>1 DEF SignInInv, NoncesDistinct
  <2> QED
    BY <1>3, <2>1, <2>3, <2>4
<1>4. ReadingsSound'
  <2> SUFFICES ASSUME NEW x \in Calls, pc'[x] # "idle"
               PROVE  /\ call'[x].message \in answers
                      /\ call'[x].after <= Len(logins)
                      /\ pc'[x] = "burn" => call'[x].message.nonce = call'[x].nonce
                      /\ call'[x].message.nonce = call'[x].nonce =>
                             /\ call'[x].at <= call'[x].message.expiresAt
                             /\ \A i \in DOMAIN logins :
                                    logins[i].message = call'[x].message => call'[x].after < i
    BY <1>1 DEF ReadingsSound
  <2>1. CASE x = c
    <3>1. Len(logins) <= Len(logins)
      BY DEF TypeOK
    <3> QED
      BY <2>1, <3>1, <1>3, Begins
  <2>2. CASE x # c
    BY <2>2, Begins DEF SignInInv, ReadingsSound
  <2> QED
    BY <2>1, <2>2
<1> QED
  BY <1>2, <1>4 DEF SignInInv

\* A login burns the nonce of its row, also when that is a younger one.
LEMMA InvBurn ==
    ASSUME TypeOK, SignInInv, NEW c \in Calls, BurnNonce(c)
    PROVE  SignInInv'
<1> DEFINE last == Len(logins) + 1
<1>1. /\ answers' = answers /\ nextNonce' = nextNonce /\ logins' = Append(logins, LoginOf(c))
      /\ pc[c] = "burn" /\ LoginOf(c) \in Login /\ logins \in Seq(Login)
  BY Burns DEF BurnNonce, TypeOK
<1>2. /\ DOMAIN logins = 1 .. Len(logins) /\ Len(logins) \in Nat
      /\ DOMAIN logins' = DOMAIN logins \cup {last} /\ Len(logins') = last
      /\ \A i \in DOMAIN logins : logins'[i] = logins[i]
      /\ logins'[last] = LoginOf(c)
  BY <1>1, AppendLogin
<1>3. \A x \in Calls : pc'[x] # "idle" => x # c /\ pc'[x] = pc[x] /\ call'[x] = call[x]
  BY DEF BurnNonce, Answer, TypeOK
<1>4. /\ LoginOf(c).message = call[c].message /\ LoginOf(c).at = call[c].at
      /\ LoginOf(c).after = call[c].after
      /\ call[c].message \in answers /\ call[c].after <= Len(logins)
      /\ call[c].at <= call[c].message.expiresAt
      /\ \A i \in DOMAIN logins : logins[i].message = call[c].message => call[c].after < i
  BY <1>1 DEF LoginOf, SignInInv, ReadingsSound
<1> HIDE DEF last
<1>5. NoncesDistinct'
  <2> SUFFICES ASSUME NEW w \in Wallets, NEW i \in DOMAIN logins', user'[w] # Null,
                      user'[w].nonceExpiresAt # Null
               PROVE  logins'[i].message.nonce # user'[w].nonce
    BY <1>1 DEF SignInInv, NoncesDistinct
  <2>1. w # Wallet(c) /\ user'[w] = user[w]
    BY Burns
  <2>2. CASE i \in DOMAIN logins
    BY <2>1, <2>2, <1>2 DEF SignInInv, NoncesDistinct
  <2>3. CASE i = last
    <3>1. [walletAddress |-> w, nonce |-> user[w].nonce,
           expiresAt |-> user[w].nonceExpiresAt] \in answers
      BY <2>1 DEF SignInInv, ExpiryOfNonce
    <3>2. call[c].message.walletAddress # w
      BY <2>1 DEF Wallet
    <3>3. call[c].message.nonce # user[w].nonce
      BY <3>1, <3>2, <1>4 DEF SignInInv, NoncesDistinct
    <3> QED
      BY <2>1, <2>3, <3>3, <1>2, <1>4
  <2> QED
    BY <2>2, <2>3, <1>2
<1>6. ExpiryOfNonce'
  BY <1>1, Burns DEF SignInInv, ExpiryOfNonce
<1>7. ReadingsSound'
  <2> SUFFICES ASSUME NEW x \in Calls, pc'[x] # "idle"
               PROVE  /\ call[x].message \in answers
                      /\ call[x].after <= Len(logins')
                      /\ pc[x] = "burn" => call[x].message.nonce = call[x].nonce
                      /\ call[x].message.nonce = call[x].nonce =>
                             /\ call[x].at <= call[x].message.expiresAt
                             /\ \A i \in DOMAIN logins' :
                                    logins'[i].message = call[x].message => call[x].after < i
    BY <1>1, <1>3 DEF ReadingsSound
  <2>1. /\ call[x].message \in answers
        /\ call[x].after <= Len(logins)
        /\ pc[x] = "burn" => call[x].message.nonce = call[x].nonce
        /\ call[x].message.nonce = call[x].nonce =>
               /\ call[x].at <= call[x].message.expiresAt
               /\ \A i \in DOMAIN logins :
                      logins[i].message = call[x].message => call[x].after < i
    BY <1>3 DEF SignInInv, ReadingsSound
  <2>2. call[x].after \in Nat
    BY <1>3 DEF TypeOK, Reading
  <2>3. call[x].after <= Len(logins') /\ call[x].after < last
    BY <2>1, <2>2, <1>2 DEF last
  <2> QED
    BY <2>1, <2>3, <1>2
<1>8. ReplayRefused'
  <2> SUFFICES ASSUME NEW i \in DOMAIN logins', NEW j \in DOMAIN logins', i < j,
                      logins'[i].message = logins'[j].message
               PROVE  logins'[j].after < i
    BY DEF ReplayRefused
  <2>1. CASE j \in DOMAIN logins
    <3>1. i \in DOMAIN logins
      BY <2>1, <1>2 DEF last
    <3> QED
      BY <2>1, <3>1, <1>2 DEF SignInInv, ReplayRefused
  <2>2. CASE j = last
    <3>1. i \in DOMAIN logins
      BY <2>2, <1>2 DEF last
    <3> QED
      BY <2>2, <3>1, <1>2, <1>4
  <2> QED
    BY <2>1, <2>2, <1>2
<1>9. LoginsInTime'
  BY <1>1, <1>2, <1>4 DEF SignInInv, LoginsInTime
<1> QED
  BY <1>5, <1>6, <1>7, <1>8, <1>9 DEF SignInInv

\* Every step keeps the invariant.
LEMMA InvNext == ASSUME TypeOK, SignInInv, [Next]_vars PROVE SignInInv'
<1>1. ASSUME NEW w \in Wallets, SetBanned(w) PROVE SignInInv'
  <2>1. \A v \in Wallets : user'[v] # Null =>
            /\ user[v] # Null
            /\ user'[v].nonce = user[v].nonce
            /\ user'[v].nonceExpiresAt = user[v].nonceExpiresAt
    <3>1. user[w] \in UserRow
      BY <1>1 DEF SetBanned, TypeOK
    <3> DEFINE row == [user[w] EXCEPT !.isBanned = ~user[w].isBanned]
    <3>2. row.nonce = user[w].nonce /\ row.nonceExpiresAt = user[w].nonceExpiresAt
      BY <3>1 DEF UserRow
    <3>3. user' = [user EXCEPT ![w] = row] /\ user[w] # Null
      BY <1>1 DEF SetBanned, TypeOK
    <3> HIDE DEF row
    <3> QED
      BY <3>2, <3>3 DEF TypeOK
  <2>2. \A c \in Calls : pc'[c] = "burn" => call[c].message.nonce = call[c].nonce
    BY <1>1 DEF SetBanned, SignInInv, ReadingsSound
  <2> QED
    BY <1>1, <2>1, <2>2, Frame DEF SetBanned
<1>2. ASSUME NEW c \in Calls, Verified(c) PROVE SignInInv'
  <2>1. \A x \in Calls : pc'[x] # "idle" =>
            /\ pc[x] # "idle" /\ call'[x] = call[x]
            /\ pc'[x] = "burn" => call[x].message.nonce = call[x].nonce
    BY <1>2 DEF Verified, TypeOK, SignInInv, ReadingsSound
  <2> QED
    BY <1>2, <2>1, Frame DEF Verified
<1>3. ASSUME NEW c \in Calls, Refused(c) \/ Crash(c) PROVE SignInInv'
  <2>1. \A x \in Calls : pc'[x] # "idle" =>
            /\ pc[x] # "idle" /\ call'[x] = call[x]
            /\ pc'[x] = "burn" => call[x].message.nonce = call[x].nonce
    BY <1>3 DEF Refused, Crash, Answer, TypeOK, SignInInv, ReadingsSound
  <2> QED
    BY <1>3, <2>1, Frame DEF Refused, Crash
<1>4. CASE Tick \/ UNCHANGED vars
  <2>1. \A c \in Calls : pc[c] = "burn" => call[c].message.nonce = call[c].nonce
    BY DEF SignInInv, ReadingsSound
  <2> QED
    BY <1>4, <2>1, Frame DEF Tick, vars
<1> QED
  BY <1>1, <1>2, <1>3, <1>4, InvIssue, InvBegin, InvBurn DEF Next
-----------------------------------------------------------------------------
\* The types and the invariant hold in every state.
THEOREM SignInInvariant == Spec => [](TypeOK /\ SignInInv)
<1>1. Init => TypeOK /\ SignInInv
  BY SignInInit
<1>2. TypeOK /\ SignInInv /\ [Next]_vars => (TypeOK /\ SignInInv)'
  BY TypeNext, InvNext
<1> QED
  BY <1>1, <1>2, PTL DEF Spec

\* The rows, the answers and the calls have their types.
THEOREM TypeCorrect == Spec => []TypeOK
  BY SignInInvariant, PTL

\* A signature that has signed in is refused by every verification that begins
\* later, for any number of calls and whatever nonces are issued in between.
\* (Calls that overlap may both sign in; this says nothing of them.)
THEOREM ReplaysRefused == Spec => []ReplayRefused
<1>1. SignInInv => ReplayRefused
  BY DEF SignInInv
<1> QED
  BY <1>1, SignInInvariant, PTL

\* Nobody signs in with a nonce whose own time had run out.
THEOREM InTime == Spec => []LoginsInTime
<1>1. SignInInv => LoginsInTime
  BY DEF SignInInv
<1> QED
  BY <1>1, SignInInvariant, PTL

\* An expiry stands beside the nonce it was answered with.
THEOREM ExpiryBelongs == Spec => []ExpiryOfNonce
<1>1. SignInInv => ExpiryOfNonce
  BY DEF SignInInv
<1> QED
  BY <1>1, SignInInvariant, PTL
-----------------------------------------------------------------------------
(***************************************************************************)
(* What becomes of a nonce.                                                *)
(***************************************************************************)
\* The nonce in a row is never older than one that was read from it.
NoncesGrow ==
    \A c \in Calls : pc[c] # "idle" =>
        /\ call[c].nonce \in Nonces /\ call[c].nonce < nextNonce
        /\ Valid(Wallet(c)) => call[c].nonce <= user[Wallet(c)].nonce

\* The nonce of a row that has an expiry was issued.
LEMMA ValidNonce ==
    ASSUME TypeOK, SignInInv, NEW w \in Wallets, Valid(w)
    PROVE  user[w].nonce \in Nonces /\ user[w].nonce < nextNonce
<1> DEFINE answer == [walletAddress |-> w, nonce |-> user[w].nonce,
                      expiresAt |-> user[w].nonceExpiresAt]
<1>1. answer \in answers
  BY DEF SignInInv, ExpiryOfNonce, Valid
<1>2. answer \in NonceAnswer /\ answer.nonce < nextNonce
  BY <1>1 DEF TypeOK, SignInInv, NoncesDistinct
<1> QED
  BY <1>2 DEF NonceAnswer

\* A ban, or its end, leaves every nonce alone.
LEMMA BanKeepsNonce ==
    ASSUME TypeOK, NEW w \in Wallets, SetBanned(w), NEW v \in Wallets
    PROVE  /\ Valid(v)' <=> Valid(v)
           /\ Valid(v) => user'[v].nonce = user[v].nonce
<1> DEFINE row == [user[w] EXCEPT !.isBanned = ~user[w].isBanned]
<1>1. user[w] \in UserRow /\ user[w] # Null
  BY DEF SetBanned, TypeOK
<1>2. row \in UserRow
  BY <1>1 DEF UserRow
<1>3. row.nonce = user[w].nonce /\ row.nonceExpiresAt = user[w].nonceExpiresAt
  BY <1>1 DEF UserRow
<1>4. user' = [user EXCEPT ![w] = row]
  BY DEF SetBanned, TypeOK
<1> HIDE DEF row
<1>5. user'[v] = IF v = w THEN row ELSE user[v]
  BY <1>4 DEF TypeOK
<1> QED
  BY <1>1, <1>2, <1>3, <1>5, NullAssumption DEF Valid

LEMMA GrowNext ==
    ASSUME TypeOK, SignInInv, NoncesGrow, [Next]_vars
    PROVE  NoncesGrow'
<1>0. \A c \in Calls : pc[c] # "idle" => Wallet(c) \in Wallets
  BY DEF TypeOK, Reading, NonceAnswer, Wallet
<1>1. ASSUME NEW w \in Wallets, IssueNonce(w) PROVE NoncesGrow'
  <2>1. /\ user'[w].nonce = nextNonce /\ nextNonce' = nextNonce + 1 /\ nextNonce \in Nat
        /\ \A v \in Wallets \ {w} : user'[v] = user[v]
        /\ UNCHANGED <<pc, call>>
    BY <1>1 DEF IssueNonce, TypeOK
  <2> SUFFICES ASSUME NEW c \in Calls, pc[c] # "idle"
               PROVE  /\ call[c].nonce \in Nonces /\ call[c].nonce < nextNonce'
                      /\ Valid(Wallet(c))' => call[c].nonce <= user'[Wallet(c)].nonce
    BY <2>1 DEF NoncesGrow, Wallet
  <2>2. call[c].nonce \in Nat /\ call[c].nonce < nextNonce /\ call[c].nonce \in Nonces
    BY DEF NoncesGrow, Nonces
  <2>3. CASE Wallet(c) = w
    BY <2>1, <2>2, <2>3
  <2>4. CASE Wallet(c) # w
    BY <1>0, <2>1, <2>2, <2>4 DEF NoncesGrow, Valid, Wallet
  <2> QED
    BY <2>3, <2>4
<1>2. ASSUME NEW c \in Calls, NEW message \in answers, VerifySignature(c, message)
      PROVE  NoncesGrow'
  <2> DEFINE w == message.walletAddress
  <2>1. w \in Wallets /\ Valid(w) /\ user' = user /\ nextNonce' = nextNonce
    BY <1>2, Begins DEF VerifySignature, Valid, NonceAnswer
  <2>2. user[w].nonce \in Nonces /\ user[w].nonce < nextNonce /\ user[w].nonce <= user[w].nonce
    BY <2>1, ValidNonce DEF Nonces
  <2> QED
    BY <1>2, <2>1, <2>2, Begins DEF NoncesGrow, Wallet, Valid
<1>3. ASSUME \A x \in Calls : pc'[x] # "idle" => pc[x] # "idle" /\ call'[x] = call[x],
             nextNonce' = nextNonce,
             \A w \in Wallets : Valid(w)' => Valid(w) /\ user'[w].nonce = user[w].nonce
      PROVE  NoncesGrow'
  BY <1>0, <1>3 DEF NoncesGrow, Wallet
<1>4. ASSUME NEW c \in Calls, Verified(c) \/ Refused(c) \/ Crash(c) PROVE NoncesGrow'
  <2>1. \A x \in Calls : pc'[x] # "idle" => pc[x] # "idle" /\ call'[x] = call[x]
    BY <1>4 DEF Verified, Refused, Crash, Answer, TypeOK
  <2>2. UNCHANGED <<user, nextNonce>>
    BY <1>4 DEF Verified, Refused, Crash
  <2> QED
    BY <1>3, <2>1, <2>2 DEF Valid
<1>5. ASSUME NEW c \in Calls, BurnNonce(c) PROVE NoncesGrow'
  <2>1. \A x \in Calls : pc'[x] # "idle" => pc[x] # "idle" /\ call'[x] = call[x]
    BY <1>5 DEF BurnNonce, Answer, TypeOK
  <2>2. \A w \in Wallets : Valid(w)' => Valid(w) /\ user'[w].nonce = user[w].nonce
    BY <1>5, Burns DEF Valid
  <2>3. nextNonce' = nextNonce
    BY <1>5 DEF BurnNonce
  <2> QED
    BY <1>3, <2>1, <2>2, <2>3
<1>6. ASSUME NEW w \in Wallets, SetBanned(w) PROVE NoncesGrow'
  <2>1. \A v \in Wallets : Valid(v)' => Valid(v) /\ user'[v].nonce = user[v].nonce
    BY <1>6, BanKeepsNonce
  <2> QED
    BY <1>3, <1>6, <2>1 DEF SetBanned
<1>7. CASE Tick \/ UNCHANGED vars
  BY <1>3, <1>7 DEF Tick, vars, Valid
<1> QED
  BY <1>1, <1>2, <1>4, <1>5, <1>6, <1>7 DEF Next

\* A nonce is lost to a younger one, or to a login that was signed with it or
\* began before it was issued, for any number of calls.
THEOREM NonceLost == Spec => NonceLostWithCause
<1>1. Init => NoncesGrow
  BY DEF Init, NoncesGrow
<1>2. TypeOK /\ SignInInv /\ NoncesGrow /\ [Next]_vars => NoncesGrow'
  BY GrowNext
<1>3. ASSUME TypeOK, SignInInv, NoncesGrow, [Next]_vars, NEW w \in Wallets, Valid(w),
             ~Valid(w)' \/ user'[w].nonce # user[w].nonce
      PROVE  SupersededBy(w) \/ \E c \in Calls : BurntWith(c, w)
  <2>1. CASE IssueNonce(w)
    <3>1. user'[w].nonce = nextNonce /\ user'[w].nonceExpiresAt = now + NonceTtl
      BY <1>3, <2>1 DEF IssueNonce, TypeOK
    <3>2. now + NonceTtl # Null
      BY <1>3, ConstantsAssumption DEF ConstantsAssumption, TypeOK
    <3>3. user[w].nonce < nextNonce /\ user[w].nonce \in Nat /\ nextNonce \in Nat
      BY <1>3, ValidNonce DEF Nonces, TypeOK
    <3> QED
      BY <3>1, <3>2, <3>3 DEF SupersededBy
  <2>2. ASSUME NEW c \in Calls, BurnNonce(c) PROVE BurntWith(c, w)
    <3>1. pc[c] = "burn" /\ pc'[c] = "idle"
      BY <1>3, <2>2 DEF BurnNonce, Answer, TypeOK
    <3>2. Wallet(c) = w
      <4>1. user' = [user EXCEPT ![Wallet(c)].nonce = Null, ![Wallet(c)].nonceExpiresAt = Null]
        BY <2>2 DEF BurnNonce
      <4>2. Wallet(c) # w => user'[w] = user[w]
        BY <1>3, <2>2, Burns, <4>1 DEF TypeOK
      <4> QED
        BY <1>3, <4>2 DEF Valid
    <3>3. call[c].nonce <= user[w].nonce /\ call[c].nonce \in Nonces
      BY <1>3, <3>1, <3>2 DEF NoncesGrow
    <3>4. call[c].message.nonce = call[c].nonce
      BY <1>3, <3>1 DEF SignInInv, ReadingsSound
    <3>5. user[w].nonce \in Nonces
      BY <1>3, ValidNonce
    <3> QED
      BY <3>1, <3>2, <3>3, <3>4, <3>5 DEF BurntWith, Nonces
  <2>3. CASE user'[w] = user[w]
    BY <1>3, <2>3 DEF Valid
  <2>4. ASSUME NEW v \in Wallets, SetBanned(v) PROVE FALSE
    BY <1>3, <2>4, BanKeepsNonce
  <2>5. ASSUME NEW v \in Wallets \ {w}, IssueNonce(v) PROVE user'[w] = user[w]
    BY <1>3, <2>5 DEF IssueNonce, TypeOK
  <2> QED
    BY <1>3, <2>1, <2>2, <2>3, <2>4, <2>5
    DEF Next, VerifySignature, Verified, Refused, Crash, Tick, vars
<1>4. TypeOK /\ SignInInv /\ NoncesGrow /\ [Next]_vars =>
          [\A w \in Wallets :
              Valid(w) /\ (~Valid(w)' \/ user'[w].nonce # user[w].nonce) =>
                  SupersededBy(w) \/ \E c \in Calls : BurntWith(c, w)]_vars
  BY <1>3
<1> QED
  BY <1>1, <1>2, <1>4, SignInInvariant, PTL DEF Spec, NonceLostWithCause
=============================================================================
