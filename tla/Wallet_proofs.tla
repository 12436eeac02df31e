---------------------------- MODULE Wallet_proofs ----------------------------
(***************************************************************************)
(* Theorems about money: the withdrawal of a host's earnings, and the      *)
(* production wallet with its ledger.                                      *)
(***************************************************************************)
EXTENDS PayoutWithdrawal, WalletLedger, Sums

-----------------------------------------------------------------------------
(***************************************************************************)
(* Payout and withdrawal, for any users, withdrawals, accounts, policies   *)
(* and bounds.                                                             *)
(***************************************************************************)

\* A withdrawal belongs to a user.
Owned == \A w \in Wd : wd[w].status # "none" => wd[w].user \in User

PayoutInv == TypeOK /\ Owned /\ PaidToVerifiedAccount

\* A withdrawal keeps its user, amount and account and is decided once.
KeepsTerms(w) ==
    /\ wd[w].status # "none" =>
         /\ wd'[w].status # "none"
         /\ wd'[w].user = wd[w].user
         /\ wd'[w].account = wd[w].account
    /\ wd[w].status \in Terminal => wd'[w] = wd[w]

LEMMA InitPayoutInv == PayoutInit => PayoutInv
BY PayoutAssumption
DEF PayoutInit, PayoutInv, TypeOK, Owned, PaidToVerifiedAccount, KycRecord, KycStatus,
    Withdrawal, Status, Terminal

\* No handler reserves or spends what is not there.
LEMMA RequestKeeps ==
    ASSUME PayoutInv, NEW w \in Wd, NEW u \in User, NEW cents \in 1..MaxCents,
           RequestWithdrawal(w, u, cents)
    PROVE  PayoutInv' /\ \A x \in Wd : KeepsTerms(x)
<1> USE DEF PayoutInv
<1> DEFINE r == [status |-> "PENDING", user |-> u, amount |-> cents,
                 account |-> kyc[u].account]
<1>1. wd' = [wd EXCEPT ![w] = r] /\ wd[w].status = "none"
  BY DEF RequestWithdrawal
<1>2. r \in Withdrawal
  BY PayoutAssumption DEF Withdrawal, Status, Terminal, TypeOK, KycRecord
<1>3. r.status # "none" /\ r.user = u /\ r.account = kyc[u].account
  OBVIOUS
<1> HIDE DEF r
<1>4. wd' \in [Wd -> Withdrawal] /\ wd'[w] = r /\ \A x \in Wd \ {w} : wd'[x] = wd[x]
  BY <1>1, <1>2 DEF TypeOK
<1>5. balance' \in [User -> [available: Nat, reserved: Nat]]
  <2>1. /\ balance[u] \in [available: Nat, reserved: Nat]
        /\ cents \in Nat /\ cents <= balance[u].available
    BY PayoutAssumption DEF RequestWithdrawal, TypeOK
  <2>2. balance[u].available - cents \in Nat /\ balance[u].reserved + cents \in Nat
    BY <2>1
  <2>3. balance' = [balance EXCEPT
            ![u] = [available |-> balance[u].available - cents,
                    reserved |-> balance[u].reserved + cents]]
    BY DEF RequestWithdrawal, TypeOK
  <2> QED BY <2>2, <2>3 DEF TypeOK
<1>6. UNCHANGED <<settings, beans, kyc, converted>>
  BY DEF RequestWithdrawal
<1>7. kyc[u] = [status |-> "VERIFIED", account |-> r.account]
  BY <1>3 DEF RequestWithdrawal, TypeOK, KycRecord
<1>8. PaidToVerifiedAccount' /\ Owned'
  BY <1>3, <1>4, <1>6, <1>7 DEF PaidToVerifiedAccount, Owned
<1>9. ASSUME NEW x \in Wd PROVE KeepsTerms(x)
  BY <1>1, <1>4 DEF KeepsTerms, Terminal
<1> QED BY <1>4, <1>5, <1>6, <1>8, <1>9 DEF TypeOK

\* A decision changes the status and at most the balance of its withdrawal.
LEMMA TransitionKeeps ==
    ASSUME PayoutInv, NEW w \in Wd, NEW to \in Status \ {"none"},
           NEW from \in SUBSET (Status \ ({"none"} \cup Terminal)),
           Transition(w, from, to),
           balance' \in [User -> [available: Nat, reserved: Nat]]
    PROVE  PayoutInv' /\ \A x \in Wd : KeepsTerms(x)
<1>1. /\ wd' = [wd EXCEPT ![w].status = to]
      /\ wd[w].status # "none" /\ wd[w].status \notin Terminal
      /\ UNCHANGED <<settings, beans, kyc, converted>>
  BY DEF Transition
<1>2. wd \in [Wd -> Withdrawal]
  BY DEF PayoutInv, TypeOK
<1>3. /\ wd'[w] \in Withdrawal /\ wd'[w].status = to
      /\ wd'[w].user = wd[w].user /\ wd'[w].account = wd[w].account
      /\ \A x \in Wd \ {w} : wd'[x] = wd[x]
      /\ wd' \in [Wd -> Withdrawal]
  BY <1>1, <1>2 DEF Withdrawal
<1>4. ASSUME NEW x \in Wd PROVE KeepsTerms(x)
  BY <1>1, <1>3 DEF KeepsTerms
<1>5. PaidToVerifiedAccount' /\ Owned'
  BY <1>1, <1>3 DEF PayoutInv, PaidToVerifiedAccount, Owned
<1> QED BY <1>1, <1>3, <1>4, <1>5 DEF PayoutInv, TypeOK

LEMMA UnreserveTyped ==
    ASSUME PayoutInv, NEW w \in Wd, NEW released \in BOOLEAN,
           Unreserve(w, released)
    PROVE  balance' \in [User -> [available: Nat, reserved: Nat]]
<1> DEFINE x == wd[w].user
           n == wd[w].amount
<1>1. n \in Nat
  BY DEF PayoutInv, TypeOK, Withdrawal
<1>2. balance \in [User -> [available: Nat, reserved: Nat]]
  BY DEF PayoutInv, TypeOK
<1>3. CASE x \in User
  <2>1. balance[x].available \in Nat /\ balance[x].reserved \in Nat
    BY <1>2, <1>3
  <2>2. PICK r \in Nat : r = AtLeastZero(balance[x].reserved, n)
    BY <1>1, <2>1 DEF AtLeastZero
  <2>3. PICK v \in Nat : v = IF released THEN balance[x].available + n
                             ELSE balance[x].available
    BY <1>1, <2>1
  <2>4. balance' = [balance EXCEPT ![x] = [available |-> v, reserved |-> r]]
    BY <1>2, <1>3, <2>2, <2>3 DEF Unreserve
  <2> QED BY <1>2, <2>4
<1>4. CASE x \notin User
  BY <1>2, <1>4 DEF Unreserve
<1> QED BY <1>3, <1>4

LEMMA DecisionKeeps ==
    ASSUME PayoutInv, NEW w \in Wd,
           Approve(w) \/ Process(w) \/ Reject(w) \/ Fail(w) \/ Pay(w)
    PROVE  PayoutInv' /\ \A x \in Wd : KeepsTerms(x)
<1> DEFINE Undecided == Status \ ({"none"} \cup Terminal)
<1>1. /\ {"PENDING", "APPROVED", "PROCESSING", "FAILED"} \subseteq Undecided
      /\ {"APPROVED", "PROCESSING", "REJECTED", "FAILED", "PAID"}
             \subseteq Status \ {"none"}
  BY DEF Status, Terminal
<1>2. balance \in [User -> [available: Nat, reserved: Nat]]
  BY DEF PayoutInv, TypeOK
<1>3. CASE Approve(w)
  BY <1>1, <1>2, <1>3, TransitionKeeps DEF Approve
<1>4. CASE Process(w)
  BY <1>1, <1>2, <1>4, TransitionKeeps DEF Process
<1>5. CASE Reject(w)
  BY <1>1, <1>5, UnreserveTyped, TransitionKeeps DEF Reject
<1>6. CASE Fail(w)
  BY <1>1, <1>2, <1>6, TransitionKeeps DEF Fail
<1>7. CASE Pay(w)
  BY <1>1, <1>7, UnreserveTyped, TransitionKeeps DEF Pay
<1> QED BY <1>3, <1>4, <1>5, <1>6, <1>7

\* The KYC record of a user with a withdrawal is verified, and a verified
\* record is neither replaced nor decided again.
LEMMA KycKeeps ==
    ASSUME PayoutInv, NEW u \in User,
           \/ \E a \in BankAccount : SubmitKyc(u, a)
           \/ AdminVerifyKyc(u)
           \/ AdminRejectKyc(u)
    PROVE  PayoutInv' /\ \A x \in Wd : KeepsTerms(x)
<1>1. /\ kyc[u].status # "VERIFIED"
      /\ \A v \in User \ {u} : kyc'[v] = kyc[v]
      /\ kyc' \in [User -> KycRecord]
      /\ UNCHANGED <<settings, beans, balance, converted, wd>>
  <2>1. kyc \in [User -> KycRecord]
    BY DEF PayoutInv, TypeOK
  <2>2. ASSUME NEW a \in BankAccount, SubmitKyc(u, a)
        PROVE  /\ kyc[u].status # "VERIFIED"
               /\ kyc' = [kyc EXCEPT ![u] = [status |-> "PENDING", account |-> a]]
               /\ UNCHANGED <<settings, beans, balance, converted, wd>>
    BY <2>2 DEF SubmitKyc
  <2>3. ASSUME NEW to \in KycStatus, DecideKyc(u, {"PENDING", "REJECTED"}, to)
        PROVE  /\ kyc[u].status # "VERIFIED"
               /\ kyc' = [kyc EXCEPT ![u].status = to]
               /\ UNCHANGED <<settings, beans, balance, converted, wd>>
    BY <2>3 DEF DecideKyc
  <2>4. CASE \E a \in BankAccount : SubmitKyc(u, a)
    BY <2>1, <2>2, <2>4 DEF KycRecord, KycStatus
  <2>5. CASE AdminVerifyKyc(u) \/ AdminRejectKyc(u)
    BY <2>1, <2>3, <2>5 DEF AdminVerifyKyc, AdminRejectKyc, KycRecord, KycStatus
  <2> QED BY <2>4, <2>5
<1>2. ASSUME NEW w \in Wd, wd[w].status # "none"
      PROVE  kyc'[wd[w].user] = kyc[wd[w].user]
  <2>1. kyc[wd[w].user] = [status |-> "VERIFIED", account |-> wd[w].account]
    BY <1>2 DEF PayoutInv, PaidToVerifiedAccount
  <2>2. wd[w].user # u
    BY <1>1, <2>1
  <2>3. wd[w].user \in User
    BY <1>2 DEF PayoutInv, Owned
  <2> QED BY <1>1, <2>2, <2>3
<1>3. PaidToVerifiedAccount'
  BY <1>1, <1>2 DEF PayoutInv, PaidToVerifiedAccount
<1> QED BY <1>1, <1>3 DEF PayoutInv, TypeOK, Owned, KeepsTerms

LEMMA WalletKeeps ==
    ASSUME PayoutInv, NEW u \in User,
           \/ \E amount \in 1..MaxBeans : ConvertBeans(u, amount)
           \/ OtherWallet(u)
    PROVE  PayoutInv' /\ \A x \in Wd : KeepsTerms(x)
<1>1. UNCHANGED <<settings, kyc, wd>>
  BY DEF ConvertBeans, OtherWallet
<1>2. CASE OtherWallet(u)
  <2>1. beans' \in [User -> Nat \cup {None}]
    BY <1>2, PayoutAssumption DEF OtherWallet, PayoutInv, TypeOK
  <2> QED BY <1>1, <1>2, <2>1
          DEF OtherWallet, PayoutInv, TypeOK, Owned, PaidToVerifiedAccount, KeepsTerms
<1>3. ASSUME NEW amount \in 1..MaxBeans, ConvertBeans(u, amount)
      PROVE  PayoutInv' /\ \A x \in Wd : KeepsTerms(x)
  <2>1. PICK cents : /\ cents = (amount * 100) \div settings.rate
                     /\ amount <= beans[u] /\ beans[u] # None
                     /\ beans' = [beans EXCEPT ![u] = @ - amount]
                     /\ balance' = [balance EXCEPT ![u].available = @ + cents]
                     /\ converted' = [converted EXCEPT ![u] = @ + cents]
    BY <1>3 DEF ConvertBeans
  <2>2. cents \in Nat
    <3>1. settings.rate \in Nat \ {0}
      BY PayoutAssumption DEF PayoutInv, TypeOK
    <3>2. amount * 100 \in Nat
      BY PayoutAssumption
    <3> QED BY <2>1, <3>1, <3>2
  <2>3. beans[u] - amount \in Nat
    BY <2>1, PayoutAssumption DEF PayoutInv, TypeOK
  <2>4. beans' \in [User -> Nat \cup {None}]
    BY <2>1, <2>3 DEF PayoutInv, TypeOK
  <2>5. balance' \in [User -> [available: Nat, reserved: Nat]]
    BY <2>1, <2>2 DEF PayoutInv, TypeOK
  <2>6. converted' \in [User -> Nat]
    BY <2>1, <2>2 DEF PayoutInv, TypeOK
  <2> QED BY <1>1, <2>4, <2>5, <2>6
          DEF PayoutInv, TypeOK, Owned, PaidToVerifiedAccount, KeepsTerms
<1> QED BY <1>2, <1>3

LEMMA StepPayoutInv ==
    ASSUME PayoutInv, [PayoutNext]_payoutVars
    PROVE  PayoutInv' /\ \A x \in Wd : KeepsTerms(x)
<1>1. ASSUME NEW u \in User, UserStep(u)
      PROVE  PayoutInv' /\ \A x \in Wd : KeepsTerms(x)
  BY <1>1, KycKeeps, WalletKeeps, RequestKeeps DEF UserStep
<1>2. CASE AdminStep
  <2>1. CASE AdminUpdateSettings
    BY <2>1 DEF AdminUpdateSettings, PayoutInv, TypeOK, Owned,
                PaidToVerifiedAccount, KeepsTerms
  <2> QED BY <1>2, <2>1, KycKeeps, DecisionKeeps DEF AdminStep
<1>3. CASE UNCHANGED payoutVars
  BY <1>3 DEF payoutVars, PayoutInv, TypeOK, Owned, PaidToVerifiedAccount, KeepsTerms
<1> QED BY <1>1, <1>2, <1>3 DEF PayoutNext

-----------------------------------------------------------------------------
(* The money                                                               *)

Undecided == Status \ ({"none"} \cup Terminal)

\* Only finitely many withdrawals were ever requested.
FiniteRequests == IsFiniteSet({w \in Wd : wd[w].status # "none"})

LedgerInv == PayoutInv /\ FiniteRequests /\ MoneyConserved

Amounts == [w \in Wd |-> wd[w].amount]

LEMMA StatusFacts ==
    /\ Undecided = {"PENDING", "APPROVED", "PROCESSING", "FAILED"}
    /\ Undecided \in SUBSET (Status \ {"none"})
    /\ {"PAID"} \in SUBSET (Status \ {"none"})
    /\ "PAID" \notin Undecided /\ "REJECTED" \notin Undecided
BY DEF Undecided, Status, Terminal

\* What a user asked for can be added up.
LEMMA RequestsFinite ==
    ASSUME PayoutInv, FiniteRequests, NEW u,
           NEW states \in SUBSET (Status \ {"none"})
    PROVE  /\ IsFiniteSet(Requests(u, states))
           /\ \A w \in Requests(u, states) : Amounts[w] \in Nat
           /\ AmountOf(Requests(u, states)) \in Nat
           /\ AmountOf(Requests(u, states)) = SumFunctionOnSet(Amounts, Requests(u, states))
<1>1. Requests(u, states) \subseteq {w \in Wd : wd[w].status # "none"}
  BY DEF Requests
<1>2. IsFiniteSet(Requests(u, states))
  BY <1>1, FS_Subset DEF FiniteRequests
<1>3. \A w \in Requests(u, states) : Amounts[w] \in Nat
  BY DEF Amounts, Requests, PayoutInv, TypeOK, Withdrawal
<1>4. AmountOf(Requests(u, states)) = SumFunctionOnSet(Amounts, Requests(u, states))
  BY DEF AmountOf, Amounts
<1> QED BY <1>2, <1>3, <1>4, SumIsNat

\* Nothing that leaves the withdrawals alone changes what they add up to.
LEMMA SumsStay ==
    ASSUME UNCHANGED wd, NEW u, NEW states
    PROVE  AmountOf(Requests(u, states))' = AmountOf(Requests(u, states))
BY DEF AmountOf, Requests

\* A decision moves a withdrawal from the sums of its old status to those of
\* the new one.
LEMMA TransitionMoves ==
    ASSUME PayoutInv, FiniteRequests, NEW w \in Wd,
           NEW from \in SUBSET Undecided, NEW to \in Status \ {"none"},
           Transition(w, from, to)
    PROVE  /\ FiniteRequests'
           /\ \A u \in User, states \in SUBSET (Status \ {"none"}) :
                AmountOf(Requests(u, states))' =
                    AmountOf(Requests(u, states))
                    - (IF w \in Requests(u, states) THEN wd[w].amount ELSE 0)
                    + (IF wd[w].user = u /\ to \in states THEN wd[w].amount ELSE 0)
<1>0. wd \in [Wd -> Withdrawal]
  BY DEF PayoutInv, TypeOK
<1>1. /\ wd' = [wd EXCEPT ![w].status = to] /\ wd[w].status # "none"
      /\ wd[w] \in Withdrawal
  BY <1>0, StatusFacts DEF Transition
<1>2. /\ wd'[w].status = to /\ wd'[w].user = wd[w].user /\ wd'[w].amount = wd[w].amount
      /\ \A x \in Wd \ {w} : wd'[x] = wd[x]
  BY <1>0, <1>1 DEF Withdrawal
<1>3. FiniteRequests'
  <2>1. {x \in Wd : wd'[x].status # "none"} = {x \in Wd : wd[x].status # "none"}
    BY <1>1, <1>2
  <2> QED BY <2>1 DEF FiniteRequests
<1>4. Amounts' = Amounts
  BY <1>2 DEF Amounts
<1>5. ASSUME NEW u \in User, NEW states \in SUBSET (Status \ {"none"})
      PROVE  AmountOf(Requests(u, states))' =
                    AmountOf(Requests(u, states))
                    - (IF w \in Requests(u, states) THEN wd[w].amount ELSE 0)
                    + (IF wd[w].user = u /\ to \in states THEN wd[w].amount ELSE 0)
  <2> DEFINE R == Requests(u, states)
             rest == R \ {w}
  <2>1. /\ IsFiniteSet(R) /\ \A x \in R : Amounts[x] \in Int
        /\ AmountOf(R) = SumFunctionOnSet(Amounts, R)
    BY RequestsFinite
  <2>2. IsFiniteSet(rest) /\ (\A x \in rest : Amounts[x] \in Int) /\ w \notin rest
    BY <2>1, FS_Subset
  <2>3. Amounts[w] = wd[w].amount /\ Amounts[w] \in Int
    BY <1>1 DEF Amounts, Withdrawal
  <2>4. R' = IF wd[w].user = u /\ to \in states THEN rest \cup {w} ELSE rest
    BY <1>2 DEF Requests
  <2>5. AmountOf(R)' = SumFunctionOnSet(Amounts, R')
    BY <1>4 DEF AmountOf, Amounts
  <2>6. SumFunctionOnSet(Amounts, rest) \in Int
    BY <2>2, SumIsInt
  <2>7. SumFunctionOnSet(Amounts, R) =
          SumFunctionOnSet(Amounts, rest) + (IF w \in R THEN wd[w].amount ELSE 0)
    <3>1. CASE w \in R
      <4>1. SumFunctionOnSet(Amounts, R) = Amounts[w] + SumFunctionOnSet(Amounts, rest)
        BY <2>1, <3>1, SumRemoves
      <4> QED BY <3>1, <4>1, <2>3, <2>6
    <3>2. CASE w \notin R
      <4>1. rest = R
        BY <3>2
      <4> QED BY <3>2, <4>1, <2>6
    <3> QED BY <3>1, <3>2
  <2>8. SumFunctionOnSet(Amounts, R') =
          SumFunctionOnSet(Amounts, rest)
            + (IF wd[w].user = u /\ to \in states THEN wd[w].amount ELSE 0)
    <3>1. SumFunctionOnSet(Amounts, rest \cup {w}) =
            SumFunctionOnSet(Amounts, rest) + wd[w].amount
      BY <2>2, <2>3, SumAdds
    <3> QED BY <2>4, <2>6, <3>1
  <2> HIDE DEF rest, R
  <2> QED BY <2>1, <2>3, <2>5, <2>6, <2>7, <2>8 DEF R
<1> QED BY <1>3, <1>5

\* What is taken from a reservation is there: the reservation is the sum of
\* the undecided withdrawals, and this is one of them.
LEMMA ReservationCovers ==
    ASSUME LedgerInv, NEW w \in Wd, wd[w].status \in Undecided
    PROVE  /\ wd[w].user \in User /\ wd[w].amount \in Nat
           /\ wd[w].amount <= balance[wd[w].user].reserved
<1> DEFINE R == Requests(wd[w].user, Undecided)
<1>1. wd[w].user \in User /\ wd[w].amount \in Nat
  BY StatusFacts DEF LedgerInv, PayoutInv, Owned, TypeOK, Withdrawal
<1>2. w \in R /\ Amounts[w] = wd[w].amount
  BY DEF Requests, Amounts
<1>3. /\ IsFiniteSet(R) /\ \A x \in R : Amounts[x] \in Nat
      /\ AmountOf(R) = SumFunctionOnSet(Amounts, R)
  BY StatusFacts, RequestsFinite DEF LedgerInv
<1>4. SumFunctionOnSet(Amounts, R) = Amounts[w] + SumFunctionOnSet(Amounts, R \ {w})
  BY <1>2, <1>3, SumRemoves
<1>5. SumFunctionOnSet(Amounts, R \ {w}) \in Nat
  <2>1. IsFiniteSet(R \ {w}) /\ \A x \in R \ {w} : Amounts[x] \in Nat
    BY <1>3, FS_Subset
  <2> QED BY <2>1, SumIsNat
<1>6. balance[wd[w].user].reserved = AmountOf(R)
  BY <1>1 DEF LedgerInv, MoneyConserved, Undecided
<1> QED BY <1>1, <1>2, <1>3, <1>4, <1>5, <1>6

\* No clamp, no loss: the amount leaves the reservation and, when it is
\* released, becomes available.
LEMMA UnreserveExact ==
    ASSUME LedgerInv, NEW w \in Wd, wd[w].status \in Undecided,
           NEW released \in BOOLEAN, Unreserve(w, released)
    PROVE  \A u \in User :
             /\ balance'[u].reserved =
                  balance[u].reserved - (IF u = wd[w].user THEN wd[w].amount ELSE 0)
             /\ balance'[u].available =
                  balance[u].available
                    + (IF u = wd[w].user /\ released THEN wd[w].amount ELSE 0)
<1> DEFINE x == wd[w].user
           n == wd[w].amount
<1>1. x \in User /\ n \in Nat /\ n <= balance[x].reserved
  BY ReservationCovers
<1>2. balance \in [User -> [available: Nat, reserved: Nat]]
  BY DEF LedgerInv, PayoutInv, TypeOK
<1>3. AtLeastZero(balance[x].reserved, n) = balance[x].reserved - n
  <2>1. balance[x].reserved \in Nat
    BY <1>1, <1>2
  <2> QED BY <1>1, <2>1 DEF AtLeastZero
<1>4. balance' = [balance EXCEPT ![x] =
         [available |-> IF released THEN balance[x].available + n ELSE balance[x].available,
          reserved |-> balance[x].reserved - n]]
  BY <1>3 DEF Unreserve
<1>5. \A u \in User : balance[u].reserved \in Nat /\ balance[u].available \in Nat
  BY <1>2
<1> HIDE DEF x, n
<1>6. ASSUME NEW u \in User
      PROVE  /\ balance'[u].reserved = balance[u].reserved - (IF u = x THEN n ELSE 0)
             /\ balance'[u].available =
                  balance[u].available + (IF u = x /\ released THEN n ELSE 0)
  <2>1. CASE u = x
    BY <1>1, <1>2, <1>4, <2>1
  <2>2. CASE u # x
    BY <1>2, <1>4, <1>5, <2>2
  <2> QED BY <2>1, <2>2
<1> QED BY <1>6 DEF x, n

LEMMA DecisionConserves ==
    ASSUME LedgerInv, PayoutInv', NEW w \in Wd,
           Approve(w) \/ Process(w) \/ Reject(w) \/ Fail(w) \/ Pay(w)
    PROVE  LedgerInv'
<1> USE DEF LedgerInv
<1>1. PICK from \in SUBSET Undecided, to \in Status \ {"none"} :
        /\ Transition(w, from, to)
        /\ \/ to \in Undecided /\ UNCHANGED balance
           \/ to = "REJECTED" /\ Unreserve(w, TRUE)
           \/ to = "PAID" /\ Unreserve(w, FALSE)
  <2>1. CASE Approve(w)
    BY <2>1, StatusFacts DEF Approve, Status
  <2>2. CASE Process(w)
    BY <2>2, StatusFacts DEF Process, Status
  <2>3. CASE Reject(w)
    BY <2>3, StatusFacts DEF Reject, Status, Undecided, Terminal
  <2>4. CASE Fail(w)
    BY <2>4, StatusFacts DEF Fail, Status
  <2>5. CASE Pay(w)
    BY <2>5, StatusFacts DEF Pay, Status, Terminal
  <2> QED BY <2>1, <2>2, <2>3, <2>4, <2>5
<1>2. wd[w].status \in Undecided /\ UNCHANGED converted
  BY <1>1 DEF Transition
<1>3. FiniteRequests'
  BY <1>1, TransitionMoves
<1>4. ASSUME NEW u \in User
      PROVE  /\ converted'[u] = balance'[u].available + balance'[u].reserved
                                  + AmountOf(Requests(u, {"PAID"}))'
             /\ balance'[u].reserved = AmountOf(Requests(u, Undecided))'
  <2> DEFINE mine == wd[w].user = u
             n == wd[w].amount
             paid == AmountOf(Requests(u, {"PAID"}))
             open == AmountOf(Requests(u, Undecided))
  <2>1. /\ paid' = paid + (IF mine /\ to = "PAID" THEN n ELSE 0)
        /\ open' = open - (IF mine THEN n ELSE 0)
                        + (IF mine /\ to \in Undecided THEN n ELSE 0)
    <3>1. \A states \in SUBSET (Status \ {"none"}) :
             AmountOf(Requests(u, states))' =
                    AmountOf(Requests(u, states))
                    - (IF w \in Requests(u, states) THEN wd[w].amount ELSE 0)
                    + (IF wd[w].user = u /\ to \in states THEN wd[w].amount ELSE 0)
      BY <1>1, TransitionMoves
    <3>2. w \in Requests(u, Undecided) <=> mine
      BY <1>2 DEF Requests
    <3>3. w \notin Requests(u, {"PAID"})
      BY <1>2, StatusFacts DEF Requests
    <3>4. paid \in Nat /\ n \in Nat
      BY <1>2, StatusFacts, RequestsFinite, ReservationCovers
    <3>5. paid' = paid - 0 + (IF mine /\ to \in {"PAID"} THEN n ELSE 0)
      BY <3>1, <3>3, StatusFacts
    <3>6. open' = open - (IF mine THEN n ELSE 0)
                       + (IF mine /\ to \in Undecided THEN n ELSE 0)
      BY <3>1, <3>2, StatusFacts
    <3> HIDE DEF paid, open, n, mine
    <3> QED BY <3>4, <3>5, <3>6
  <2>2. /\ balance[u].available \in Nat /\ balance[u].reserved \in Nat
        /\ n \in Nat /\ paid \in Nat /\ open \in Nat
    BY <1>2, StatusFacts, RequestsFinite, ReservationCovers DEF PayoutInv, TypeOK
  <2>3. /\ converted[u] = balance[u].available + balance[u].reserved + paid
        /\ balance[u].reserved = open
    BY DEF MoneyConserved, Undecided
  <2>4. converted'[u] = converted[u]
    BY <1>2
  <2>5. CASE to \in Undecided /\ UNCHANGED balance
    <3>1. to # "PAID"
      BY <2>5, StatusFacts
    <3> HIDE DEF paid, open, n, mine
    <3> QED BY <2>1, <2>2, <2>3, <2>4, <2>5, <3>1 DEF paid, open
  <2>6. CASE to = "REJECTED" /\ Unreserve(w, TRUE)
    <3>1. to \notin Undecided /\ to # "PAID"
      BY <2>6, StatusFacts
    <3>2. /\ balance'[u].reserved = balance[u].reserved - (IF mine THEN n ELSE 0)
          /\ balance'[u].available = balance[u].available + (IF mine THEN n ELSE 0)
      BY <1>2, <2>6, UnreserveExact
    <3> HIDE DEF paid, open, n, mine
    <3> QED BY <2>1, <2>2, <2>3, <2>4, <3>1, <3>2 DEF paid, open
  <2>7. CASE to = "PAID" /\ Unreserve(w, FALSE)
    <3>1. to \notin Undecided
      BY <2>7, StatusFacts
    <3>2. /\ balance'[u].reserved = balance[u].reserved - (IF mine THEN n ELSE 0)
          /\ balance'[u].available = balance[u].available + 0
      BY <1>2, <2>7, UnreserveExact
    <3> HIDE DEF paid, open, n, mine
    <3> QED BY <2>1, <2>2, <2>3, <2>4, <2>7, <3>1, <3>2 DEF paid, open
  <2> QED BY <1>1, <2>5, <2>6, <2>7
<1>5. MoneyConserved'
  BY <1>4 DEF MoneyConserved, Undecided
<1> QED BY <1>3, <1>5

\* A request moves cents from the balance into its reservation.
LEMMA RequestConserves ==
    ASSUME LedgerInv, PayoutInv', NEW w \in Wd, NEW u \in User,
           NEW cents \in 1..MaxCents, RequestWithdrawal(w, u, cents)
    PROVE  LedgerInv'
<1> USE DEF LedgerInv
<1>0. wd \in [Wd -> Withdrawal] /\ balance \in [User -> [available: Nat, reserved: Nat]]
  BY DEF PayoutInv, TypeOK
<1>1. /\ wd[w].status = "none" /\ UNCHANGED converted
      /\ wd'[w].status = "PENDING" /\ wd'[w].user = u /\ wd'[w].amount = cents
      /\ \A x \in Wd \ {w} : wd'[x] = wd[x]
      /\ cents \in Nat
  BY <1>0, PayoutAssumption DEF RequestWithdrawal
<1>2. /\ balance'[u].available = balance[u].available - cents
      /\ balance'[u].reserved = balance[u].reserved + cents
      /\ \A v \in User \ {u} : balance'[v] = balance[v]
  BY <1>0 DEF RequestWithdrawal
<1>3. FiniteRequests'
  <2>1. {x \in Wd : wd'[x].status # "none"} = {x \in Wd : wd[x].status # "none"} \cup {w}
    BY <1>1
  <2> QED BY <2>1, FS_AddElement DEF FiniteRequests
<1>4. ASSUME NEW v \in User, NEW states \in SUBSET (Status \ {"none"})
      PROVE  AmountOf(Requests(v, states))' =
               AmountOf(Requests(v, states))
                 + (IF v = u /\ "PENDING" \in states THEN cents ELSE 0)
  <2> DEFINE R == Requests(v, states)
  <2>1. /\ IsFiniteSet(R) /\ (\A x \in R : Amounts[x] \in Int) /\ w \notin R
        /\ AmountOf(R) = SumFunctionOnSet(Amounts, R) /\ AmountOf(R) \in Nat
    <3>1. w \notin R
      BY <1>1 DEF Requests
    <3>2. \A x \in R : Amounts[x] \in Nat
      BY RequestsFinite
    <3> QED BY <3>1, <3>2, RequestsFinite
  <2>2. R' = IF v = u /\ "PENDING" \in states THEN R \cup {w} ELSE R
    BY <1>1 DEF Requests
  <2>3. /\ \A x \in R : Amounts'[x] = Amounts[x]
        /\ Amounts'[w] = cents
    BY <1>1 DEF Amounts, Requests
  <2>4. SumFunctionOnSet(Amounts', R) = AmountOf(R)
    BY <2>1, <2>3, SumSame
  <2>5. SumFunctionOnSet(Amounts', R \cup {w}) = AmountOf(R) + cents
    <3>1. (\A x \in R : Amounts'[x] \in Int) /\ Amounts'[w] \in Int
      BY <1>1, <2>1, <2>3
    <3> QED BY <2>1, <2>3, <2>4, <3>1, SumAdds
  <2>6. AmountOf(R)' = SumFunctionOnSet(Amounts', R')
    BY DEF AmountOf, Amounts
  <2> HIDE DEF R
  <2> QED BY <2>1, <2>2, <2>4, <2>5, <2>6 DEF R
<1>5. ASSUME NEW v \in User
      PROVE  /\ converted'[v] = balance'[v].available + balance'[v].reserved
                                  + AmountOf(Requests(v, {"PAID"}))'
             /\ balance'[v].reserved = AmountOf(Requests(v, Undecided))'
  <2> DEFINE paid == AmountOf(Requests(v, {"PAID"}))
             open == AmountOf(Requests(v, Undecided))
  <2>1. /\ paid \in Nat /\ open \in Nat
        /\ balance[v].available \in Nat /\ balance[v].reserved \in Nat
    BY <1>0, StatusFacts, RequestsFinite
  <2>2. paid' = paid /\ open' = open + (IF v = u THEN cents ELSE 0)
    <3>1. paid' = paid + 0
      BY <1>4, StatusFacts
    <3> QED BY <2>1, <3>1, <1>4, StatusFacts
  <2>3. /\ converted[v] = balance[v].available + balance[v].reserved + paid
        /\ balance[v].reserved = open
    BY DEF MoneyConserved, Undecided
  <2> HIDE DEF paid, open
  <2>4. CASE v = u
    BY <1>1, <1>2, <2>1, <2>2, <2>3, <2>4 DEF paid, open
  <2>5. CASE v # u
    BY <1>1, <1>2, <2>1, <2>2, <2>3, <2>5 DEF paid, open
  <2> QED BY <2>4, <2>5
<1>6. MoneyConserved'
  BY <1>5 DEF MoneyConserved, Undecided
<1> QED BY <1>3, <1>6

\* A conversion adds the same cents to the ledger and to the balance.
LEMMA ConversionConserves ==
    ASSUME LedgerInv, PayoutInv', NEW u \in User, NEW amount \in 1..MaxBeans,
           ConvertBeans(u, amount)
    PROVE  LedgerInv'
<1> USE DEF LedgerInv
<1>0. /\ balance \in [User -> [available: Nat, reserved: Nat]]
      /\ converted \in [User -> Nat]
  BY DEF PayoutInv, TypeOK
<1>1. PICK cents : /\ cents = (amount * 100) \div settings.rate
                   /\ balance' = [balance EXCEPT ![u].available = @ + cents]
                   /\ converted' = [converted EXCEPT ![u] = @ + cents]
                   /\ UNCHANGED wd
  BY DEF ConvertBeans
<1>2. cents \in Nat
  <2>1. settings.rate \in Nat \ {0} /\ amount * 100 \in Nat
    BY PayoutAssumption DEF PayoutInv, TypeOK
  <2> QED BY <1>1, <2>1
<1>3. FiniteRequests'
  BY <1>1 DEF FiniteRequests
<1>4. ASSUME NEW v \in User
      PROVE  /\ converted'[v] = balance'[v].available + balance'[v].reserved
                                  + AmountOf(Requests(v, {"PAID"}))'
             /\ balance'[v].reserved = AmountOf(Requests(v, Undecided))'
  <2> DEFINE paid == AmountOf(Requests(v, {"PAID"}))
             open == AmountOf(Requests(v, Undecided))
  <2>1. /\ paid \in Nat /\ open \in Nat /\ paid' = paid /\ open' = open
        /\ balance[v].available \in Nat /\ balance[v].reserved \in Nat
    BY <1>0, <1>1, StatusFacts, RequestsFinite, SumsStay
  <2>3. /\ converted[v] = balance[v].available + balance[v].reserved + paid
        /\ balance[v].reserved = open
    BY DEF MoneyConserved, Undecided
  <2> HIDE DEF paid, open
  <2>4. CASE v = u
    BY <1>0, <1>1, <1>2, <2>1, <2>3, <2>4 DEF paid, open
  <2>5. CASE v # u
    BY <1>0, <1>1, <1>2, <2>1, <2>3, <2>5 DEF paid, open
  <2> QED BY <2>4, <2>5
<1>5. MoneyConserved'
  BY <1>4 DEF MoneyConserved, Undecided
<1> QED BY <1>3, <1>5

LEMMA InitLedgerInv == PayoutInit => LedgerInv
<1> SUFFICES ASSUME PayoutInit PROVE LedgerInv
  OBVIOUS
<1>1. PayoutInv
  BY InitPayoutInv
<1>2. {w \in Wd : wd[w].status # "none"} = {}
  BY DEF PayoutInit
<1>3. FiniteRequests
  BY <1>2, FS_EmptySet DEF FiniteRequests
<1>4. \A u \in User, states \in SUBSET (Status \ {"none"}) :
         AmountOf(Requests(u, states)) = 0
  <2> SUFFICES ASSUME NEW u \in User, NEW states \in SUBSET (Status \ {"none"})
               PROVE  AmountOf(Requests(u, states)) = 0
    OBVIOUS
  <2>1. Requests(u, states) = {}
    BY <1>2 DEF Requests
  <2> QED BY <2>1, SumOfNone DEF AmountOf
<1>5. \A u \in User : /\ AmountOf(Requests(u, {"PAID"})) = 0
                      /\ AmountOf(Requests(u, Undecided)) = 0
  BY <1>4, StatusFacts
<1>6. ASSUME NEW u \in User
      PROVE  /\ converted[u] = balance[u].available + balance[u].reserved
                                 + AmountOf(Requests(u, {"PAID"}))
             /\ balance[u].reserved = AmountOf(Requests(u, Undecided))
  <2>1. converted[u] = 0 /\ balance[u].available = 0 /\ balance[u].reserved = 0
    BY DEF PayoutInit
  <2>2. 0 = 0 + 0 + 0
    OBVIOUS
  <2> QED BY <1>5, <2>1, <2>2
<1>7. MoneyConserved
  BY <1>6 DEF MoneyConserved, Undecided
<1> QED BY <1>1, <1>3, <1>7 DEF LedgerInv

LEMMA StepLedgerInv ==
    ASSUME LedgerInv, [PayoutNext]_payoutVars
    PROVE  LedgerInv'
<1>0. PayoutInv'
  BY StepPayoutInv DEF LedgerInv
<1>1. ASSUME UNCHANGED <<balance, converted, wd>>
      PROVE  LedgerInv'
  <2>1. \A u \in User : /\ AmountOf(Requests(u, {"PAID"}))' = AmountOf(Requests(u, {"PAID"}))
                        /\ AmountOf(Requests(u, Undecided))' = AmountOf(Requests(u, Undecided))
    BY <1>1, SumsStay
  <2>2. MoneyConserved'
    BY <1>1, <2>1 DEF LedgerInv, MoneyConserved, Undecided
  <2> QED BY <1>0, <1>1, <2>2 DEF LedgerInv, FiniteRequests
<1>2. ASSUME NEW u \in User, UserStep(u)
      PROVE  LedgerInv'
  <2>1. CASE \E a \in BankAccount : SubmitKyc(u, a)
    BY <1>1, <2>1 DEF SubmitKyc
  <2>2. CASE OtherWallet(u)
    BY <1>1, <2>2 DEF OtherWallet
  <2> QED BY <1>0, <1>2, <2>1, <2>2, RequestConserves, ConversionConserves DEF UserStep
<1>3. CASE AdminStep
  <2>1. CASE AdminUpdateSettings
    BY <1>1, <2>1 DEF AdminUpdateSettings
  <2>2. CASE \E u \in User : AdminVerifyKyc(u) \/ AdminRejectKyc(u)
    BY <1>1, <2>2 DEF AdminVerifyKyc, AdminRejectKyc, DecideKyc
  <2> QED BY <1>0, <1>3, <2>1, <2>2, DecisionConserves DEF AdminStep
<1>4. CASE UNCHANGED payoutVars
  BY <1>1, <1>4 DEF payoutVars
<1> QED BY <1>2, <1>3, <1>4 DEF PayoutNext

-----------------------------------------------------------------------------
(* The theorems                                                            *)

\* No sequence of conversions, requests and decisions makes a balance, a
\* reservation or a Beans wallet negative.
THEOREM PayoutTypeCorrect == PayoutSpec => []TypeOK
<1>1. PayoutInv => TypeOK
  BY DEF PayoutInv
<1>2. PayoutInv /\ [PayoutNext]_payoutVars => PayoutInv'
  BY StepPayoutInv
<1> QED BY <1>1, <1>2, InitPayoutInv, PTL DEF PayoutSpec

\* The account in a withdrawal is the verified one of its user, whatever is
\* submitted, verified or rejected while it is open.
THEOREM AlwaysPaidToVerifiedAccount == PayoutSpec => []PaidToVerifiedAccount
<1>1. PayoutInv => PaidToVerifiedAccount
  BY DEF PayoutInv
<1>2. PayoutInv /\ [PayoutNext]_payoutVars => PayoutInv'
  BY StepPayoutInv
<1> QED BY <1>1, <1>2, InitPayoutInv, PTL DEF PayoutSpec

\* Every converted cent is available, reserved or paid out, and what is
\* reserved is what the undecided withdrawals ask for: the clamp at zero of a
\* reservation (payoutWithdrawal.js:437) never hides a loss.
THEOREM MoneyAlwaysConserved == PayoutSpec => []MoneyConserved
<1>1. LedgerInv => MoneyConserved
  BY DEF LedgerInv
<1>2. LedgerInv /\ [PayoutNext]_payoutVars => LedgerInv'
  BY StepLedgerInv
<1> QED BY <1>1, <1>2, InitLedgerInv, PTL DEF PayoutSpec

\* No step of anyone changes a paid or rejected withdrawal: a second decision
\* is refused whatever it is.
THEOREM DecidedForGood == PayoutSpec => DecisionsAreFinal
<1>1. PayoutInv /\ [PayoutNext]_payoutVars => PayoutInv'
  BY StepPayoutInv
<1>2. PayoutInv /\ [PayoutNext]_payoutVars =>
        \A w \in Wd : wd[w].status \in Terminal => wd'[w] = wd[w]
  BY StepPayoutInv DEF KeepsTerms
<1> QED BY <1>1, <1>2, InitPayoutInv, PTL DEF PayoutSpec, DecisionsAreFinal

-----------------------------------------------------------------------------
(***************************************************************************)
(* The production wallet, for any calls, operations, accounts, ceiling and *)
(* number of failures.                                                     *)
(*                                                                         *)
(* That the ledger adds up to the balances says nothing of a transaction   *)
(* that is under way.  The invariant says it of the statements q that are  *)
(* still to come: on every account, what the transaction has changed and   *)
(* what q will still move add up to what its rows note and what q will     *)
(* still note.  With q empty this is the balance of the rows it commits.   *)
(* The payer's row is what makes two transactions of one key exclude each  *)
(* other, and every operation inserts it before, or together with, any     *)
(* other row.                                                              *)
(***************************************************************************)

\* The parts of an operation and what each is to change.
Parts(o) == 0..Len(o.get)
ChangeOf(o, p) == IF p = 0 THEN o.pay ELSE o.get[p]
Leg(o, p) == [part |-> p, acct |-> ChangeOf(o, p).acct, amt |-> ChangeOf(o, p).amt]
Legs(o, P) == {Leg(o, p) : p \in P}

\* The statements a program of o may hold.
Stmts(o) ==
    {Update(p, ChangeOf(o, p)) : p \in Parts(o)}
      \cup {Record({<<p, ChangeOf(o, p)>>}) : p \in Parts(o)}
      \cup {Record({<<0, o.pay>>, <<p, ChangeOf(o, p)>>}) : p \in Parts(o) \ {0}}
      \cup {IF Clamps(o) THEN Claim(0, o.pay) ELSE Look}

\* The part a statement moves, and the parts it notes in the ledger.
MovesOf(s) == IF s.do = "update" THEN {s.part} ELSE {}
NotesOf(s) == CASE s.do = "claim" -> {s.part}
                [] s.do = "record" -> {p[1] : p \in s.parts}
                [] OTHER -> {}
Moves(q) == UNION {MovesOf(q[j]) : j \in DOMAIN q}
Notes(q) == UNION {NotesOf(q[j]) : j \in DOMAIN q}

\* What an earlier statement s and a later one t of one program agree on: no
\* part is moved or noted twice, the payer's part comes first.
Before(o, s, t) ==
    /\ t.do # "look"
    /\ MovesOf(s) \cap MovesOf(t) = {}
    /\ NotesOf(s) \cap NotesOf(t) = {}
    /\ 0 \in MovesOf(t) => MovesOf(s) = {}
    /\ 0 \in NotesOf(t) => NotesOf(s) = {} /\ (Clamps(o) => MovesOf(s) = {})

Proper(o, q) ==
    /\ q \in Seq(Stmts(o))
    /\ \A i, j \in DOMAIN q : i < j => Before(o, q[i], q[j])

Looks(q) == \E j \in DOMAIN q : q[j].do = "look"

-----------------------------------------------------------------------------
(* Programs.                                                               *)

LEMMA StmtForms ==
    ASSUME NEW o \in OpType, NEW s \in Stmts(o)
    PROVE  \/ \E p \in Parts(o) : s = Update(p, ChangeOf(o, p))
           \/ \E p \in Parts(o) : s = Record({<<p, ChangeOf(o, p)>>})
           \/ \E p \in Parts(o) \ {0} : s = Record({<<0, o.pay>>, <<p, ChangeOf(o, p)>>})
           \/ ~Clamps(o) /\ s = Look
           \/ Clamps(o) /\ s = Claim(0, o.pay)
BY DEF Stmts

LEMMA StmtParts ==
    ASSUME NEW o \in OpType, NEW s \in Stmts(o)
    PROVE  MovesOf(s) \subseteq Parts(o) /\ NotesOf(s) \subseteq Parts(o)
<1>0. 0 \in Parts(o)
  BY DEF OpType, Parts
<1>1. CASE \E p \in Parts(o) : s = Update(p, ChangeOf(o, p))
  BY <1>1 DEF Update, MovesOf, NotesOf
<1>2. CASE \E p \in Parts(o) : s = Record({<<p, ChangeOf(o, p)>>})
  BY <1>2 DEF Record, MovesOf, NotesOf
<1>3. CASE \E p \in Parts(o) \ {0} : s = Record({<<0, o.pay>>, <<p, ChangeOf(o, p)>>})
  BY <1>0, <1>3 DEF Record, MovesOf, NotesOf
<1>4. CASE s = Look
  BY <1>4 DEF Look, MovesOf, NotesOf
<1>5. CASE s = Claim(0, o.pay)
  BY <1>0, <1>5 DEF Claim, MovesOf, NotesOf
<1> QED BY <1>1, <1>2, <1>3, <1>4, <1>5, StmtForms

LEMMA Finished ==
    ASSUME NEW o
    PROVE  /\ Proper(o, <<>>) /\ ~Looks(<<>>)
           /\ Moves(<<>>) = {} /\ Notes(<<>>) = {}
BY DEF Proper, Looks, Moves, Notes

LEMMA PartsOf ==
    ASSUME NEW o \in OpType, NEW q, Proper(o, q)
    PROVE  Moves(q) \subseteq Parts(o) /\ Notes(q) \subseteq Parts(o)
<1>1. \A j \in DOMAIN q : q[j] \in Stmts(o)
  BY DEF Proper
<1> QED BY <1>1, StmtParts DEF Moves, Notes

\* A program goes on.
LEMMA GoesOn ==
    ASSUME NEW o \in OpType, NEW q, Proper(o, q), q # <<>>
    PROVE  /\ Head(q) \in Stmts(o) /\ Proper(o, Tail(q)) /\ ~Looks(Tail(q))
           /\ Moves(q) = MovesOf(Head(q)) \cup Moves(Tail(q))
           /\ Notes(q) = NotesOf(Head(q)) \cup Notes(Tail(q))
           /\ MovesOf(Head(q)) \cap Moves(Tail(q)) = {}
           /\ NotesOf(Head(q)) \cap Notes(Tail(q)) = {}
           /\ 0 \in Moves(Tail(q)) => MovesOf(Head(q)) = {}
           /\ 0 \in Notes(Tail(q)) => /\ NotesOf(Head(q)) = {}
                                      /\ Clamps(o) => MovesOf(Head(q)) = {}
           /\ Head(q).do = "look" => Looks(q)
<1> DEFINE s == Head(q)
           t == Tail(q)
           n == Len(t)
<1>1. /\ q \in Seq(Stmts(o)) /\ Len(q) > 0 /\ Len(q) \in Nat
      /\ t \in Seq(Stmts(o)) /\ n = Len(q) - 1
      /\ DOMAIN q = 1..Len(q) /\ DOMAIN t = 1..n
  BY DEF Proper
<1>2. s = q[1] /\ s \in Stmts(o) /\ 1 \in DOMAIN q
  BY <1>1
<1>3. ASSUME NEW j \in DOMAIN t
      PROVE  j + 1 \in DOMAIN q /\ t[j] = q[j + 1] /\ 1 < j + 1
  BY <1>1
<1>4. ASSUME NEW j \in DOMAIN q, j # 1
      PROVE  j - 1 \in DOMAIN t /\ t[j - 1] = q[j]
  <2>1. j - 1 \in DOMAIN t /\ (j - 1) + 1 = j
    BY <1>1, <1>4
  <2> QED BY <2>1, <1>3
<1> HIDE DEF s, t, n
<1>5. \A j \in DOMAIN t : Before(o, s, t[j])
  BY <1>2, <1>3 DEF Proper
<1>6. Proper(o, t)
  <2>1. ASSUME NEW i \in DOMAIN t, NEW j \in DOMAIN t, i < j
        PROVE  Before(o, t[i], t[j])
    <3>1. i + 1 < j + 1
      BY <2>1, <1>1
    <3> QED BY <3>1, <1>3 DEF Proper
  <2> QED BY <2>1, <1>1 DEF Proper
<1>7. ~Looks(t)
  BY <1>5 DEF Looks, Before
<1>8. Moves(q) = MovesOf(s) \cup Moves(t)
  BY <1>2, <1>3, <1>4 DEF Moves
<1>9. Notes(q) = NotesOf(s) \cup Notes(t)
  BY <1>2, <1>3, <1>4 DEF Notes
<1>10. MovesOf(s) \cap Moves(t) = {} /\ (0 \in Moves(t) => MovesOf(s) = {})
  BY <1>5 DEF Before, Moves
<1>11. /\ NotesOf(s) \cap Notes(t) = {}
       /\ 0 \in Notes(t) => NotesOf(s) = {} /\ (Clamps(o) => MovesOf(s) = {})
  BY <1>5 DEF Before, Notes
<1>12. s.do = "look" => Looks(q)
  BY <1>2 DEF Looks
<1> QED BY <1>2, <1>6, <1>7, <1>8, <1>9, <1>10, <1>11, <1>12 DEF s, t

\* The statements of the credits: receiver i moves at 2i - 1, is noted at 2i.
LEMMA CreditStatements ==
    ASSUME NEW get, Len(get) \in Nat, NEW j \in 1..(2 * Len(get))
    PROVE  \E i \in 1..Len(get) :
              \/ j = 2 * i - 1 /\ Credits(get)[j] = Update(i, get[i])
              \/ j = 2 * i /\ Credits(get)[j] = Record({<<i, get[i]>>})
<1> DEFINE i == (j + 1) \div 2
           n == Len(get)
<1>1. i \in 1..n /\ (IF j % 2 = 1 THEN j = 2 * i - 1 ELSE j = 2 * i)
  BY Z3
<1>2. Credits(get)[j] = IF j % 2 = 1 THEN Update(i, get[i]) ELSE Record({<<i, get[i]>>})
  BY DEF Credits
<1> HIDE DEF i, n
<1>3. i \in 1..Len(get)
  BY <1>1 DEF n
<1> QED BY <1>1, <1>2, <1>3

\* What a program of o is: proper, and it moves and notes every part.
Starts(o, q) ==
    /\ Proper(o, q)
    /\ Moves(q) = Parts(o) /\ Notes(q) = Parts(o)

LEMMA StartDelta ==
    ASSUME NEW o \in OpType, Receivers(o), o.kind = "delta"
    PROVE  Starts(o, Program(o))
<1> DEFINE s == Claim(0, o.pay)
           t == Update(0, o.pay)
<1>1. Program(o) = <<s, t>> /\ Clamps(o) /\ Parts(o) = {0}
  BY DEF Program, Clamps, Parts, Receivers
<1>2. s \in Stmts(o) /\ t \in Stmts(o)
  BY <1>1 DEF Stmts, ChangeOf
<1>3. /\ MovesOf(s) = {} /\ NotesOf(s) = {0}
      /\ MovesOf(t) = {0} /\ NotesOf(t) = {} /\ t.do # "look"
  BY DEF MovesOf, NotesOf, Claim, Update
<1> HIDE DEF s, t
<1>4. DOMAIN Program(o) = {1, 2} /\ Program(o)[1] = s /\ Program(o)[2] = t
  BY <1>1
<1>5. Before(o, s, t)
  BY <1>3 DEF Before
<1>6. Proper(o, Program(o))
  BY <1>1, <1>2, <1>4, <1>5 DEF Proper
<1>7. Moves(Program(o)) = MovesOf(s) \cup MovesOf(t)
  BY <1>4 DEF Moves
<1>8. Notes(Program(o)) = NotesOf(s) \cup NotesOf(t)
  BY <1>4 DEF Notes
<1> QED BY <1>1, <1>3, <1>6, <1>7, <1>8 DEF Starts

LEMMA StartTransfer ==
    ASSUME NEW o \in OpType, Receivers(o), o.kind = "transfer"
    PROVE  Starts(o, Program(o))
<1> DEFINE s == Claim(0, o.pay)
           t == Update(0, o.pay)
           u == Record({<<1, o.get[1]>>})
           v == Update(1, o.get[1])
<1>0. Len(o.get) = 1
  BY DEF Receivers
<1>1. Program(o) = <<s, t, u, v>> /\ Clamps(o) /\ Parts(o) = {0, 1}
  <2>1. Program(o) = <<s, t, u, v>>
    BY DEF Program
  <2>2. Clamps(o) /\ Parts(o) = {0, 1}
    BY <1>0 DEF Clamps, Parts
  <2> QED BY <2>1, <2>2
<1>2. s \in Stmts(o) /\ t \in Stmts(o) /\ u \in Stmts(o) /\ v \in Stmts(o)
  BY <1>1 DEF Stmts, ChangeOf
<1>3. /\ MovesOf(s) = {} /\ NotesOf(s) = {0}
      /\ MovesOf(t) = {0} /\ NotesOf(t) = {} /\ t.do # "look"
      /\ MovesOf(u) = {} /\ NotesOf(u) = {1} /\ u.do # "look"
      /\ MovesOf(v) = {1} /\ NotesOf(v) = {} /\ v.do # "look"
  BY DEF MovesOf, NotesOf, Claim, Update, Record
<1> HIDE DEF s, t, u, v
<1>4. /\ DOMAIN Program(o) = {1, 2, 3, 4} /\ Program(o)[1] = s /\ Program(o)[2] = t
      /\ Program(o)[3] = u /\ Program(o)[4] = v
  BY <1>1
<1>5. /\ Before(o, s, t) /\ Before(o, s, u) /\ Before(o, s, v)
      /\ Before(o, t, u) /\ Before(o, t, v) /\ Before(o, u, v)
  BY <1>3 DEF Before
<1>6. Proper(o, Program(o))
  BY <1>1, <1>2, <1>4, <1>5 DEF Proper
<1>7. Moves(Program(o)) = MovesOf(s) \cup MovesOf(t) \cup MovesOf(u) \cup MovesOf(v)
  BY <1>4 DEF Moves
<1>8. Notes(Program(o)) = NotesOf(s) \cup NotesOf(t) \cup NotesOf(u) \cup NotesOf(v)
  BY <1>4 DEF Notes
<1> QED BY <1>1, <1>3, <1>6, <1>7, <1>8 DEF Starts

LEMMA StartCross ==
    ASSUME NEW o \in OpType, Receivers(o), o.kind = "cross"
    PROVE  Starts(o, Program(o))
<1> DEFINE s == Look
           t == Update(0, o.pay)
           u == Update(1, o.get[1])
           v == Record({<<0, o.pay>>, <<1, o.get[1]>>})
<1>0. Len(o.get) = 1
  BY DEF Receivers
<1>1. Program(o) = <<s, t, u, v>> /\ ~Clamps(o) /\ Parts(o) = {0, 1}
  <2>1. Program(o) = <<s, t, u, v>>
    BY DEF Program
  <2>2. ~Clamps(o) /\ Parts(o) = {0, 1}
    BY <1>0 DEF Clamps, Parts
  <2> QED BY <2>1, <2>2
<1>2. s \in Stmts(o) /\ t \in Stmts(o) /\ u \in Stmts(o) /\ v \in Stmts(o)
  <2>1. 0 \in Parts(o) /\ 1 \in Parts(o) \ {0}
    BY <1>1
  <2>2. ChangeOf(o, 0) = o.pay /\ ChangeOf(o, 1) = o.get[1]
    BY DEF ChangeOf
  <2> HIDE DEF s, t, u, v
  <2>3. s \in Stmts(o)
    BY <1>1 DEF Stmts, s
  <2>4. t \in Stmts(o) /\ u \in Stmts(o)
    BY <2>1, <2>2 DEF Stmts, t, u
  <2>5. v \in Stmts(o)
    BY <2>1, <2>2 DEF Stmts, v
  <2> QED BY <2>3, <2>4, <2>5
<1>3. /\ MovesOf(s) = {} /\ NotesOf(s) = {}
      /\ MovesOf(t) = {0} /\ NotesOf(t) = {} /\ t.do # "look"
      /\ MovesOf(u) = {1} /\ NotesOf(u) = {} /\ u.do # "look"
      /\ MovesOf(v) = {} /\ NotesOf(v) = {0, 1} /\ v.do # "look"
  BY DEF MovesOf, NotesOf, Look, Update, Record
<1> HIDE DEF s, t, u, v
<1>4. /\ DOMAIN Program(o) = {1, 2, 3, 4} /\ Program(o)[1] = s /\ Program(o)[2] = t
      /\ Program(o)[3] = u /\ Program(o)[4] = v
  BY <1>1
<1>5. /\ Before(o, s, t) /\ Before(o, s, u) /\ Before(o, s, v)
      /\ Before(o, t, u) /\ Before(o, t, v) /\ Before(o, u, v)
  BY <1>1, <1>3 DEF Before
<1>6. Proper(o, Program(o))
  BY <1>1, <1>2, <1>4, <1>5 DEF Proper
<1>7. Moves(Program(o)) = MovesOf(s) \cup MovesOf(t) \cup MovesOf(u) \cup MovesOf(v)
  BY <1>4 DEF Moves
<1>8. Notes(Program(o)) = NotesOf(s) \cup NotesOf(t) \cup NotesOf(u) \cup NotesOf(v)
  BY <1>4 DEF Notes
<1> QED BY <1>1, <1>3, <1>6, <1>7, <1>8 DEF Starts

LEMMA StartBatch ==
    ASSUME NEW o \in OpType, Receivers(o), o.kind = "batch"
    PROVE  Starts(o, Program(o))
<1> DEFINE s == Look
           t == Update(0, o.pay)
           u == Record({<<0, o.pay>>})
           n == Len(o.get)
           P == Program(o)
           C == Credits(o.get)
           move(i) == Update(i, ChangeOf(o, i))
           note(i) == Record({<<i, ChangeOf(o, i)>>})
<1>0. n \in Nat /\ Parts(o) = 0..n /\ ~Clamps(o)
  BY DEF OpType, Parts, Clamps
<1>1. ASSUME NEW j \in 1..(2 * n)
      PROVE  \E i \in 1..n : \/ j = 2 * i - 1 /\ C[j] = move(i)
                             \/ j = 2 * i /\ C[j] = note(i)
  <2>1. PICK i \in 1..n : \/ j = 2 * i - 1 /\ C[j] = Update(i, o.get[i])
                          \/ j = 2 * i /\ C[j] = Record({<<i, o.get[i]>>})
    BY <1>0, CreditStatements
  <2>2. ChangeOf(o, i) = o.get[i]
    BY <1>0 DEF ChangeOf
  <2> QED BY <2>1, <2>2
<1>2. C \in Seq(Stmts(o)) /\ Len(C) = 2 * n
  <2>1. \A i \in 1..n : move(i) \in Stmts(o) /\ note(i) \in Stmts(o)
    <3>1. 1..n \subseteq Parts(o)
      BY <1>0
    <3> HIDE DEF n
    <3> QED BY <3>1, Zenon DEF Stmts
  <2>2. \A j \in 1..(2 * n) : C[j] \in Stmts(o)
    BY <1>1, <2>1
  <2> HIDE DEF move, note
  <2>3. C = [j \in 1..(2 * n) |-> C[j]] /\ 2 * n \in Nat
    BY <1>0 DEF Credits
  <2> HIDE DEF C
  <2> QED BY <2>2, <2>3
<1>3. <<s, t, u>> \in Seq(Stmts(o)) /\ Len(<<s, t, u>>) = 3
  <2>1. s \in Stmts(o) /\ t \in Stmts(o) /\ u \in Stmts(o)
    <3>1. 0 \in Parts(o) /\ ChangeOf(o, 0) = o.pay
      BY <1>0 DEF ChangeOf
    <3> HIDE DEF n
    <3>2. s \in Stmts(o)
      BY <1>0 DEF Stmts
    <3>3. t \in Stmts(o)
      BY <3>1, Zenon DEF Stmts
    <3>4. u \in Stmts(o)
      BY <3>1, Zenon DEF Stmts
    <3> QED BY <3>2, <3>3, <3>4
  <2> QED BY <2>1
<1>4. P = <<s, t, u>> \o C
  BY DEF Program
<1>5. P \in Seq(Stmts(o)) /\ DOMAIN P = 1..(2 * n + 3)
  <2> HIDE DEF C, P
  <2> QED BY <1>0, <1>2, <1>3, <1>4
<1>6. /\ P[1] = s /\ P[2] = t /\ P[3] = u
      /\ \A j \in 1..(2 * n) : P[j + 3] = C[j]
  <2> HIDE DEF C, P, s, t, u
  <2> QED BY <1>0, <1>2, <1>3, <1>4
<1>7. /\ MovesOf(s) = {} /\ NotesOf(s) = {}
      /\ MovesOf(t) = {0} /\ NotesOf(t) = {} /\ t.do # "look"
      /\ MovesOf(u) = {} /\ NotesOf(u) = {0} /\ u.do # "look"
  BY DEF MovesOf, NotesOf, Look, Update, Record
<1>8. \A i : /\ MovesOf(move(i)) = {i} /\ NotesOf(move(i)) = {}
             /\ MovesOf(note(i)) = {} /\ NotesOf(note(i)) = {i}
             /\ move(i).do # "look" /\ note(i).do # "look"
  BY DEF MovesOf, NotesOf, Update, Record
<1> HIDE DEF s, t, u, P, C, move, note
<1>9. ASSUME NEW j \in 1..(2 * n)
      PROVE  /\ P[j + 3].do # "look"
             /\ \E i \in 1..n :
                  \/ /\ j = 2 * i - 1
                     /\ MovesOf(P[j + 3]) = {i} /\ NotesOf(P[j + 3]) = {}
                  \/ /\ j = 2 * i
                     /\ MovesOf(P[j + 3]) = {} /\ NotesOf(P[j + 3]) = {i}
  <2>1. PICK i \in 1..n : \/ j = 2 * i - 1 /\ C[j] = move(i)
                          \/ j = 2 * i /\ C[j] = note(i)
    BY <1>1
  <2>2. P[j + 3] = C[j]
    BY <1>6
  <2>3. CASE j = 2 * i - 1 /\ C[j] = move(i)
    BY <2>2, <2>3, <1>8
  <2>4. CASE j = 2 * i /\ C[j] = note(i)
    BY <2>2, <2>4, <1>8
  <2> QED BY <2>1, <2>3, <2>4
<1>10. ASSUME NEW j \in 1..(2 * n + 3), j > 3
       PROVE  j - 3 \in 1..(2 * n) /\ (j - 3) + 3 = j
  BY <1>10, <1>0
<1>11. ASSUME NEW i \in DOMAIN P, NEW j \in DOMAIN P, i < j
       PROVE  Before(o, P[i], P[j])
  <2>1. CASE j <= 3
    <3>1. \/ i = 1 /\ j = 2
          \/ i = 1 /\ j = 3
          \/ i = 2 /\ j = 3
      <4>1. i \in 1..(2 * n + 3) /\ j \in 1..(2 * n + 3)
        BY <1>5, <1>11
      <4> HIDE DEF n
      <4> QED BY <4>1, <1>11, <2>1, <1>0
    <3> QED BY <3>1, <1>0, <1>6, <1>7 DEF Before
  <2>2. CASE j > 3
    <3>1. PICK a \in 1..n :
             \/ j - 3 = 2 * a - 1 /\ MovesOf(P[j]) = {a} /\ NotesOf(P[j]) = {}
             \/ j - 3 = 2 * a /\ MovesOf(P[j]) = {} /\ NotesOf(P[j]) = {a}
      <4>1. j - 3 \in 1..(2 * n) /\ (j - 3) + 3 = j
        BY <1>5, <1>10, <2>2
      <4> QED BY <4>1, <1>9
    <3>2. P[j].do # "look"
      <4>1. j - 3 \in 1..(2 * n) /\ (j - 3) + 3 = j
        BY <1>5, <1>10, <2>2
      <4> QED BY <4>1, <1>9
    <3>3. CASE i <= 3
      <4>1. i = 1 \/ i = 2 \/ i = 3
        BY <1>5, <3>3, <1>0
      <4>2. a # 0
        BY <1>0
      <4>3. MovesOf(P[i]) \subseteq {0} /\ NotesOf(P[i]) \subseteq {0}
        BY <4>1, <1>6, <1>7
      <4> QED BY <3>1, <3>2, <4>2, <4>3 DEF Before
    <3>4. CASE i > 3
      <4>1. PICK b \in 1..n :
               \/ i - 3 = 2 * b - 1 /\ MovesOf(P[i]) = {b} /\ NotesOf(P[i]) = {}
               \/ i - 3 = 2 * b /\ MovesOf(P[i]) = {} /\ NotesOf(P[i]) = {b}
        <5>1. i - 3 \in 1..(2 * n) /\ (i - 3) + 3 = i
          BY <1>5, <1>10, <3>4
        <5> QED BY <5>1, <1>9
      <4>2. CASE a = b
        <5>1. ~(j - 3 = 2 * a - 1 /\ i - 3 = 2 * b - 1) /\ ~(j - 3 = 2 * a /\ i - 3 = 2 * b)
          BY <1>5, <1>11, <4>2, <1>0
        <5>2. 0 # a
          BY <1>0
        <5> QED BY <3>1, <3>2, <4>1, <5>1, <5>2 DEF Before
      <4>3. CASE a # b
        <5>1. 0 # a
          BY <1>0
        <5> QED BY <3>1, <3>2, <4>1, <4>3, <5>1 DEF Before
      <4> QED BY <4>2, <4>3
    <3> QED BY <3>3, <3>4, <1>5, <1>0
  <2> QED BY <2>1, <2>2, <1>5, <1>0
<1>12. Proper(o, P)
  BY <1>5, <1>11 DEF Proper
<1>13. \A i \in 1..n : /\ i \in MovesOf(P[(2 * i - 1) + 3]) /\ (2 * i - 1) + 3 \in DOMAIN P
                       /\ i \in NotesOf(P[2 * i + 3]) /\ 2 * i + 3 \in DOMAIN P
  <2> SUFFICES ASSUME NEW i \in 1..n
               PROVE  /\ i \in MovesOf(P[(2 * i - 1) + 3]) /\ (2 * i - 1) + 3 \in DOMAIN P
                      /\ i \in NotesOf(P[2 * i + 3]) /\ 2 * i + 3 \in DOMAIN P
    OBVIOUS
  <2>1. /\ 2 * i - 1 \in 1..(2 * n) /\ 2 * i \in 1..(2 * n)
        /\ (2 * i - 1) + 3 \in DOMAIN P /\ 2 * i + 3 \in DOMAIN P
    BY <1>0, <1>5
  <2>2. PICK a \in 1..n : \/ 2 * i - 1 = 2 * a - 1 /\ MovesOf(P[(2 * i - 1) + 3]) = {a}
                          \/ 2 * i - 1 = 2 * a
    BY <1>9, <2>1
  <2>3. a = i /\ MovesOf(P[(2 * i - 1) + 3]) = {a}
    BY <2>2, <1>0
  <2>4. PICK b \in 1..n : \/ 2 * i = 2 * b - 1
                          \/ 2 * i = 2 * b /\ NotesOf(P[2 * i + 3]) = {b}
    BY <1>9, <2>1
  <2>5. b = i /\ NotesOf(P[2 * i + 3]) = {b}
    BY <2>4, <1>0
  <2> QED BY <2>1, <2>3, <2>5
<1>14. Parts(o) \subseteq Moves(P) /\ Parts(o) \subseteq Notes(P)
  <2>1. 0 \in Moves(P) /\ 0 \in Notes(P)
    <3>1. 2 \in DOMAIN P /\ 3 \in DOMAIN P
      BY <1>0, <1>5
    <3> QED BY <3>1, <1>6, <1>7 DEF Moves, Notes
  <2>2. \A p \in 1..n : p \in Moves(P) /\ p \in Notes(P)
    BY <1>13 DEF Moves, Notes
  <2>3. \A p \in Parts(o) : p = 0 \/ p \in 1..n
    BY <1>0
  <2> QED BY <2>1, <2>2, <2>3
<1> QED BY <1>12, <1>14, PartsOf DEF Starts, P

LEMMA ProgramStarts ==
    ASSUME NEW c \in Calls
    PROVE  Starts(Op[c], Program(Op[c])) /\ Op[c] \in OpType
<1>1. Op[c] \in OpType /\ Receivers(Op[c])
  BY WalletAssumption
<1>2. Op[c].kind \in {"delta", "transfer", "cross", "batch"}
  BY <1>1 DEF OpType
<1> QED BY <1>1, <1>2, StartDelta, StartTransfer, StartCross, StartBatch

-----------------------------------------------------------------------------
(* Amounts.                                                                *)

\* What a set of rows, or of legs, moves on an account.
Booked(a, S) == SumFunctionOnSet([r \in S |-> r.amt], {r \in S : r.acct = a})

LEMMA BookedIsInt ==
    ASSUME NEW a, NEW S, IsFiniteSet(S), \A r \in S : r.amt \in Int
    PROVE  Booked(a, S) \in Int
<1> DEFINE T == {r \in S : r.acct = a}
           f == [r \in S |-> r.amt]
<1>1. IsFiniteSet(T) /\ \A r \in T : f[r] \in Int
  BY FS_Subset
<1> HIDE DEF T, f
<1>2. SumFunctionOnSet(f, T) \in Int
  BY <1>1, SumIsInt
<1> QED BY <1>2 DEF Booked, T, f

LEMMA BookedUnion ==
    ASSUME NEW a, NEW S, IsFiniteSet(S), NEW T, IsFiniteSet(T), S \cap T = {},
           \A r \in S \cup T : r.amt \in Int
    PROVE  Booked(a, S \cup T) = Booked(a, S) + Booked(a, T)
<1> DEFINE X == {r \in S : r.acct = a}
           Y == {r \in T : r.acct = a}
           Z == {r \in S \cup T : r.acct = a}
           f == [r \in S |-> r.amt]
           g == [r \in T |-> r.amt]
           h == [r \in S \cup T |-> r.amt]
<1>1. /\ IsFiniteSet(X) /\ IsFiniteSet(Y) /\ X \cap Y = {} /\ Z = X \cup Y
      /\ \A r \in X \cup Y : h[r] \in Int
  <2>1. X \subseteq S /\ Y \subseteq T
    OBVIOUS
  <2> QED BY <2>1, FS_Subset
<1>2. \A r \in X : f[r] \in Int /\ h[r] = f[r]
  OBVIOUS
<1>3. \A r \in Y : g[r] \in Int /\ h[r] = g[r]
  OBVIOUS
<1> HIDE DEF X, Y, Z, f, g, h
<1>4. SumFunctionOnSet(h, Z) = SumFunctionOnSet(h, X) + SumFunctionOnSet(h, Y)
  BY <1>1, SumOfUnion
<1>5. SumFunctionOnSet(h, X) = SumFunctionOnSet(f, X)
  BY <1>1, <1>2, SumSame
<1>6. SumFunctionOnSet(h, Y) = SumFunctionOnSet(g, Y)
  BY <1>1, <1>3, SumSame
<1> QED BY <1>4, <1>5, <1>6 DEF Booked, X, Y, Z, f, g, h

LEMMA BookedNone == \A a : Booked(a, {}) = 0
<1> SUFFICES ASSUME NEW a PROVE Booked(a, {}) = 0
  OBVIOUS
<1>1. {r \in {} : r.acct = a} = {}
  OBVIOUS
<1> QED BY <1>1, SumOfNone DEF Booked

LEMMA BookedOne ==
    ASSUME NEW a, NEW r, r.amt \in Int
    PROVE  Booked(a, {r}) = IF r.acct = a THEN r.amt ELSE 0
<1> DEFINE f == [x \in {r} |-> x.amt]
           T == {x \in {r} : x.acct = a}
<1>0. IsFiniteSet({}) /\ (\A y \in {} : f[y] \in Int) /\ r \notin {} /\ f[r] = r.amt
      /\ {} \cup {r} = {r} /\ f[r] \in Int
  BY FS_EmptySet
<1>1. CASE r.acct = a
  <2>1. T = {r}
    BY <1>1
  <2> HIDE DEF f, T
  <2>2. SumFunctionOnSet(f, {} \cup {r}) = SumFunctionOnSet(f, {}) + f[r]
    BY <1>0, SumAdds
  <2>3. SumFunctionOnSet(f, {r}) = r.amt
    BY <2>2, <1>0, SumOfNone
  <2> QED BY <2>1, <2>3, <1>1 DEF Booked, f, T
<1>2. CASE r.acct # a
  <2>1. T = {}
    BY <1>2
  <2> QED BY <2>1, <1>2, SumOfNone DEF Booked
<1> QED BY <1>1, <1>2

\* Rows with the same amount on the same account stand for each other.
LEMMA BookedReplaced ==
    ASSUME NEW a, NEW S, IsFiniteSet(S), \A r \in S : r.amt \in Int,
           NEW x \in S, NEW y, y.acct = x.acct, y.amt = x.amt, y \notin S \ {x}
    PROVE  Booked(a, (S \ {x}) \cup {y}) = Booked(a, S)
<1> DEFINE T == S \ {x}
<1>1. /\ IsFiniteSet(T) /\ T \cap {x} = {} /\ T \cap {y} = {} /\ S = T \cup {x}
      /\ IsFiniteSet({x}) /\ IsFiniteSet({y})
      /\ \A r \in T \cup {x} : r.amt \in Int
      /\ \A r \in T \cup {y} : r.amt \in Int
  BY FS_Subset, FS_Singleton
<1> HIDE DEF T
<1>2. Booked(a, S) = Booked(a, T) + Booked(a, {x})
  BY <1>1, BookedUnion
<1>3. Booked(a, T \cup {y}) = Booked(a, T) + Booked(a, {y})
  BY <1>1, BookedUnion
<1>4. Booked(a, {x}) = Booked(a, {y})
  BY BookedOne
<1> QED BY <1>2, <1>3, <1>4 DEF T

LEMMA LegTyped ==
    ASSUME NEW o \in OpType, NEW p \in Parts(o)
    PROVE  /\ ChangeOf(o, p) \in Change
           /\ Leg(o, p).acct \in Accounts /\ Leg(o, p).amt \in Int /\ Leg(o, p).part = p
           /\ Leg(o, p).acct = ChangeOf(o, p).acct /\ Leg(o, p).amt = ChangeOf(o, p).amt
<1>1. ChangeOf(o, p) \in Change
  BY DEF OpType, Parts, ChangeOf
<1> QED BY <1>1 DEF Leg, Change

LEMMA LegsFinite ==
    ASSUME NEW o \in OpType, NEW P, P \subseteq Parts(o)
    PROVE  IsFiniteSet(Legs(o, P)) /\ \A r \in Legs(o, P) : r.amt \in Int
<1>1. IsFiniteSet(P)
  <2>1. Len(o.get) \in Nat /\ 0 \in Int
    BY DEF OpType
  <2>2. IsFiniteSet(0..Len(o.get))
    BY <2>1, FS_Interval
  <2> QED BY <2>2, FS_Subset DEF Parts
<1>2. IsFiniteSet({Leg(o, p) : p \in P})
  <2>1. DEFINE f == [p \in P |-> Leg(o, p)]
  <2>2. {Leg(o, p) : p \in P} = {f[p] : p \in P}
    OBVIOUS
  <2>3. f \in Surjection(P, {f[p] : p \in P})
    BY DEF Surjection
  <2> HIDE DEF f
  <2> QED BY <1>1, <2>2, <2>3, FS_Surjection
<1> QED BY <1>2, LegTyped DEF Legs

Apart(o, P, Q) == P \subseteq Parts(o) /\ Q \subseteq Parts(o) /\ P \cap Q = {}

\* What two sets of parts are to change is what each of them is.
LEMMA LegsSplit ==
    ASSUME NEW o \in OpType, NEW a, NEW P, NEW Q, Apart(o, P, Q)
    PROVE  /\ Booked(a, Legs(o, P)) \in Int /\ Booked(a, Legs(o, Q)) \in Int
           /\ Booked(a, Legs(o, P \cup Q)) = Booked(a, Legs(o, P)) + Booked(a, Legs(o, Q))
<1> DEFINE S == Legs(o, P)
           T == Legs(o, Q)
<1>1. Legs(o, P \cup Q) = S \cup T
  BY DEF Legs
<1>2. S \cap T = {}
  <2> SUFFICES ASSUME NEW p \in P, NEW q \in Q, Leg(o, p) = Leg(o, q)
               PROVE  FALSE
    BY DEF Legs
  <2>1. Leg(o, p).part = p /\ Leg(o, q).part = q
    BY LegTyped DEF Apart
  <2> QED BY <2>1 DEF Apart
<1>3. /\ IsFiniteSet(S) /\ IsFiniteSet(T)
      /\ (\A r \in S : r.amt \in Int) /\ (\A r \in T : r.amt \in Int)
  BY LegsFinite DEF Apart
<1> HIDE DEF S, T
<1>4. \A r \in S \cup T : r.amt \in Int
  BY <1>3
<1>5. Booked(a, S \cup T) = Booked(a, S) + Booked(a, T)
  BY <1>2, <1>3, <1>4, BookedUnion
<1>6. Booked(a, S) \in Int /\ Booked(a, T) \in Int
  BY <1>3, BookedIsInt
<1> QED BY <1>1, <1>5, <1>6 DEF S, T

LEMMA OneLeg ==
    ASSUME NEW o \in OpType, NEW a, NEW p \in Parts(o)
    PROVE  Booked(a, Legs(o, {p})) =
             IF ChangeOf(o, p).acct = a THEN ChangeOf(o, p).amt ELSE 0
<1> DEFINE r == Leg(o, p)
<1>1. Legs(o, {p}) = {r}
  BY DEF Legs
<1>2. r.amt \in Int /\ r.acct = ChangeOf(o, p).acct /\ r.amt = ChangeOf(o, p).amt
  BY LegTyped
<1> HIDE DEF r
<1>3. Booked(a, {r}) = IF r.acct = a THEN r.amt ELSE 0
  BY <1>2, BookedOne
<1> QED BY <1>1, <1>2, <1>3

-----------------------------------------------------------------------------
(* The inductive invariant.                                                *)

RowRec == [txn : STRING \cup Accounts, part : Nat, clamp : BOOLEAN,
           acct : Accounts, amt : Int,
           status : {"pending", "completed", "rejected"}, after : Int]

LEMMA RowRewritten ==
    ASSUME NEW r \in RowRec, NEW s \in {"pending", "completed", "rejected"}, NEW v \in Int
    PROVE  [r EXCEPT !.status = s, !.after = v] \in RowRec
BY DEF RowRec

\* A row that notes a part has that part's change.
Fits(o, r) ==
    /\ r.part \in Parts(o)
    /\ r.acct = ChangeOf(o, r.part).acct
    /\ r.amt = ChangeOf(o, r.part).amt

\* The rows n a transaction of o has inserted with the statements q to come:
\* one for each part that is noted, and what the ceiling cut off.
RowsOf(o, q, n) ==
    /\ IsFiniteSet(n)
    /\ \A r \in n :
         /\ r \in RowRec /\ r.txn = o.txn
         /\ r.status \in {"pending", "completed"}
         /\ r.status = "pending" => r.part = 0 /\ 0 \in Moves(q)
         /\ ~r.clamp => Fits(o, r) /\ r.part \notin Notes(q)
         /\ r.clamp => r.part \in Parts(o) \ Moves(q)
    /\ \A r, s \in n : Key(r) = Key(s) => r = s
    /\ \A p \in Parts(o) \ Notes(q) : \E r \in n : r.part = p /\ ~r.clamp

\* A transaction of o with the statements q to come, its changes d, its locks
\* h and its rows n, whose answer so far is a: what it has changed and has
\* still to change is what it has noted and has still to note.
Normal(o, q, d, h, n, a) ==
    /\ Proper(o, q)
    /\ RowsOf(o, q, n)
    /\ 0 \in Notes(q) => n = {} /\ (Clamps(o) => 0 \in Moves(q))
    /\ 0 \in Moves(q) => Moves(q) = Parts(o) /\ \A x \in Accounts : d[x] = 0
    /\ 0 \notin Moves(q) => a = "completed"
    /\ Looks(q) => n = {} /\ h = {} /\ \A x \in Accounts : d[x] = 0
    /\ \A x \in Accounts :
         /\ d[x] + Booked(x, Legs(o, Moves(q))) =
              Booked(x, n) + Booked(x, Legs(o, Notes(q)))
         /\ d[x] # 0 => x \in h

\* A transaction that will commit its refusal and nothing else.
Refused(o, q, d, n, a) ==
    /\ \A x \in Accounts : d[x] = 0
    /\ a = "rejected"
    /\ \/ q = <<RecordRejected(o.pay)>> /\ n = {}
       \/ /\ q = <<>>
          /\ \E r \in RowRec : /\ n = {r}
                               /\ r.txn = o.txn /\ r.part = 0 /\ ~r.clamp
                               /\ r.status = "rejected"

Good(o, st, q, d, h, n, a) ==
    IF st = "open" THEN Normal(o, q, d, h, n, a) \/ Refused(o, q, d, n, a)
    ELSE q = <<>> /\ n = {} /\ h = {} /\ \A x \in Accounts : d[x] = 0

CallOK(c) ==
    Good(Op[c], stage[c], todo[c], delta[c], held[c], ins[c], ans[c].status)

\* What an answered call was told is in the ledger.
Answered(L, o, st, a) ==
    st = "answered" =>
        /\ a = "completed" => \E r \in L : r.txn = o.txn /\ r.status = "completed"
        /\ a = "rejected" => \E r \in L : r.txn = o.txn /\ r.status = "rejected"

\* The ledger L: a key is of one status and has its payer's row; if it is
\* completed, it has the row of each of its parts.
LedgerOK(L) ==
    /\ IsFiniteSet(L)
    /\ \A r \in L : /\ r \in RowRec /\ r.status # "pending"
                    /\ \E s \in L : s.txn = r.txn /\ s.part = 0 /\ ~s.clamp
    /\ \A r, s \in L : Key(r) = Key(s) => r = s
    /\ \A r, s \in L : r.txn = s.txn => r.status = s.status
    /\ \A c \in Calls : \A r \in L : r.txn = Op[c].txn /\ r.status = "completed" =>
         /\ ~r.clamp => Fits(Op[c], r)
         /\ \A p \in Parts(Op[c]) : \E s \in L : s.txn = Op[c].txn /\ s.part = p /\ ~s.clamp

Completed(L) == {r \in L : r.status = "completed"}

Shaped ==
    /\ DOMAIN stage = Calls /\ DOMAIN todo = Calls /\ DOMAIN held = Calls
    /\ DOMAIN ins = Calls /\ DOMAIN ans = Calls /\ DOMAIN tries = Calls
    /\ delta \in [Calls -> [Accounts -> Int]]
    /\ bal \in [Accounts -> Nat]

\* A transaction that has inserted rows is the only one of its key, and its
\* key is not in the ledger; nobody shares a locked balance.
Isolated(c) ==
    /\ ins[c] # {} =>
         /\ \A r \in ledger : r.txn # Op[c].txn
         /\ \A d \in Calls \ {c} : Op[d].txn = Op[c].txn => ins[d] = {}
    /\ \A d \in Calls \ {c} : held[c] \cap held[d] = {}

WalletInv ==
    /\ Shaped
    /\ LedgerOK(ledger)
    /\ \A a \in Accounts : bal[a] = Booked(a, Completed(ledger))
    /\ \A c \in Calls : /\ CallOK(c)
                        /\ Isolated(c)
                        /\ \A a \in Accounts : bal[a] + delta[c][a] >= 0
                        /\ Answered(ledger, Op[c], stage[c], ans[c].status)

-----------------------------------------------------------------------------
(* Steps of one call.                                                      *)

Others(c) ==
    \A d \in Calls \ {c} :
        /\ stage'[d] = stage[d] /\ todo'[d] = todo[d] /\ delta'[d] = delta[d]
        /\ held'[d] = held[d] /\ ins'[d] = ins[d] /\ ans'[d] = ans[d]

LEMMA LocalStep ==
    ASSUME WalletInv, NEW c \in Calls, Shaped', bal' = bal, ledger' = ledger,
           Others(c), CallOK(c)',
           \A d \in Calls \ {c} : held'[c] \cap held[d] = {},
           ins'[c] # {} =>
             /\ \A r \in ledger : r.txn # Op[c].txn
             /\ \A d \in Calls \ {c} : Op[d].txn = Op[c].txn => ins[d] = {},
           \A a \in Accounts : bal[a] + delta'[c][a] >= 0,
           Answered(ledger, Op[c], stage'[c], ans'[c].status)
    PROVE  WalletInv'
<1>1. LedgerOK(ledger)' /\ \A a \in Accounts : bal'[a] = Booked(a, Completed(ledger'))
  BY DEF WalletInv
<1>2. ASSUME NEW d \in Calls
      PROVE  CallOK(d)'
  <2>1. CASE d = c
    BY <2>1
  <2>2. CASE d # c
    BY <2>2 DEF WalletInv, Others, CallOK
  <2> QED BY <2>1, <2>2
<1>3. ASSUME NEW d \in Calls
      PROVE  Isolated(d)'
  <2>1. \A e \in Calls : Isolated(e)
    BY DEF WalletInv
  <2>2. CASE d = c
    BY <2>1, <2>2 DEF Others, Isolated
  <2>3. CASE d # c
    BY <2>1, <2>3 DEF Others, Isolated
  <2> QED BY <2>2, <2>3
<1>4. ASSUME NEW d \in Calls
      PROVE  /\ \A a \in Accounts : bal'[a] + delta'[d][a] >= 0
             /\ Answered(ledger', Op[d], stage'[d], ans'[d].status)
  BY DEF WalletInv, Others
<1> QED BY <1>1, <1>2, <1>3, <1>4 DEF WalletInv

\* A finished transaction: all its rows are completed, one for each part, or
\* it is one rejected row.
LEMMA FinishedRows ==
    ASSUME NEW o \in OpType, NEW d, NEW h, NEW n, NEW a, d \in [Accounts -> Int],
           Normal(o, <<>>, d, h, n, a) \/ Refused(o, <<>>, d, n, a)
    PROVE  /\ IsFiniteSet(n)
           /\ \A r \in n : r \in RowRec /\ r.txn = o.txn /\ r.status # "pending"
           /\ \A r, s \in n : Key(r) = Key(s) => r = s
           /\ \E r \in n : r.part = 0 /\ ~r.clamp
           /\ \A x \in Accounts : d[x] = Booked(x, Completed(n))
           /\ \/ a = "completed" /\ \A r \in n : r.status = "completed"
              \/ a = "rejected" /\ \A r \in n : r.status = "rejected"
           /\ \A r \in n : r.status = "completed" =>
                /\ ~r.clamp => Fits(o, r)
                /\ \A p \in Parts(o) : \E s \in n : s.part = p /\ ~s.clamp
<1>1. CASE Normal(o, <<>>, d, h, n, a)
  <2>1. Moves(<<>>) = {} /\ Notes(<<>>) = {} /\ Legs(o, {}) = {}
    BY Finished DEF Legs
  <2>2. RowsOf(o, <<>>, n)
    BY <1>1 DEF Normal
  <2>3. \A r \in n : /\ r \in RowRec /\ r.txn = o.txn /\ r.status = "completed"
                     /\ ~r.clamp => Fits(o, r)
    BY <2>1, <2>2 DEF RowsOf
  <2>4. IsFiniteSet(n) /\ (\A r, s \in n : Key(r) = Key(s) => r = s)
        /\ \A p \in Parts(o) : \E r \in n : r.part = p /\ ~r.clamp
    BY <2>1, <2>2 DEF RowsOf
  <2>5. 0 \in Parts(o)
    BY DEF OpType, Parts
  <2>6. Completed(n) = n
    BY <2>3 DEF Completed
  <2>7. ASSUME NEW x \in Accounts
        PROVE  d[x] = Booked(x, Completed(n))
    <3>1. d[x] + Booked(x, {}) = Booked(x, n) + Booked(x, {})
      BY <1>1, <2>1 DEF Normal
    <3>2. Booked(x, {}) = 0
      BY BookedNone
    <3>3. Booked(x, n) \in Int
      <4>1. \A r \in n : r.amt \in Int
        BY <2>3 DEF RowRec
      <4> QED BY <4>1, <2>4, BookedIsInt
    <3>4. d[x] \in Int
      OBVIOUS
    <3> QED BY <3>1, <3>2, <3>3, <3>4, <2>6
  <2>8. a = "completed"
    BY <1>1, <2>1 DEF Normal
  <2> QED BY <2>3, <2>4, <2>5, <2>7, <2>8
<1>2. CASE Refused(o, <<>>, d, n, a)
  <2>1. <<>> # <<RecordRejected(o.pay)>>
    OBVIOUS
  <2>2. PICK r \in RowRec : /\ n = {r} /\ r.txn = o.txn /\ r.part = 0 /\ ~r.clamp
                            /\ r.status = "rejected"
    BY <1>2, <2>1 DEF Refused
  <2>3. Completed(n) = {} /\ IsFiniteSet(n)
    BY <2>2, FS_Singleton DEF Completed
  <2>4. \A x \in Accounts : d[x] = Booked(x, Completed(n))
    BY <1>2, <2>3, BookedNone DEF Refused
  <2>5. a = "rejected"
    BY <1>2 DEF Refused
  <2> QED BY <2>2, <2>3, <2>4, <2>5
<1> QED BY <1>1, <1>2

\* All rows n of a transaction of o.
Whole(o, n) ==
    /\ IsFiniteSet(n)
    /\ \A r \in n : r \in RowRec /\ r.txn = o.txn /\ r.status # "pending"
    /\ \A r, s \in n : Key(r) = Key(s) => r = s
    /\ \E r \in n : r.part = 0 /\ ~r.clamp
    /\ \A r, s \in n : r.status = s.status
    /\ \A r \in n : r.status = "completed" =>
          /\ ~r.clamp => Fits(o, r)
          /\ \A p \in Parts(o) : \E s \in n : s.part = p /\ ~s.clamp

\* The ledger with the rows of a finished transaction, the only one of its
\* key.
LEMMA LedgerGrows ==
    ASSUME NEW L, LedgerOK(L), NEW c \in Calls, NEW n, Whole(Op[c], n),
           \A r \in L : r.txn # Op[c].txn
    PROVE  /\ LedgerOK(L \cup n)
           /\ \A a : Booked(a, Completed(L \cup n)) =
                       Booked(a, Completed(L)) + Booked(a, Completed(n))
<1> DEFINE M == L \cup n
<1>1. IsFiniteSet(M)
  BY FS_Union DEF LedgerOK, Whole
<1>2. ASSUME NEW r \in M
      PROVE  /\ r \in RowRec /\ r.status # "pending"
             /\ \E s \in M : s.txn = r.txn /\ s.part = 0 /\ ~s.clamp
  <2>1. CASE r \in L
    BY <2>1 DEF LedgerOK
  <2>2. CASE r \in n
    BY <2>2 DEF Whole
  <2> QED BY <2>1, <2>2
<1>3. ASSUME NEW r \in M, NEW s \in M
      PROVE  /\ Key(r) = Key(s) => r = s
             /\ r.txn = s.txn => r.status = s.status
  <2>1. Key(r) = Key(s) => r.txn = s.txn
    BY DEF Key
  <2>2. CASE r \in L /\ s \in L
    BY <2>2 DEF LedgerOK
  <2>3. CASE r \in n /\ s \in n
    BY <2>3 DEF Whole
  <2>4. CASE r \in L /\ s \in n
    BY <2>1, <2>4 DEF Whole
  <2>5. CASE r \in n /\ s \in L
    BY <2>1, <2>5 DEF Whole
  <2> QED BY <2>2, <2>3, <2>4, <2>5
<1>4. ASSUME NEW d \in Calls, NEW r \in M, r.txn = Op[d].txn, r.status = "completed"
      PROVE  /\ ~r.clamp => Fits(Op[d], r)
             /\ \A p \in Parts(Op[d]) : \E s \in M : s.txn = Op[d].txn /\ s.part = p /\ ~s.clamp
  <2>1. CASE r \in L
    BY <2>1, <1>4 DEF LedgerOK
  <2>2. CASE r \in n
    <3>1. Op[d] = Op[c]
      BY <1>4, <2>2, WalletAssumption DEF Whole
    <3> QED BY <3>1, <2>2, <1>4 DEF Whole
  <2> QED BY <2>1, <2>2
<1>5. LedgerOK(M)
  BY <1>1, <1>2, <1>3, <1>4 DEF LedgerOK
<1>6. ASSUME NEW a
      PROVE  Booked(a, Completed(M)) = Booked(a, Completed(L)) + Booked(a, Completed(n))
  <2> DEFINE S == Completed(L)
             T == Completed(n)
  <2>1. Completed(M) = S \cup T
    BY DEF Completed
  <2>2. IsFiniteSet(S) /\ IsFiniteSet(T)
    <3>1. IsFiniteSet(L) /\ IsFiniteSet(n) /\ S \subseteq L /\ T \subseteq n
      BY DEF LedgerOK, Completed, Whole
    <3> QED BY <3>1, FS_Subset
  <2>3. S \cap T = {}
    BY DEF Completed, Whole
  <2>4. \A r \in S \cup T : r.amt \in Int
    BY <1>2, <2>1 DEF Completed, RowRec
  <2> HIDE DEF S, T
  <2>5. Booked(a, S \cup T) = Booked(a, S) + Booked(a, T)
    BY <2>2, <2>3, <2>4, BookedUnion
  <2> QED BY <2>1, <2>5 DEF S, T
<1> QED BY <1>5, <1>6

\* A transaction commits: its rows and changes are now everybody's.
LEMMA PersistStep ==
    ASSUME WalletInv, NEW c \in Calls, stage[c] = "open", todo[c] = <<>>,
           Persist(c), Shaped', Others(c), CallOK(c)',
           ins'[c] = {}, held'[c] = {}, \A a \in Accounts : delta'[c][a] = 0,
           /\ stage'[c] = "answered" =>
                ans'[c].status = ans[c].status \/ ans'[c].status = "error"
    PROVE  WalletInv'
<1> DEFINE o == Op[c]
           n == ins[c]
<1>1. o \in OpType /\ delta[c] \in [Accounts -> Int]
  BY WalletAssumption DEF WalletInv, Shaped
<1>2. \/ Normal(o, <<>>, delta[c], held[c], n, ans[c].status)
      \/ Refused(o, <<>>, delta[c], n, ans[c].status)
  BY DEF WalletInv, CallOK, Good
<1>3. /\ IsFiniteSet(n)
      /\ \A r \in n : r \in RowRec /\ r.txn = o.txn /\ r.status # "pending"
      /\ \A r, s \in n : Key(r) = Key(s) => r = s
      /\ \E r \in n : r.part = 0 /\ ~r.clamp
      /\ \A x \in Accounts : delta[c][x] = Booked(x, Completed(n))
      /\ \/ ans[c].status = "completed" /\ \A r \in n : r.status = "completed"
         \/ ans[c].status = "rejected" /\ \A r \in n : r.status = "rejected"
      /\ \A r \in n : r.status = "completed" =>
           /\ ~r.clamp => Fits(o, r)
           /\ \A p \in Parts(o) : \E s \in n : s.part = p /\ ~s.clamp
  <2> HIDE DEF o, n
  <2> QED BY <1>1, <1>2, FinishedRows
<1>4. /\ \A r \in ledger : r.txn # o.txn
      /\ \A d \in Calls \ {c} : Op[d].txn = o.txn => ins[d] = {}
      /\ \A d \in Calls \ {c} : held[c] \cap held[d] = {}
  BY <1>3 DEF WalletInv, Isolated
<1>5. /\ LedgerOK(ledger \cup n)
      /\ \A a : Booked(a, Completed(ledger \cup n)) =
                  Booked(a, Completed(ledger)) + Booked(a, Completed(n))
  <2>1. LedgerOK(ledger)
    BY DEF WalletInv
  <2>2. \A r, s \in n : r.status = s.status
    BY <1>3
  <2>3. Whole(o, n) /\ \A r \in ledger : r.txn # o.txn
    <3> HIDE DEF n, o
    <3> QED BY <2>2, <1>3, <1>4 DEF Whole
  <2> HIDE DEF n
  <2> QED BY <2>1, <2>3, LedgerGrows
<1>6. ledger' = ledger \cup n /\ \A a \in Accounts : bal'[a] = bal[a] + delta[c][a]
  BY DEF Persist
<1>7. ASSUME NEW a \in Accounts
      PROVE  bal'[a] = Booked(a, Completed(ledger'))
  <2>1. bal[a] = Booked(a, Completed(ledger))
    BY DEF WalletInv
  <2>2. delta[c][a] = Booked(a, Completed(n)) /\ bal'[a] = bal[a] + delta[c][a]
    BY <1>3, <1>6
  <2> HIDE DEF n
  <2> QED BY <2>1, <2>2, <1>5, <1>6
<1>8. ASSUME NEW d \in Calls
      PROVE  CallOK(d)'
  <2>1. CASE d = c
    BY <2>1
  <2>2. CASE d # c
    BY <2>2 DEF WalletInv, Others, CallOK
  <2> QED BY <2>1, <2>2
<1>9. ASSUME NEW d \in Calls
      PROVE  Isolated(d)'
  <2>1. CASE d = c
    BY <2>1 DEF Isolated
  <2>2. CASE d # c
    <3>1. ins'[d] = ins[d] /\ held'[d] = held[d]
      BY <2>2 DEF Others
    <3>2. \A e \in Calls \ {d} : held'[d] \cap held'[e] = {}
      BY <2>2, <3>1 DEF WalletInv, Isolated, Others
    <3>3. ASSUME ins[d] # {}
          PROVE  /\ \A r \in ledger' : r.txn # Op[d].txn
                 /\ \A e \in Calls \ {d} : Op[e].txn = Op[d].txn => ins'[e] = {}
      <4>1. Op[d].txn # o.txn
        BY <1>4, <2>2, <3>3
      <4>2. \A r \in ledger' : r.txn # Op[d].txn
        BY <1>3, <1>6, <3>3, <4>1 DEF WalletInv, Isolated
      <4>3. \A e \in Calls \ {d} : Op[e].txn = Op[d].txn => ins'[e] = {}
        BY <3>3 DEF WalletInv, Isolated, Others
      <4> QED BY <4>2, <4>3
    <3> QED BY <3>1, <3>2, <3>3 DEF Isolated
  <2> QED BY <2>1, <2>2
<1>10. ASSUME NEW d \in Calls, NEW a \in Accounts
       PROVE  bal'[a] + delta'[d][a] >= 0
  <2>1. bal[a] + delta[c][a] >= 0 /\ bal[a] + delta[d][a] >= 0
    BY DEF WalletInv
  <2>2. CASE d = c
    BY <2>1, <2>2, <1>6, <1>1 DEF WalletInv, Shaped
  <2>3. CASE d # c
    <3>1. delta'[d][a] = delta[d][a]
      BY <2>3 DEF Others
    <3>2. delta[c][a] = 0 \/ delta[d][a] = 0
      <4>1. delta[c][a] # 0 => a \in held[c]
        BY <1>2 DEF Normal, Refused
      <4>2. delta[d][a] # 0 => a \in held[d]
        BY DEF WalletInv, CallOK, Good, Normal, Refused
      <4> QED BY <4>1, <4>2, <1>4, <2>3
    <3>3. bal[a] \in Int /\ delta[c][a] \in Int /\ delta[d][a] \in Int
      BY DEF WalletInv, Shaped
    <3> QED BY <2>1, <3>1, <3>2, <3>3, <1>6
  <2> QED BY <2>2, <2>3
<1>11. ASSUME NEW d \in Calls
       PROVE  Answered(ledger', Op[d], stage'[d], ans'[d].status)
  <2>1. Answered(ledger, Op[d], stage[d], ans[d].status)
    BY DEF WalletInv
  <2>2. CASE d = c
    <3>1. PICK r \in n : r.part = 0 /\ ~r.clamp
      BY <1>3
    <3>2. r \in ledger' /\ r.txn = o.txn
      BY <1>3, <1>6
    <3> QED BY <1>3, <2>2, <3>1, <3>2 DEF Answered
  <2>3. CASE d # c
    BY <2>1, <2>3, <1>6 DEF Others, Answered
  <2> QED BY <2>2, <2>3
<1>12. LedgerOK(ledger)'
  BY <1>5, <1>6
<1> QED BY <1>7, <1>8, <1>9, <1>10, <1>11, <1>12 DEF WalletInv

LEMMA FreshTransaction ==
    ASSUME NEW c \in Calls, NEW d, \A x \in Accounts : d[x] = 0, NEW a
    PROVE  Normal(Op[c], Program(Op[c]), d, {}, {}, a)
<1> DEFINE o == Op[c]
           q == Program(Op[c])
<1>1. o \in OpType /\ Proper(o, q) /\ Moves(q) = Parts(o) /\ Notes(q) = Parts(o)
  BY ProgramStarts DEF Starts
<1> HIDE DEF o, q
<1>2. 0 \in Parts(o)
  BY <1>1 DEF Parts, OpType
<1>3. RowsOf(o, q, {})
  BY <1>1, FS_EmptySet DEF RowsOf
<1>4. ASSUME NEW x \in Accounts
      PROVE  d[x] + Booked(x, Legs(o, Moves(q))) = Booked(x, {}) + Booked(x, Legs(o, Notes(q)))
  <2>1. d[x] = 0 /\ Booked(x, {}) = 0
    BY BookedNone
  <2> QED BY <2>1, <1>1
<1>5. Normal(o, q, d, {}, {}, a)
  BY <1>1, <1>2, <1>3, <1>4 DEF Normal
<1> QED BY <1>5 DEF o, q

\* A ROLLBACK leaves nothing: the call starts over or answers an error.
LEMMA RollbackLeaves ==
    ASSUME WalletInv, NEW c \in Calls, stage[c] = "open", Rollback(c), bal' \in [Accounts -> Nat]
    PROVE  /\ Shaped' /\ Others(c) /\ CallOK(c)'
           /\ ins'[c] = {} /\ held'[c] = {} /\ \A a \in Accounts : delta'[c][a] = 0
           /\ stage'[c] = "answered" => ans'[c].status = "error"
<1>1. Shaped /\ Clear(c)
  BY DEF WalletInv, Rollback
<1>2. /\ delta'[c] = [a \in Accounts |-> 0] /\ held'[c] = {} /\ ins'[c] = {}
      /\ delta' \in [Calls -> [Accounts -> Int]]
      /\ DOMAIN held' = Calls /\ DOMAIN ins' = Calls
      /\ \A d \in Calls \ {c} : delta'[d] = delta[d] /\ held'[d] = held[d] /\ ins'[d] = ins[d]
  BY <1>1 DEF Clear, Shaped
<1>3. CASE tries[c] = 1 /\ Clamps(Op[c])
  <2>1. /\ stage' = stage /\ tries' = [tries EXCEPT ![c] = 2]
        /\ todo' = [todo EXCEPT ![c] = Program(Op[c])]
        /\ ans' = [ans EXCEPT ![c] = NoAnswer]
    BY <1>3 DEF Rollback
  <2>2. Shaped' /\ Others(c)
    BY <1>1, <1>2, <2>1 DEF Shaped, Others
  <2>3. todo'[c] = Program(Op[c]) /\ stage'[c] = "open"
    BY <1>1, <2>1 DEF Shaped
  <2>4. CallOK(c)'
    <3>1. \A x \in Accounts : delta'[c][x] = 0
      BY <1>2
    <3>2. Normal(Op[c], Program(Op[c]), delta'[c], {}, {}, ans'[c].status)
      BY <3>1, FreshTransaction
    <3> QED BY <2>3, <1>2, <3>2 DEF CallOK, Good
  <2> QED BY <1>2, <2>2, <2>3, <2>4
<1>4. CASE ~(tries[c] = 1 /\ Clamps(Op[c]))
  <2>1. Answer(c, [NoAnswer EXCEPT !.status = "error"])
    BY <1>4 DEF Rollback
  <2>2. Shaped' /\ Others(c)
    BY <1>1, <1>2, <2>1 DEF Shaped, Others, Answer
  <2>3. todo'[c] = <<>> /\ stage'[c] = "answered" /\ ans'[c].status = "error"
    BY <1>1, <2>1 DEF Shaped, Answer, NoAnswer
  <2>4. CallOK(c)'
    BY <2>3, <1>2 DEF CallOK, Good
  <2> QED BY <1>2, <2>2, <2>3, <2>4
<1> QED BY <1>3, <1>4

LEMMA RollbackKeeps ==
    ASSUME WalletInv, NEW c \in Calls, stage[c] = "open", Rollback(c),
           bal' = bal, ledger' = ledger
    PROVE  WalletInv'
<1>1. bal' \in [Accounts -> Nat]
  BY DEF WalletInv, Shaped
<1>2. /\ Shaped' /\ Others(c) /\ CallOK(c)'
      /\ ins'[c] = {} /\ held'[c] = {} /\ \A a \in Accounts : delta'[c][a] = 0
      /\ stage'[c] = "answered" => ans'[c].status = "error"
  BY <1>1, RollbackLeaves
<1>3. \A a \in Accounts : bal[a] + delta'[c][a] >= 0
  BY <1>2 DEF WalletInv, Shaped
<1>4. Answered(ledger, Op[c], stage'[c], ans'[c].status)
  BY <1>2 DEF Answered
<1>5. \A d \in Calls \ {c} : held'[c] \cap held[d] = {}
  BY <1>2
<1>6. ins'[c] # {} =>
             /\ \A r \in ledger : r.txn # Op[c].txn
             /\ \A d \in Calls \ {c} : Op[d].txn = Op[c].txn => ins[d] = {}
  BY <1>2
<1> QED BY <1>2, <1>3, <1>4, <1>5, <1>6, LocalStep

\* What the balances of a finished transaction will be.
LEMMA PersistTyped ==
    ASSUME WalletInv, NEW c \in Calls, Persist(c)
    PROVE  bal' \in [Accounts -> Nat]
<1>1. \A a \in Accounts : bal[a] + delta[c][a] \in Nat
  BY DEF WalletInv, Shaped
<1> QED BY <1>1 DEF Persist

LEMMA CommitKeeps ==
    ASSUME WalletInv, NEW c \in Calls, Commit(c)
    PROVE  WalletInv'
<1>1. /\ stage[c] = "open" /\ todo[c] = <<>> /\ Persist(c) /\ Clear(c)
      /\ Answer(c, ans[c]) /\ Shaped
  BY DEF Commit, WalletInv
<1>2. bal' \in [Accounts -> Nat]
  BY <1>1, PersistTyped
<1>3. /\ Shaped' /\ Others(c)
      /\ ins'[c] = {} /\ held'[c] = {} /\ \A a \in Accounts : delta'[c][a] = 0
      /\ stage'[c] = "answered" /\ todo'[c] = <<>> /\ ans'[c] = ans[c]
  BY <1>1, <1>2 DEF Shaped, Others, Clear, Answer
<1>4. CallOK(c)'
  BY <1>3 DEF CallOK, Good
<1> QED BY <1>1, <1>3, <1>4, PersistStep

LEMMA LoseKeeps ==
    ASSUME WalletInv, NEW c \in Calls, Lose(c)
    PROVE  WalletInv'
<1>1. stage[c] = "open" /\ Rollback(c)
  BY DEF Lose
<1>2. CASE UNCHANGED <<bal, ledger>>
  BY <1>1, <1>2, RollbackKeeps
<1>3. CASE todo[c] = <<>> /\ Persist(c)
  <2>1. bal' \in [Accounts -> Nat]
    BY <1>3, PersistTyped
  <2>2. /\ Shaped' /\ Others(c) /\ CallOK(c)'
        /\ ins'[c] = {} /\ held'[c] = {} /\ \A a \in Accounts : delta'[c][a] = 0
        /\ stage'[c] = "answered" => ans'[c].status = "error"
    BY <1>1, <2>1, RollbackLeaves
  <2> QED BY <1>1, <1>3, <2>2, PersistStep
<1> QED BY <1>2, <1>3 DEF Lose

LEMMA BreakDeadlockKeeps ==
    ASSUME WalletInv, NEW c \in Calls, BreakDeadlock(c)
    PROVE  WalletInv'
<1>1. stage[c] = "open"
  <2>1. Blockers(c) # {}
    BY DEF BreakDeadlock, Deadlocked
  <2> QED BY <2>1 DEF Blockers
<1> QED BY <1>1, RollbackKeeps DEF BreakDeadlock

-----------------------------------------------------------------------------
(* The handlers.                                                           *)

LEMMA CallKeeps ==
    ASSUME WalletInv, NEW c \in Calls, Request(c)
    PROVE  WalletInv'
<1>1. /\ stage[c] = "idle" /\ bal' = bal /\ ledger' = ledger /\ delta' = delta
      /\ held' = held /\ ins' = ins /\ ans' = ans /\ Shaped
  BY DEF Request, WalletInv
<1>2. /\ todo[c] = <<>> /\ ins[c] = {} /\ held[c] = {}
      /\ \A x \in Accounts : delta[c][x] = 0
  BY <1>1 DEF WalletInv, CallOK, Good
<1>3. CASE stage' = [stage EXCEPT ![c] = "over"] /\ UNCHANGED <<todo, tries, snap>>
  <2>1. Shaped' /\ Others(c) /\ stage'[c] = "over" /\ todo'[c] = <<>>
    BY <1>1, <1>2, <1>3 DEF Shaped, Others
  <2>2. CallOK(c)'
    BY <1>1, <1>2, <2>1 DEF CallOK, Good
  <2>3. Answered(ledger, Op[c], stage'[c], ans'[c].status)
    BY <2>1 DEF Answered
  <2>4. \A a \in Accounts : bal[a] + delta'[c][a] >= 0
    BY <1>1, <1>2 DEF WalletInv
  <2> QED BY <1>1, <1>2, <2>1, <2>2, <2>3, <2>4, LocalStep
<1>4. CASE /\ stage' = [stage EXCEPT ![c] = "open"]
           /\ todo' = [todo EXCEPT ![c] = Program(Op[c])]
           /\ tries' = [tries EXCEPT ![c] = 1]
  <2>1. Shaped' /\ Others(c) /\ stage'[c] = "open" /\ todo'[c] = Program(Op[c])
    BY <1>1, <1>4 DEF Shaped, Others
  <2>2. Normal(Op[c], Program(Op[c]), delta[c], {}, {}, ans[c].status)
    BY <1>2, FreshTransaction
  <2>3. CallOK(c)'
    BY <1>1, <1>2, <2>1, <2>2 DEF CallOK, Good
  <2>4. Answered(ledger, Op[c], stage'[c], ans'[c].status)
    BY <2>1 DEF Answered
  <2>5. \A a \in Accounts : bal[a] + delta'[c][a] >= 0
    BY <1>1, <1>2 DEF WalletInv
  <2> QED BY <1>1, <1>2, <2>1, <2>3, <2>4, <2>5, LocalStep
<1> QED BY <1>3, <1>4 DEF Request

LEMMA FinishKeeps ==
    ASSUME WalletInv, NEW c \in Calls, Finish(c)
    PROVE  WalletInv'
<1>1. /\ stage[c] = "answered" /\ bal' = bal /\ ledger' = ledger /\ delta' = delta
      /\ held' = held /\ ins' = ins /\ todo' = todo /\ tries' = tries /\ Shaped
      /\ stage' = [stage EXCEPT ![c] = "over"] /\ ans' = [ans EXCEPT ![c] = NoAnswer]
  BY DEF Finish, WalletInv, tx
<1>2. /\ todo[c] = <<>> /\ ins[c] = {} /\ held[c] = {}
      /\ \A x \in Accounts : delta[c][x] = 0
  BY <1>1 DEF WalletInv, CallOK, Good
<1>3. Shaped' /\ Others(c) /\ stage'[c] = "over"
  BY <1>1 DEF Shaped, Others
<1>4. CallOK(c)'
  BY <1>1, <1>2, <1>3 DEF CallOK, Good
<1>5. Answered(ledger, Op[c], stage'[c], ans'[c].status)
  BY <1>3 DEF Answered
<1>6. \A a \in Accounts : bal[a] + delta'[c][a] >= 0
  BY <1>1, <1>2 DEF WalletInv
<1> QED BY <1>1, <1>2, <1>3, <1>4, <1>5, <1>6, LocalStep

LEMMA RestartKeeps ==
    ASSUME WalletInv, Restart
    PROVE  WalletInv'
<1>1. /\ stage' = [c \in Calls |-> IF stage[c] = "idle" THEN "idle" ELSE "over"]
      /\ delta' = [c \in Calls |-> [a \in Accounts |-> 0]]
      /\ held' = [c \in Calls |-> {}] /\ ins' = [c \in Calls |-> {}]
      /\ todo' = [c \in Calls |-> <<>>] /\ tries' = [c \in Calls |-> 0]
      /\ ans' = [c \in Calls |-> NoAnswer] /\ bal' = bal /\ ledger' = ledger
  BY DEF Restart
<1>2. Shaped'
  BY <1>1 DEF WalletInv, Shaped
<1>3. ASSUME NEW c \in Calls
      PROVE  CallOK(c)' /\ Isolated(c)' /\ Answered(ledger', Op[c], stage'[c], ans'[c].status)
  BY <1>1 DEF CallOK, Good, Isolated, Answered
<1>4. ASSUME NEW c \in Calls, NEW a \in Accounts
      PROVE  bal'[a] + delta'[c][a] >= 0
  BY <1>1 DEF WalletInv, Shaped
<1>5. LedgerOK(ledger)' /\ \A a \in Accounts : bal'[a] = Booked(a, Completed(ledger'))
  BY <1>1 DEF WalletInv
<1> QED BY <1>2, <1>3, <1>4, <1>5 DEF WalletInv

LEMMA IdleKeeps ==
    ASSUME WalletInv,
           UNCHANGED <<bal, ledger, todo, delta, held, ins, stage, tries, ans>>
    PROVE  WalletInv'
<1>1. Shaped' /\ LedgerOK(ledger)' /\ \A a \in Accounts : bal'[a] = Booked(a, Completed(ledger'))
  BY DEF WalletInv, Shaped
<1>2. ASSUME NEW c \in Calls
      PROVE  /\ CallOK(c)' /\ Isolated(c)' /\ Answered(ledger', Op[c], stage'[c], ans'[c].status)
             /\ \A a \in Accounts : bal'[a] + delta'[c][a] >= 0
  BY DEF WalletInv, CallOK, Isolated
<1> QED BY <1>1, <1>2 DEF WalletInv

\* The opening balances are rows of the ledger.
LEMMA OpeningRows ==
    ASSUME Init
    PROVE  LedgerOK(ledger) /\ \A a \in Accounts : bal[a] = Booked(a, Completed(ledger))
<1> DEFINE row(a) == [txn |-> a, part |-> 0, clamp |-> FALSE, acct |-> a,
                      amt |-> Opening[a], status |-> "completed", after |-> Opening[a]]
<1>1. /\ ledger = {row(a) : a \in Accounts} /\ bal = Opening
      /\ IsFiniteSet(Accounts) /\ \A a \in Accounts : Opening[a] \in Int
  BY WalletAssumption DEF Init
<1>2. IsFiniteSet(ledger)
  <2> DEFINE f == [a \in Accounts |-> row(a)]
  <2>1. ledger = {f[a] : a \in Accounts}
    BY <1>1
  <2>2. f \in Surjection(Accounts, {f[a] : a \in Accounts})
    BY DEF Surjection
  <2> HIDE DEF f
  <2> QED BY <1>1, <2>1, <2>2, FS_Surjection
<1>3. \A a \in Accounts :
        /\ row(a) \in RowRec /\ row(a).status = "completed" /\ row(a).txn = a
        /\ row(a).part = 0 /\ ~row(a).clamp /\ row(a).acct = a /\ row(a).amt = Opening[a]
  BY <1>1 DEF RowRec
<1> HIDE DEF row
<1>4. ASSUME NEW r \in ledger
      PROVE  \E a \in Accounts : r = row(a)
  BY <1>1
<1>5. \A c \in Calls : \A r \in ledger : r.txn # Op[c].txn
  <2> SUFFICES ASSUME NEW c \in Calls, NEW a \in Accounts
               PROVE  row(a).txn # Op[c].txn
    BY <1>4
  <2> QED BY <1>3, WalletAssumption
<1>6. LedgerOK(ledger)
  <2>1. \A r \in ledger : /\ r \in RowRec /\ r.status # "pending"
                          /\ \E s \in ledger : s.txn = r.txn /\ s.part = 0 /\ ~s.clamp
    BY <1>3, <1>4
  <2>2. \A r, s \in ledger : Key(r) = Key(s) => r = s
    BY <1>3, <1>4 DEF Key
  <2>3. \A r, s \in ledger : r.txn = s.txn => r.status = s.status
    BY <1>3, <1>4
  <2> QED BY <1>2, <1>5, <2>1, <2>2, <2>3 DEF LedgerOK
<1>7. ASSUME NEW a \in Accounts
      PROVE  Opening[a] = Booked(a, Completed(ledger))
  <2> DEFINE r == row(a)
             S == {r}
             T == ledger \ {r}
  <2>1. Completed(ledger) = S \cup T /\ r \in ledger
    BY <1>1, <1>3, <1>4 DEF Completed
  <2>2. IsFiniteSet(S) /\ IsFiniteSet(T) /\ S \cap T = {}
    BY <1>2, FS_Subset, FS_Singleton
  <2>3. \A x \in S \cup T : x.amt \in Int
    BY <1>1, <1>3, <1>4
  <2>4. {x \in T : x.acct = a} = {}
    BY <1>3, <1>4
  <2>5. r.acct = a /\ r.amt = Opening[a] /\ r.amt \in Int
    BY <1>1, <1>3
  <2> HIDE DEF T, r
  <2>6. Booked(a, T) = 0
    BY <2>4, SumOfNone DEF Booked
  <2>7. Booked(a, S) = Opening[a]
    BY <2>5, BookedOne
  <2> HIDE DEF S
  <2>8. Booked(a, S \cup T) = Booked(a, S) + Booked(a, T)
    BY <2>2, <2>3, BookedUnion
  <2> QED BY <2>1, <2>6, <2>7, <2>8, <1>1
<1> QED BY <1>1, <1>6, <1>7

LEMMA InitKeeps == Init => WalletInv
<1> SUFFICES ASSUME Init PROVE WalletInv
  OBVIOUS
<1>1. LedgerOK(ledger) /\ \A a \in Accounts : bal[a] = Booked(a, Completed(ledger))
  BY OpeningRows
<1>2. /\ bal = Opening /\ stage = [c \in Calls |-> "idle"]
      /\ delta = [c \in Calls |-> [a \in Accounts |-> 0]]
      /\ held = [c \in Calls |-> {}] /\ ins = [c \in Calls |-> {}]
      /\ todo = [c \in Calls |-> <<>>] /\ tries = [c \in Calls |-> 0]
      /\ ans = [c \in Calls |-> NoAnswer]
  BY DEF Init
<1>3. Shaped
  BY <1>2, WalletAssumption DEF Shaped
<1>4. ASSUME NEW c \in Calls
      PROVE  /\ CallOK(c) /\ Isolated(c) /\ Answered(ledger, Op[c], stage[c], ans[c].status)
             /\ \A a \in Accounts : bal[a] + delta[c][a] >= 0
  <2>1. CallOK(c) /\ Isolated(c) /\ Answered(ledger, Op[c], stage[c], ans[c].status)
    BY <1>2 DEF CallOK, Good, Isolated, Answered
  <2>2. \A a \in Accounts : bal[a] + delta[c][a] >= 0
    BY <1>2, <1>3 DEF Shaped
  <2> QED BY <2>1, <2>2
<1> QED BY <1>1, <1>3, <1>4 DEF WalletInv

-----------------------------------------------------------------------------
(* The statements.                                                         *)

\* A transaction that has inserted anything has inserted its payer's row.
LEMMA HasPayerRow ==
    ASSUME WalletInv, NEW c \in Calls, ins[c] # {}
    PROVE  \E r \in ins[c] : Key(r) = <<Op[c].txn, 0, FALSE>>
<1>1. stage[c] = "open" /\ CallOK(c) /\ Op[c] \in OpType
  BY WalletAssumption DEF WalletInv, CallOK, Good
<1>2. CASE Normal(Op[c], todo[c], delta[c], held[c], ins[c], ans[c].status)
  <2>1. 0 \in Parts(Op[c]) \ Notes(todo[c])
    BY <1>1, <1>2 DEF Normal, OpType, Parts
  <2>2. RowsOf(Op[c], todo[c], ins[c])
    BY <1>2 DEF Normal
  <2>3. PICK r \in ins[c] : r.part = 0 /\ ~r.clamp
    BY <2>1, <2>2 DEF RowsOf
  <2>4. r.txn = Op[c].txn /\ r.clamp \in BOOLEAN
    BY <2>2 DEF RowsOf, RowRec
  <2> QED BY <2>3, <2>4 DEF Key
<1>3. CASE Refused(Op[c], todo[c], delta[c], ins[c], ans[c].status)
  <2>1. PICK r \in RowRec : ins[c] = {r} /\ r.txn = Op[c].txn /\ r.part = 0 /\ ~r.clamp
    BY <1>3 DEF Refused
  <2>2. r.clamp \in BOOLEAN
    BY DEF RowRec
  <2> QED BY <2>1, <2>2 DEF Key
<1> QED BY <1>1, <1>2, <1>3 DEF CallOK, Good

LEMMA LedgerHasPayerRow ==
    ASSUME WalletInv, NEW c \in Calls, NEW s \in ledger, s.txn = Op[c].txn
    PROVE  \E r \in ledger : Key(r) = <<Op[c].txn, 0, FALSE>>
<1>1. PICK r \in ledger : r.txn = s.txn /\ r.part = 0 /\ ~r.clamp
  BY DEF WalletInv, LedgerOK
<1>2. r.clamp \in BOOLEAN
  BY DEF WalletInv, LedgerOK, RowRec
<1> QED BY <1>1, <1>2 DEF Key

\* Who inserts the payer's row waits for nobody and finds no such key: it is
\* the first and only one of its key.
LEMMA KeyIsFree ==
    ASSUME WalletInv, NEW c \in Calls, stage[c] = "open", Blockers(c) = {},
           <<Op[c].txn, 0, FALSE>> \in KeysWanted(c),
           \A r \in ledger : Key(r) # <<Op[c].txn, 0, FALSE>>
    PROVE  /\ \A r \in ledger : r.txn # Op[c].txn
           /\ \A d \in Calls \ {c} : Op[d].txn = Op[c].txn => ins[d] = {}
<1>1. \A r \in ledger : r.txn # Op[c].txn
  BY LedgerHasPayerRow
<1>2. ASSUME NEW d \in Calls \ {c}, Op[d].txn = Op[c].txn, ins[d] # {}
      PROVE  FALSE
  <2>1. PICK r \in ins[d] : Key(r) = <<Op[d].txn, 0, FALSE>>
    BY <1>2, HasPayerRow
  <2>2. d \in Blockers(c)
    BY <1>2, <2>1 DEF Blockers
  <2> QED BY <2>2
<1> QED BY <1>1, <1>2

\* The rows new note the parts N.
Noting(o, q, N, new) ==
    /\ IsFiniteSet(new)
    /\ \A r \in new : /\ r \in RowRec /\ r.txn = o.txn /\ ~r.clamp
                      /\ Fits(o, r) /\ r.part \in N
                      /\ r.status \in {"pending", "completed"}
                      /\ r.status = "pending" => r.part = 0 /\ 0 \in Moves(q)
    /\ \A r, s \in new : r.part = s.part => r = s
    /\ \A p \in N : \E r \in new : r.part = p
    /\ \A x \in Accounts : Booked(x, new) = Booked(x, Legs(o, N))

LEMMA NoteRows ==
    ASSUME NEW o \in OpType, NEW q, NEW d \in [Accounts -> Int], NEW h, NEW n, NEW a,
           Normal(o, q, d, h, n, a), q # <<>>,
           MovesOf(Head(q)) = {}, NotesOf(Head(q)) # {},
           NEW new, Noting(o, q, NotesOf(Head(q)), new)
    PROVE  Normal(o, Tail(q), d, h, n \cup new, a)
<1> DEFINE s == Head(q)
           t == Tail(q)
           N == NotesOf(s)
           m == n \cup new
<1>1. Proper(o, q) /\ RowsOf(o, q, n)
  BY DEF Normal
<1>2. /\ s \in Stmts(o) /\ Proper(o, t) /\ ~Looks(t)
      /\ Moves(q) = MovesOf(s) \cup Moves(t)
      /\ Notes(q) = N \cup Notes(t)
      /\ N \cap Notes(t) = {}
      /\ 0 \in Notes(t) => N = {}
  BY <1>1, GoesOn
<1>3. N \subseteq Parts(o) /\ Notes(t) \subseteq Parts(o)
  BY <1>2, StmtParts, PartsOf
<1> HIDE DEF s, t, N
<1>4. /\ Moves(q) = Moves(t) /\ N # {} /\ 0 \notin Notes(t) /\ Noting(o, q, N, new)
  BY <1>2 DEF s, N
<1>5. IsFiniteSet(m) /\ n \cap new = {} /\ IsFiniteSet(n) /\ IsFiniteSet(new)
  <2>1. IsFiniteSet(n) /\ IsFiniteSet(new)
    BY <1>1, <1>4 DEF RowsOf, Noting
  <2>2. \A r \in n : ~r.clamp => r.part \notin N
    BY <1>1, <1>2 DEF RowsOf
  <2>3. n \cap new = {}
    BY <1>4, <2>2 DEF Noting
  <2> QED BY <2>1, <2>3, FS_Union
<1>6. ASSUME NEW r \in m
      PROVE  /\ r \in RowRec /\ r.txn = o.txn
             /\ r.status \in {"pending", "completed"}
             /\ r.status = "pending" => r.part = 0 /\ 0 \in Moves(t)
             /\ ~r.clamp => Fits(o, r) /\ r.part \notin Notes(t)
             /\ r.clamp => r.part \in Parts(o) \ Moves(t)
  <2>1. CASE r \in n
    BY <2>1, <1>1, <1>2, <1>4 DEF RowsOf
  <2>2. CASE r \in new
    BY <2>2, <1>2, <1>4 DEF Noting
  <2> QED BY <2>1, <2>2
<1>7. ASSUME NEW r \in m, NEW u \in m, Key(r) = Key(u)
      PROVE  r = u
  <2>1. r.part = u.part /\ r.clamp = u.clamp
    BY <1>7 DEF Key
  <2>2. CASE r \in n /\ u \in n
    BY <2>2, <1>1, <1>7 DEF RowsOf
  <2>3. CASE r \in new /\ u \in new
    BY <2>1, <2>3, <1>4 DEF Noting
  <2>4. CASE r \in n /\ u \in new
    BY <2>1, <2>4, <1>1, <1>2, <1>4 DEF RowsOf, Noting
  <2>5. CASE r \in new /\ u \in n
    BY <2>1, <2>5, <1>1, <1>2, <1>4 DEF RowsOf, Noting
  <2> QED BY <2>2, <2>3, <2>4, <2>5
<1>8. ASSUME NEW p \in Parts(o) \ Notes(t)
      PROVE  \E r \in m : r.part = p /\ ~r.clamp
  <2>1. CASE p \in N
    BY <2>1, <1>4 DEF Noting
  <2>2. CASE p \notin N
    BY <2>2, <1>1, <1>2 DEF RowsOf
  <2> QED BY <2>1, <2>2
<1>9. RowsOf(o, t, m)
  BY <1>5, <1>6, <1>7, <1>8 DEF RowsOf
<1>10. ASSUME NEW x \in Accounts
       PROVE  /\ d[x] + Booked(x, Legs(o, Moves(t))) =
                    Booked(x, m) + Booked(x, Legs(o, Notes(t)))
              /\ d[x] # 0 => x \in h
  <2>1. d[x] + Booked(x, Legs(o, Moves(t))) = Booked(x, n) + Booked(x, Legs(o, Notes(q)))
    BY <1>4 DEF Normal
  <2>2. /\ Booked(x, Legs(o, Notes(q))) =
             Booked(x, Legs(o, N)) + Booked(x, Legs(o, Notes(t)))
        /\ Booked(x, Legs(o, N)) \in Int /\ Booked(x, Legs(o, Notes(t))) \in Int
    <3>1. Notes(q) = N \cup Notes(t) /\ Apart(o, N, Notes(t))
      BY <1>2, <1>3 DEF Apart
    <3>2. /\ Booked(x, Legs(o, N)) \in Int /\ Booked(x, Legs(o, Notes(t))) \in Int
          /\ Booked(x, Legs(o, N \cup Notes(t))) =
               Booked(x, Legs(o, N)) + Booked(x, Legs(o, Notes(t)))
      BY <3>1, LegsSplit
    <3> QED BY <3>1, <3>2
  <2>3. \A r \in m : r.amt \in Int
    BY <1>6 DEF RowRec
  <2>4. Booked(x, m) = Booked(x, n) + Booked(x, new)
    BY <1>5, <2>3, BookedUnion
  <2>5. Booked(x, n) \in Int
    BY <1>5, <2>3, BookedIsInt
  <2>6. Booked(x, new) = Booked(x, Legs(o, N))
    BY <1>4 DEF Noting
  <2>7. d[x] # 0 => x \in h
    BY DEF Normal
  <2> HIDE DEF m
  <2> QED BY <2>1, <2>2, <2>4, <2>5, <2>6, <2>7
<1>11. /\ 0 \in Moves(t) => Moves(t) = Parts(o) /\ \A x \in Accounts : d[x] = 0
       /\ 0 \notin Moves(t) => a = "completed"
  BY <1>4 DEF Normal
<1> HIDE DEF m
<1>12. Normal(o, t, d, h, m, a)
  BY <1>2, <1>4, <1>9, <1>10, <1>11 DEF Normal
<1> QED BY <1>12 DEF t, m

\* A call is answered, and what it is told is in the ledger.
LEMMA AnswerKeeps ==
    ASSUME WalletInv, NEW c \in Calls, NEW a, Answer(c, a), bal' = bal, ledger' = ledger,
           \/ Clear(c)
           \/ /\ UNCHANGED <<delta, held, ins>> /\ ins[c] = {} /\ held[c] = {}
              /\ \A x \in Accounts : delta[c][x] = 0,
           Answered(ledger, Op[c], "answered", a.status)
    PROVE  WalletInv'
<1>1. Shaped
  BY DEF WalletInv
<1>2. /\ ins'[c] = {} /\ held'[c] = {} /\ \A x \in Accounts : delta'[c][x] = 0
      /\ delta' \in [Calls -> [Accounts -> Int]]
      /\ DOMAIN held' = Calls /\ DOMAIN ins' = Calls
      /\ \A d \in Calls \ {c} : delta'[d] = delta[d] /\ held'[d] = held[d] /\ ins'[d] = ins[d]
  <2>1. CASE Clear(c)
    BY <2>1, <1>1 DEF Clear, Shaped
  <2>2. CASE /\ UNCHANGED <<delta, held, ins>> /\ ins[c] = {} /\ held[c] = {}
             /\ \A x \in Accounts : delta[c][x] = 0
    BY <2>2, <1>1 DEF Shaped
  <2> QED BY <2>1, <2>2
<1>3. Shaped' /\ Others(c) /\ stage'[c] = "answered" /\ todo'[c] = <<>> /\ ans'[c] = a
  BY <1>1, <1>2 DEF Answer, Shaped, Others
<1>4. CallOK(c)'
  BY <1>2, <1>3 DEF CallOK, Good
<1>5. \A x \in Accounts : bal[x] + delta'[c][x] >= 0
  BY <1>1, <1>2 DEF Shaped
<1>6. Answered(ledger, Op[c], stage'[c], ans'[c].status)
  BY <1>3
<1> QED BY <1>2, <1>3, <1>4, <1>5, <1>6, LocalStep

\* A statement other than an INSERT of final rows belongs to a program.
LEMMA NormalStatement ==
    ASSUME WalletInv, NEW c \in Calls, stage[c] = "open", todo[c] # <<>>,
           Stmt(c).do # "record"
    PROVE  /\ Normal(Op[c], todo[c], delta[c], held[c], ins[c], ans[c].status)
           /\ Op[c] \in OpType /\ Stmt(c) \in Stmts(Op[c]) /\ Shaped
<1>1. Op[c] \in OpType /\ Shaped
  BY WalletAssumption DEF WalletInv
<1>2. ~Refused(Op[c], todo[c], delta[c], ins[c], ans[c].status)
  <2>1. RecordRejected(Op[c].pay).do = "record"
    BY DEF RecordRejected, Record
  <2>2. Head(<<RecordRejected(Op[c].pay)>>) = RecordRejected(Op[c].pay)
    OBVIOUS
  <2> QED BY <2>1, <2>2 DEF Refused, Stmt
<1>3. Normal(Op[c], todo[c], delta[c], held[c], ins[c], ans[c].status)
  BY <1>2 DEF WalletInv, CallOK, Good
<1>4. Stmt(c) \in Stmts(Op[c])
  BY <1>1, <1>3, GoesOn DEF Normal, Stmt
<1> QED BY <1>1, <1>3, <1>4

LEMMA RunClaimKeeps ==
    ASSUME WalletInv, NEW c \in Calls, RunClaim(c)
    PROVE  WalletInv'
<1> DEFINE o == Op[c]
           new == {Row(c, 0, o.pay, "pending")}
<1>1. /\ stage[c] = "open" /\ todo[c] # <<>> /\ Stmt(c).do = "claim" /\ Blockers(c) = {}
      /\ bal' = bal /\ ledger' = ledger
  BY DEF RunClaim, Runs
<1>2. /\ Normal(o, todo[c], delta[c], held[c], ins[c], ans[c].status)
      /\ o \in OpType /\ Stmt(c) \in Stmts(o) /\ Shaped
  BY <1>1, NormalStatement
<1>3. Stmt(c) = Claim(0, o.pay) /\ Clamps(o)
  BY <1>1, <1>2, StmtForms DEF Update, Record, Look
<1>4. /\ MovesOf(Head(todo[c])) = {} /\ NotesOf(Head(todo[c])) = {0}
      /\ KeysWanted(c) = {<<o.txn, 0, FALSE>>}
      /\ Stmt(c).part = 0 /\ Stmt(c).ch = o.pay
  <2>1. /\ Stmt(c).part = 0 /\ Stmt(c).ch = o.pay /\ Stmt(c).do = "claim"
        /\ Head(todo[c]) = Stmt(c)
    BY <1>3 DEF Stmt, Claim
  <2>2. MovesOf(Stmt(c)) = {} /\ NotesOf(Stmt(c)) = {0}
    BY <2>1 DEF MovesOf, NotesOf
  <2>3. KeysWanted(c) = {<<o.txn, 0, FALSE>>}
    BY <2>1, <1>1 DEF KeysWanted
  <2> QED BY <2>1, <2>2, <2>3
<1> HIDE DEF o
<1>5. CASE \E r \in ledger : Key(r) \in KeysWanted(c)
  <2> DEFINE r == CHOOSE r \in ledger : Key(r) \in KeysWanted(c)
             a == [status |-> r.status, replay |-> TRUE,
                   after |-> [Opening EXCEPT ![r.acct] = r.after]]
  <2>1. Answer(c, a) /\ Clear(c)
    BY <1>5 DEF RunClaim
  <2>2. r \in ledger /\ r.txn = Op[c].txn
    BY <1>4, <1>5 DEF Key, o
  <2>3. a.status = r.status
    OBVIOUS
  <2> HIDE DEF r, a
  <2>4. Answered(ledger, Op[c], "answered", a.status)
    BY <2>2, <2>3 DEF Answered
  <2> QED BY <1>1, <2>1, <2>4, AnswerKeeps
<1>6. CASE ~ \E r \in ledger : Key(r) \in KeysWanted(c)
  <2>1. /\ ins' = [ins EXCEPT ![c] = @ \cup new]
        /\ todo' = [todo EXCEPT ![c] = Tail(@)]
        /\ UNCHANGED <<stage, ans, delta, held, tries>>
    BY <1>4, <1>6 DEF RunClaim
  <2>2. /\ Shaped' /\ Others(c) /\ ins'[c] = ins[c] \cup new /\ todo'[c] = Tail(todo[c])
        /\ stage'[c] = "open" /\ delta'[c] = delta[c] /\ held'[c] = held[c] /\ ans'[c] = ans[c]
    BY <1>1, <1>2, <2>1 DEF Shaped, Others
  <2>3. 0 \in Notes(todo[c]) /\ 0 \in Moves(todo[c])
    BY <1>1, <1>2, <1>3, <1>4, GoesOn DEF Normal, o
  <2>4. Noting(o, todo[c], NotesOf(Head(todo[c])), new)
    <3> DEFINE r == Row(c, 0, o.pay, "pending")
    <3>1. o.txn \in STRING /\ o.pay \in Change /\ 0 \in Parts(o) /\ ChangeOf(o, 0) = o.pay
      BY <1>2 DEF OpType, Parts, ChangeOf
    <3>2. /\ r.txn = o.txn /\ r.part = 0 /\ r.clamp = FALSE /\ r.acct = o.pay.acct
          /\ r.amt = o.pay.amt /\ r.status = "pending"
      BY DEF Row, o
    <3>3. r \in RowRec
      BY <3>1 DEF Row, RowRec, Change, o
    <3> HIDE DEF r
    <3>4. Fits(o, r)
      BY <3>1, <3>2 DEF Fits
    <3>5. ASSUME NEW x \in Accounts
          PROVE  Booked(x, {r}) = Booked(x, Legs(o, {0}))
      <4>1. r.amt \in Int
        BY <3>3 DEF RowRec
      <4>2. Booked(x, {r}) = IF r.acct = x THEN r.amt ELSE 0
        BY <4>1, BookedOne
      <4>3. Booked(x, Legs(o, {0})) = IF o.pay.acct = x THEN o.pay.amt ELSE 0
        BY <3>1, <1>2, OneLeg
      <4> QED BY <4>2, <4>3, <3>2
    <3>6. IsFiniteSet({r})
      BY FS_Singleton
    <3> QED BY <3>2, <3>3, <3>4, <3>5, <3>6, <2>3, <1>4 DEF Noting, r
  <2>5. Normal(o, Tail(todo[c]), delta[c], held[c], ins[c] \cup new, ans[c].status)
    <3>1. delta[c] \in [Accounts -> Int] /\ NotesOf(Head(todo[c])) # {}
      BY <1>2, <1>4 DEF Shaped
    <3> HIDE DEF new
    <3> QED BY <3>1, <1>1, <1>2, <1>4, <2>4, NoteRows
  <2>6. CallOK(c)'
    BY <2>2, <2>5 DEF CallOK, Good, o
  <2>7. /\ \A r \in ledger : r.txn # Op[c].txn
        /\ \A d \in Calls \ {c} : Op[d].txn = Op[c].txn => ins[d] = {}
    BY <1>1, <1>4, <1>6, KeyIsFree DEF o
  <2>8. Answered(ledger, Op[c], stage'[c], ans'[c].status)
    BY <2>2 DEF Answered
  <2>9. /\ \A a \in Accounts : bal[a] + delta'[c][a] >= 0
        /\ \A d \in Calls \ {c} : held'[c] \cap held[d] = {}
    BY <2>2 DEF WalletInv, Isolated
  <2> QED BY <1>1, <2>2, <2>6, <2>7, <2>8, <2>9, LocalStep
<1> QED BY <1>5, <1>6

LEMMA RunLookKeeps ==
    ASSUME WalletInv, NEW c \in Calls, RunLook(c)
    PROVE  WalletInv'
<1> DEFINE o == Op[c]
           q == todo[c]
<1>1. /\ stage[c] = "open" /\ q # <<>> /\ Stmt(c).do = "look"
      /\ bal' = bal /\ ledger' = ledger /\ UNCHANGED <<delta, held, ins>>
  BY DEF RunLook, Runs
<1>2. /\ Normal(o, q, delta[c], held[c], ins[c], ans[c].status)
      /\ o \in OpType /\ Stmt(c) \in Stmts(o) /\ Shaped
  BY <1>1, NormalStatement
<1>3. Looks(q) /\ ins[c] = {} /\ held[c] = {} /\ \A x \in Accounts : delta[c][x] = 0
  BY <1>1, <1>2, GoesOn DEF Normal, Stmt
<1>4. CASE Committed(c) # {}
  <2>1. PICK a : /\ Answer(c, a)
                 /\ a.status = IF o.kind = "cross"
                               THEN (CHOOSE r \in Committed(c) :
                                        r.part = 0 /\ ~r.clamp).status
                               ELSE "undefined"
    <3> DEFINE b == [status |-> IF o.kind = "cross"
                                THEN (CHOOSE r \in Committed(c) :
                                        r.part = 0 /\ ~r.clamp).status
                                ELSE "undefined",
                     replay |-> TRUE,
                     after |-> [x \in Accounts |-> NaN]]
    <3>1. Answer(c, b)
      BY <1>4 DEF RunLook
    <3>2. b.status = IF o.kind = "cross"
                     THEN (CHOOSE r \in Committed(c) : r.part = 0 /\ ~r.clamp).status
                     ELSE "undefined"
      OBVIOUS
    <3> HIDE DEF b
    <3> QED BY <3>1, <3>2
  <2>2. \E r \in Committed(c) : r.part = 0 /\ ~r.clamp
    <3>1. PICK s \in ledger : s.txn = Op[c].txn
      BY <1>4 DEF Committed
    <3>2. PICK r \in ledger : r.txn = s.txn /\ r.part = 0 /\ ~r.clamp
      BY DEF WalletInv, LedgerOK
    <3> QED BY <3>1, <3>2 DEF Committed
  <2>3. Answered(ledger, Op[c], "answered", a.status)
    <3>1. CASE o.kind = "cross"
      <4> DEFINE r == CHOOSE r \in Committed(c) : r.part = 0 /\ ~r.clamp
      <4>1. r \in ledger /\ r.txn = Op[c].txn
        BY <2>2 DEF Committed
      <4>2. a.status = r.status
        BY <2>1, <3>1
      <4> HIDE DEF r
      <4> QED BY <4>1, <4>2 DEF Answered
    <3>2. CASE o.kind # "cross"
      BY <2>1, <3>2 DEF Answered
    <3> QED BY <3>1, <3>2
  <2> QED BY <1>1, <1>3, <2>1, <2>3, AnswerKeeps
<1>5. CASE Committed(c) = {}
  <2>1. todo' = [todo EXCEPT ![c] = Tail(@)] /\ UNCHANGED <<stage, ans, tries>>
    BY <1>5 DEF RunLook
  <2>2. /\ Shaped' /\ Others(c) /\ ins'[c] = ins[c] /\ todo'[c] = Tail(q)
        /\ stage'[c] = "open" /\ delta'[c] = delta[c] /\ held'[c] = held[c] /\ ans'[c] = ans[c]
    BY <1>1, <1>2, <2>1 DEF Shaped, Others
  <2>3. Stmt(c) = Look
    BY <1>1, <1>2, StmtForms DEF Update, Record, Claim
  <2>4. MovesOf(Head(q)) = {} /\ NotesOf(Head(q)) = {}
    BY <2>3 DEF MovesOf, NotesOf, Look, Stmt
  <2>5. Proper(o, Tail(q)) /\ ~Looks(Tail(q)) /\ Moves(Tail(q)) = Moves(q)
        /\ Notes(Tail(q)) = Notes(q)
    <3>1. Proper(o, q)
      BY <1>2 DEF Normal
    <3>2. /\ Proper(o, Tail(q)) /\ ~Looks(Tail(q))
          /\ Moves(q) = MovesOf(Head(q)) \cup Moves(Tail(q))
          /\ Notes(q) = NotesOf(Head(q)) \cup Notes(Tail(q))
      <4> HIDE DEF o, q
      <4> QED BY <3>1, <1>1, <1>2, GoesOn
    <3> QED BY <3>2, <2>4
  <2>6. RowsOf(o, Tail(q), ins[c])
    BY <1>2, <2>5 DEF Normal, RowsOf
  <2>7. Normal(o, Tail(q), delta[c], held[c], ins[c], ans[c].status)
    <3> HIDE DEF o, q
    <3> QED BY <1>2, <2>5, <2>6 DEF Normal
  <2>8. CallOK(c)'
    BY <2>2, <2>7 DEF CallOK, Good
  <2>9. Answered(ledger, Op[c], stage'[c], ans'[c].status)
    BY <2>2 DEF Answered
  <2>10. /\ \A a \in Accounts : bal[a] + delta'[c][a] >= 0
         /\ \A d \in Calls \ {c} : held'[c] \cap held[d] = {}
    BY <2>2 DEF WalletInv, Isolated
  <2> QED BY <1>1, <1>3, <2>2, <2>8, <2>9, <2>10, LocalStep
<1> QED BY <1>4, <1>5

\* The row an INSERT of final rows makes of a part.
NoteRow(c, p, ch, st) ==
    [Row(c, p, ch, st) EXCEPT !.after = IF st = "completed" THEN View(c, ch.acct) ELSE 0]

LEMMA NoteRowTyped ==
    ASSUME NEW c \in Calls, Op[c] \in OpType, Shaped, NEW p \in Parts(Op[c]),
           NEW st \in {"completed", "rejected"}
    PROVE  LET r == NoteRow(c, p, ChangeOf(Op[c], p), st)
           IN /\ r \in RowRec /\ r.txn = Op[c].txn /\ r.part = p /\ ~r.clamp
              /\ r.status = st /\ Fits(Op[c], r)
              /\ Key(r) = <<Op[c].txn, p, FALSE>>
              /\ r.amt \in Int
              /\ \A x : Booked(x, {r}) = Booked(x, Legs(Op[c], {p}))
<1> DEFINE o == Op[c]
           ch == ChangeOf(o, p)
           r == NoteRow(c, p, ch, st)
<1>1. ch \in Change /\ o.txn \in STRING /\ p \in Nat
  BY LegTyped DEF OpType, Parts
<1>2. View(c, ch.acct) \in Int
  BY <1>1 DEF View, Shaped, Change
<1> HIDE DEF ch
<1>3. /\ r.txn = o.txn /\ r.part = p /\ r.clamp = FALSE /\ r.acct = ch.acct
      /\ r.amt = ch.amt /\ r.status = st
  BY DEF NoteRow, Row
<1>4. r \in RowRec
  <2> DEFINE v == IF st = "completed" THEN View(c, ch.acct) ELSE 0
  <2>1. v \in Int /\ ch.acct \in Accounts /\ ch.amt \in Int
    BY <1>1, <1>2 DEF Change
  <2>2. r = [Row(c, p, ch, st) EXCEPT !.after = v]
    BY DEF NoteRow
  <2> HIDE DEF v, r
  <2>3. r = [txn |-> o.txn, part |-> p, clamp |-> FALSE, acct |-> ch.acct,
             amt |-> ch.amt, status |-> st, after |-> v]
    BY <2>2 DEF Row
  <2>4. st \in {"pending", "completed", "rejected"} /\ o.txn \in STRING \cup Accounts
    BY <1>1
  <2> HIDE DEF o
  <2> QED BY <1>1, <2>1, <2>3, <2>4 DEF RowRec
<1> HIDE DEF r
<1>5. Fits(o, r)
  BY <1>3 DEF Fits, ch
<1>6. r.amt \in Int /\ Key(r) = <<o.txn, p, FALSE>>
  BY <1>3, <1>4 DEF RowRec, Key
<1>7. ASSUME NEW x
      PROVE  Booked(x, {r}) = Booked(x, Legs(o, {p}))
  <2>1. Booked(x, {r}) = IF r.acct = x THEN r.amt ELSE 0
    BY <1>6, BookedOne
  <2>2. Booked(x, Legs(o, {p})) = IF ch.acct = x THEN ch.amt ELSE 0
    <3> HIDE DEF o
    <3> QED BY OneLeg DEF ch, o
  <2> QED BY <2>1, <2>2, <1>3
<1> QED BY <1>3, <1>4, <1>5, <1>6, <1>7 DEF r, ch

\* The rows of a program's INSERT note its parts.
LEMMA RecordNotes ==
    ASSUME NEW c \in Calls, Op[c] \in OpType, Shaped, NEW s \in Stmts(Op[c]),
           s.do = "record", NEW q, NEW new,
           new = {NoteRow(c, p[1], p[2], s.status) : p \in s.parts}
    PROVE  /\ s.status = "completed" /\ MovesOf(s) = {} /\ NotesOf(s) # {}
           /\ NotesOf(s) = {p[1] : p \in s.parts}
           /\ Noting(Op[c], q, NotesOf(s), new)
           /\ \A p \in NotesOf(s) : \E r \in new : Key(r) = <<Op[c].txn, p, FALSE>>
<1> DEFINE o == Op[c]
           row(p) == NoteRow(c, p, ChangeOf(o, p), "completed")
<1>1. /\ MovesOf(s) = {} /\ NotesOf(s) = {p[1] : p \in s.parts}
  BY DEF MovesOf, NotesOf
<1>2. ASSUME NEW p \in Parts(o)
      PROVE  /\ row(p) \in RowRec /\ row(p).txn = o.txn /\ row(p).part = p
             /\ ~row(p).clamp /\ row(p).status = "completed" /\ Fits(o, row(p))
             /\ Key(row(p)) = <<o.txn, p, FALSE>> /\ row(p).amt \in Int
             /\ \A x : Booked(x, {row(p)}) = Booked(x, Legs(o, {p}))
  BY <1>2, NoteRowTyped
<1> HIDE DEF row
<1>3. CASE \E p \in Parts(o) : s = Record({<<p, ChangeOf(o, p)>>})
  <2>1. PICK p \in Parts(o) : s = Record({<<p, ChangeOf(o, p)>>})
    BY <1>3
  <2>2. s.parts = {<<p, ChangeOf(o, p)>>} /\ s.status = "completed"
    BY <2>1 DEF Record
  <2>3. NotesOf(s) = {p}
    BY <2>2, <1>1
  <2>4. new = {row(p)}
    BY <2>2 DEF row
  <2>5. IsFiniteSet(new)
    BY <2>4, FS_Singleton
  <2>6. \A x \in Accounts : Booked(x, new) = Booked(x, Legs(o, NotesOf(s)))
    BY <2>3, <2>4, <1>2
  <2>7. Noting(o, q, NotesOf(s), new)
    <3> HIDE DEF o
    <3> QED BY <2>3, <2>4, <2>5, <2>6, <1>2 DEF Noting
  <2> QED BY <1>1, <1>2, <2>2, <2>3, <2>4, <2>7
<1>4. CASE \E p \in Parts(o) \ {0} : s = Record({<<0, o.pay>>, <<p, ChangeOf(o, p)>>})
  <2>1. PICK p \in Parts(o) \ {0} : s = Record({<<0, o.pay>>, <<p, ChangeOf(o, p)>>})
    BY <1>4
  <2>2. s.parts = {<<0, o.pay>>, <<p, ChangeOf(o, p)>>} /\ s.status = "completed"
    BY <2>1 DEF Record
  <2>3. NotesOf(s) = {0, p} /\ {0} \cup {p} = {0, p}
    BY <2>2, <1>1
  <2>4. 0 \in Parts(o) /\ ChangeOf(o, 0) = o.pay
    BY DEF OpType, Parts, ChangeOf
  <2>5. new = {row(0), row(p)} /\ {row(0)} \cup {row(p)} = {row(0), row(p)}
    BY <2>2, <2>4 DEF row
  <2>6. IsFiniteSet({row(0)}) /\ IsFiniteSet({row(p)}) /\ IsFiniteSet(new)
    <3>1. IsFiniteSet({row(0)}) /\ IsFiniteSet({row(p)})
      BY FS_Singleton
    <3>2. IsFiniteSet({row(0)} \cup {row(p)})
      BY <3>1, FS_Union
    <3> QED BY <3>1, <3>2, <2>5
  <2>7. ASSUME NEW x \in Accounts
        PROVE  Booked(x, new) = Booked(x, Legs(o, NotesOf(s)))
    <3>1. {row(0)} \cap {row(p)} = {} /\ \A r \in {row(0)} \cup {row(p)} : r.amt \in Int
      <4>1. row(0).part = 0 /\ row(p).part = p /\ p # 0
        BY <1>2, <2>4
      <4>2. row(0).amt \in Int /\ row(p).amt \in Int
        BY <1>2, <2>4
      <4> QED BY <4>1, <4>2
    <3>2. Booked(x, {row(0)} \cup {row(p)}) = Booked(x, {row(0)}) + Booked(x, {row(p)})
      BY <2>6, <3>1, BookedUnion
    <3>3. Apart(o, {0}, {p})
      BY <2>4 DEF Apart
    <3>4. Booked(x, Legs(o, {0} \cup {p})) = Booked(x, Legs(o, {0})) + Booked(x, Legs(o, {p}))
      <4> HIDE DEF o
      <4> QED BY <3>3, LegsSplit DEF o
    <3>5. /\ Booked(x, {row(0)}) = Booked(x, Legs(o, {0}))
          /\ Booked(x, {row(p)}) = Booked(x, Legs(o, {p}))
      BY <1>2, <2>4
    <3> QED BY <2>3, <2>5, <3>2, <3>4, <3>5
  <2>8. Noting(o, q, NotesOf(s), new)
    <3>1. ASSUME NEW r \in new
          PROVE  /\ r \in RowRec /\ r.txn = o.txn /\ ~r.clamp
                 /\ Fits(o, r) /\ r.part \in {0, p} /\ r.status = "completed"
                 /\ r = row(r.part)
      <4>1. CASE r = row(0)
        BY <4>1, <1>2, <2>4
      <4>2. CASE r = row(p)
        BY <4>2, <1>2
      <4> QED BY <4>1, <4>2, <2>5
    <3>2. \A r, u \in new : r.part = u.part => r = u
      BY <3>1
    <3>3. \A k \in {0, p} : \E r \in new : r.part = k
      BY <1>2, <2>4, <2>5
    <3> HIDE DEF o
    <3> QED BY <2>3, <2>6, <2>7, <3>1, <3>2, <3>3 DEF Noting
  <2> QED BY <1>1, <1>2, <2>2, <2>3, <2>4, <2>5, <2>8
<1>5. \A p : s # Update(p, ChangeOf(o, p)) /\ s # Look /\ s # Claim(0, o.pay)
  BY DEF Update, Look, Claim
<1>6. \/ \E p \in Parts(o) : s = Record({<<p, ChangeOf(o, p)>>})
      \/ \E p \in Parts(o) \ {0} : s = Record({<<0, o.pay>>, <<p, ChangeOf(o, p)>>})
  <2> HIDE DEF o
  <2> QED BY <1>5, StmtForms DEF o
<1> QED BY <1>3, <1>4, <1>6

LEMMA RunRecordKeeps ==
    ASSUME WalletInv, NEW c \in Calls, RunRecord(c)
    PROVE  WalletInv'
<1> DEFINE o == Op[c]
           q == todo[c]
           new == {NoteRow(c, p[1], p[2], Stmt(c).status) : p \in Stmt(c).parts}
<1>1. /\ stage[c] = "open" /\ q # <<>> /\ Stmt(c).do = "record" /\ Blockers(c) = {}
      /\ bal' = bal /\ ledger' = ledger /\ o \in OpType /\ Shaped
  BY WalletAssumption DEF RunRecord, Runs, WalletInv
<1>2. IF \E r \in ledger, n \in new : Key(r) = Key(n)
      THEN Rollback(c)
      ELSE /\ ins' = [ins EXCEPT ![c] = @ \cup new]
           /\ todo' = [todo EXCEPT ![c] = Tail(@)]
           /\ UNCHANGED <<delta, held, stage, tries, ans>>
  BY DEF RunRecord, NoteRow
<1>3. KeysWanted(c) = {<<o.txn, p[1], FALSE>> : p \in Stmt(c).parts}
  BY <1>1 DEF KeysWanted
<1> HIDE DEF new
<1>4. CASE \E r \in ledger, n \in new : Key(r) = Key(n)
  BY <1>1, <1>2, <1>4, RollbackKeeps
<1>5. CASE ~ \E r \in ledger, n \in new : Key(r) = Key(n)
  <2>1. /\ Shaped' /\ Others(c) /\ ins'[c] = ins[c] \cup new /\ todo'[c] = Tail(q)
        /\ stage'[c] = "open" /\ delta'[c] = delta[c] /\ held'[c] = held[c] /\ ans'[c] = ans[c]
    BY <1>1, <1>2, <1>5 DEF Shaped, Others
  <2>2. Answered(ledger, Op[c], stage'[c], ans'[c].status)
    BY <2>1 DEF Answered
  <2>3. /\ \A a \in Accounts : bal[a] + delta'[c][a] >= 0
        /\ \A d \in Calls \ {c} : held'[c] \cap held[d] = {}
    BY <2>1 DEF WalletInv, Isolated
  <2>4. CASE Normal(o, q, delta[c], held[c], ins[c], ans[c].status)
    <3>0. Proper(o, q)
      BY <2>4 DEF Normal
    <3>1. Stmt(c) \in Stmts(o) /\ Stmt(c) = Head(q)
      <4> HIDE DEF o, q
      <4>1. Head(q) \in Stmts(o)
        BY <3>0, <1>1, GoesOn
      <4> QED BY <4>1 DEF Stmt, q
    <3>2. /\ MovesOf(Stmt(c)) = {} /\ NotesOf(Stmt(c)) # {}
          /\ NotesOf(Stmt(c)) = {p[1] : p \in Stmt(c).parts}
          /\ Noting(o, q, NotesOf(Stmt(c)), new)
          /\ \A p \in NotesOf(Stmt(c)) : \E r \in new : Key(r) = <<o.txn, p, FALSE>>
      BY <3>1, <1>1, RecordNotes DEF new
    <3>3. Normal(o, Tail(q), delta[c], held[c], ins[c] \cup new, ans[c].status)
      <4>1. delta[c] \in [Accounts -> Int]
        BY <1>1 DEF Shaped
      <4> HIDE DEF o, q
      <4> QED BY <4>1, <1>1, <2>4, <3>1, <3>2, NoteRows
    <3>4. CallOK(c)'
      BY <2>1, <3>3 DEF CallOK, Good
    <3>5. /\ \A r \in ledger : r.txn # o.txn
          /\ \A d \in Calls \ {c} : Op[d].txn = o.txn => ins[d] = {}
      <4>1. CASE ins[c] # {}
        BY <4>1 DEF WalletInv, Isolated
      <4>2. CASE ins[c] = {}
        <5>1. 0 \in Notes(q)
          <6>1. 0 \in Parts(o)
            BY <1>1 DEF OpType, Parts
          <6> QED BY <6>1, <4>2, <2>4 DEF Normal, RowsOf
        <5>2. 0 \in NotesOf(Stmt(c))
          <6>1. /\ Notes(q) = NotesOf(Head(q)) \cup Notes(Tail(q))
                /\ 0 \in Notes(Tail(q)) => NotesOf(Head(q)) = {}
            <7> HIDE DEF o, q
            <7> QED BY <3>0, <1>1, GoesOn
          <6> QED BY <5>1, <6>1, <3>1, <3>2
        <5>3. <<o.txn, 0, FALSE>> \in KeysWanted(c)
          BY <5>2, <3>2, <1>3
        <5>4. \A r \in ledger : Key(r) # <<o.txn, 0, FALSE>>
          BY <5>2, <3>2, <1>5
        <5> QED BY <5>3, <5>4, <1>1, KeyIsFree
      <4> QED BY <4>1, <4>2
    <3> QED BY <1>1, <2>1, <2>2, <2>3, <3>4, <3>5, LocalStep
  <2>5. CASE Refused(o, q, delta[c], ins[c], ans[c].status)
    <3>1. /\ q = <<RecordRejected(o.pay)>> /\ ins[c] = {} /\ ans[c].status = "rejected"
          /\ \A x \in Accounts : delta[c][x] = 0
      BY <1>1, <2>5 DEF Refused
    <3>2. /\ Stmt(c).status = "rejected" /\ Stmt(c).parts = {<<0, o.pay>>}
          /\ Tail(q) = <<>>
      BY <3>1 DEF Stmt, RecordRejected, Record
    <3> DEFINE r == NoteRow(c, 0, o.pay, "rejected")
    <3>3. new = {r}
      BY <3>2 DEF new
    <3>4. /\ r \in RowRec /\ r.txn = o.txn /\ r.part = 0 /\ ~r.clamp
          /\ r.status = "rejected" /\ Key(r) = <<o.txn, 0, FALSE>>
      <4>1. 0 \in Parts(o) /\ ChangeOf(o, 0) = o.pay
        BY <1>1 DEF OpType, Parts, ChangeOf
      <4>2. "rejected" \in {"completed", "rejected"} /\ Op[c] \in OpType /\ 0 \in Parts(Op[c])
        BY <4>1, <1>1
      <4> DEFINE z == NoteRow(c, 0, ChangeOf(Op[c], 0), "rejected")
      <4>3. /\ z \in RowRec /\ z.txn = Op[c].txn /\ z.part = 0 /\ ~z.clamp
            /\ z.status = "rejected" /\ Key(z) = <<Op[c].txn, 0, FALSE>>
        BY <4>2, <1>1, NoteRowTyped
      <4>4. r = z
        BY <4>1
      <4> QED BY <4>3, <4>4
    <3> HIDE DEF r
    <3>5. Refused(o, <<>>, delta[c], {r}, "rejected")
      BY <3>1, <3>4 DEF Refused
    <3>6. CallOK(c)'
      <4>1. ins'[c] = {r} /\ todo'[c] = <<>> /\ ans'[c].status = "rejected"
        BY <2>1, <3>1, <3>2, <3>3
      <4> QED BY <2>1, <4>1, <3>5 DEF CallOK, Good
    <3>7. /\ \A s \in ledger : s.txn # o.txn
          /\ \A d \in Calls \ {c} : Op[d].txn = o.txn => ins[d] = {}
      <4>1. <<o.txn, 0, FALSE>> \in KeysWanted(c)
        BY <3>2, <1>3
      <4>2. \A s \in ledger : Key(s) # <<o.txn, 0, FALSE>>
        BY <3>3, <3>4, <1>5
      <4> QED BY <4>1, <4>2, <1>1, KeyIsFree
    <3> QED BY <1>1, <2>1, <2>2, <2>3, <3>6, <3>7, LocalStep
  <2> QED BY <1>1, <2>4, <2>5 DEF WalletInv, CallOK, Good
<1> QED BY <1>4, <1>5

\* The row of a part that is moved now is completed, with balance v after it.
Mine(n, p) == {r \in n : r.part = p /\ ~r.clamp}
SettledRow(r, v) == [r EXCEPT !.status = "completed", !.after = v]
Settled(n, p, v) == (n \ Mine(n, p)) \cup {SettledRow(r, v) : r \in Mine(n, p)}

\* RowsOf with every row completed.
AllDone(n) == \A r \in n : r.status = "completed"

LEMMA SettleRows ==
    ASSUME NEW o \in OpType, NEW q, NEW n, RowsOf(o, q, n), NEW p, p \in Moves(q),
           p # 0 => 0 \notin Moves(q), NEW v \in Int
    PROVE  /\ RowsOf(o, q, Settled(n, p, v)) /\ AllDone(Settled(n, p, v))
           /\ \A x : Booked(x, Settled(n, p, v)) = Booked(x, n)
           /\ Settled(n, p, v) # {} => n # {}
<1> DEFINE mine == Mine(n, p)
           m == Settled(n, p, v)
<1>1. /\ IsFiniteSet(n)
      /\ \A r \in n :
         /\ r \in RowRec /\ r.txn = o.txn
         /\ r.status \in {"pending", "completed"}
         /\ r.status = "pending" => r.part = 0 /\ 0 \in Moves(q)
         /\ ~r.clamp => Fits(o, r) /\ r.part \notin Notes(q)
         /\ r.clamp => r.part \in Parts(o) \ Moves(q)
      /\ \A r, s \in n : Key(r) = Key(s) => r = s
      /\ \A k \in Parts(o) \ Notes(q) : \E r \in n : r.part = k /\ ~r.clamp
  BY DEF RowsOf
<1>2. \A r \in n : r.status = "pending" => r \in mine
  BY <1>1 DEF Mine
<1>3. ASSUME NEW r \in mine, NEW s \in mine
      PROVE  r = s
  <2>1. r \in n /\ s \in n /\ r.part = s.part /\ ~r.clamp /\ ~s.clamp
    BY <1>3 DEF Mine
  <2>2. r.clamp \in BOOLEAN /\ s.clamp \in BOOLEAN /\ r.txn = s.txn
    BY <1>1, <2>1 DEF RowRec
  <2> QED BY <2>1, <2>2, <1>1 DEF Key
<1>4. CASE mine = {}
  <2>1. m = n
    BY <1>4 DEF Settled
  <2>2. AllDone(n)
    BY <1>1, <1>2, <1>4 DEF AllDone
  <2> QED BY <2>1, <2>2
<1>5. CASE mine # {}
  <2>1. PICK r \in mine : mine = {r}
    BY <1>3, <1>5
  <2> DEFINE y == SettledRow(r, v)
  <2>2. r \in n /\ r.part = p /\ ~r.clamp /\ r \in RowRec
    BY <1>1, <2>1 DEF Mine
  <2>3. m = (n \ {r}) \cup {y}
    BY <2>1 DEF Settled
  <2>4. /\ y.txn = r.txn /\ y.part = r.part /\ y.clamp = r.clamp /\ y.acct = r.acct
        /\ y.amt = r.amt /\ y.status = "completed" /\ y \in RowRec
    BY <2>2 DEF SettledRow, RowRec
  <2> HIDE DEF y, m, mine
  <2>5. Key(y) = Key(r)
    BY <2>4 DEF Key
  <2>6. \A s \in n \ {r} : Key(s) # Key(y) /\ s # y
    BY <2>2, <2>5, <1>1
  <2>7. AllDone(m)
    BY <1>1, <1>2, <2>1, <2>3, <2>4 DEF AllDone
  <2>8. \A x : Booked(x, m) = Booked(x, n)
    <3>1. \A s \in n : s.amt \in Int
      BY <1>1 DEF RowRec
    <3>2. y \notin n \ {r}
      BY <2>6
    <3> QED BY <3>1, <3>2, <1>1, <2>2, <2>3, <2>4, BookedReplaced
  <2>9. RowsOf(o, q, m)
    <3>1. IsFiniteSet(m)
      <4>1. IsFiniteSet(n \ {r})
        BY <1>1, FS_Subset
      <4> QED BY <4>1, <2>3, FS_AddElement
    <3>2. ASSUME NEW s \in m
          PROVE  /\ s \in RowRec /\ s.txn = o.txn /\ s.status = "completed"
                 /\ ~s.clamp => Fits(o, s) /\ s.part \notin Notes(q)
                 /\ s.clamp => s.part \in Parts(o) \ Moves(q)
      <4>1. CASE s \in n \ {r}
        BY <4>1, <1>1, <2>3, <2>7 DEF AllDone
      <4>2. CASE s = y
        BY <4>2, <1>1, <2>2, <2>4 DEF Fits
      <4> QED BY <4>1, <4>2, <2>3
    <3>3. \A s, u \in m : Key(s) = Key(u) => s = u
      BY <1>1, <2>3, <2>6
    <3>4. ASSUME NEW k \in Parts(o) \ Notes(q)
          PROVE  \E s \in m : s.part = k /\ ~s.clamp
      <4>1. PICK s \in n : s.part = k /\ ~s.clamp
        BY <1>1
      <4>2. CASE s = r
        BY <4>1, <4>2, <2>2, <2>3, <2>4
      <4>3. CASE s # r
        BY <4>1, <4>3, <2>3
      <4> QED BY <4>2, <4>3
    <3> QED BY <3>1, <3>2, <3>3, <3>4 DEF RowsOf
  <2> QED BY <2>2, <2>7, <2>8, <2>9 DEF m
<1> QED BY <1>4, <1>5

\* The rows cut take e from, or rather add it to, the account of part p of o.
Cut(o, p, cut, e) ==
    /\ IsFiniteSet(cut)
    /\ \A r \in cut : /\ r \in RowRec /\ r.txn = o.txn /\ r.part = p /\ r.clamp
                      /\ r.status = "completed"
    /\ \A r, s \in cut : r = s
    /\ ~Clamps(o) => cut = {}
    /\ \A x : Booked(x, cut) = IF ChangeOf(o, p).acct = x THEN e ELSE 0

\* The next statement of q moves part p.
MovesNext(o, q, p) ==
    Proper(o, q) /\ q # <<>> /\ MovesOf(Head(q)) = {p} /\ NotesOf(Head(q)) = {}

\* The part is moved: what the ceiling cut off it, if anything, has a row.
LEMMA MoveRows ==
    ASSUME NEW o \in OpType, NEW q, NEW p \in Parts(o), MovesNext(o, q, p),
           NEW n, RowsOf(o, q, n), AllDone(n), NEW cut, NEW e, Cut(o, p, cut, e)
    PROVE  /\ RowsOf(o, Tail(q), n \cup cut)
           /\ \A x : Booked(x, n \cup cut) = Booked(x, n) + Booked(x, cut)
<1> DEFINE t == Tail(q)
           m == n \cup cut
<1>1. /\ Moves(q) = {p} \cup Moves(t) /\ Notes(q) = Notes(t) /\ p \notin Moves(t)
  <2>1. /\ Moves(q) = MovesOf(Head(q)) \cup Moves(t)
        /\ Notes(q) = NotesOf(Head(q)) \cup Notes(t)
        /\ MovesOf(Head(q)) \cap Moves(t) = {}
    BY GoesOn DEF MovesNext
  <2> QED BY <2>1 DEF MovesNext
<1> HIDE DEF t
<1>2. IsFiniteSet(m) /\ IsFiniteSet(n) /\ n \cap cut = {}
  <2>1. n \cap cut = {}
    BY <1>1 DEF RowsOf, Cut
  <2> QED BY <2>1, FS_Union DEF RowsOf, Cut
<1>3. ASSUME NEW r \in m
      PROVE  /\ r \in RowRec /\ r.txn = o.txn /\ r.status = "completed"
             /\ ~r.clamp => Fits(o, r) /\ r.part \notin Notes(t)
             /\ r.clamp => r.part \in Parts(o) \ Moves(t)
  <2>1. CASE r \in n
    BY <2>1, <1>1 DEF RowsOf, AllDone
  <2>2. CASE r \in cut
    BY <2>2, <1>1 DEF Cut
  <2> QED BY <2>1, <2>2
<1>4. ASSUME NEW r \in m, NEW s \in m, Key(r) = Key(s)
      PROVE  r = s
  <2>1. r.part = s.part /\ r.clamp = s.clamp
    BY <1>4 DEF Key
  <2>2. CASE r \in n /\ s \in n
    BY <2>2, <1>4 DEF RowsOf
  <2>3. CASE r \in cut /\ s \in cut
    BY <2>3 DEF Cut
  <2>4. CASE r \in n /\ s \in cut
    BY <2>1, <2>4, <1>1 DEF RowsOf, Cut
  <2>5. CASE r \in cut /\ s \in n
    BY <2>1, <2>5, <1>1 DEF RowsOf, Cut
  <2> QED BY <2>2, <2>3, <2>4, <2>5
<1>5. \A k \in Parts(o) \ Notes(t) : \E r \in m : r.part = k /\ ~r.clamp
  BY <1>1 DEF RowsOf
<1>6. RowsOf(o, t, m)
  BY <1>2, <1>3, <1>4, <1>5 DEF RowsOf
<1>7. \A r \in n \cup cut : r.amt \in Int
  BY <1>3 DEF RowRec
<1>8. \A x : Booked(x, n \cup cut) = Booked(x, n) + Booked(x, cut)
  BY <1>2, <1>7, BookedUnion DEF Cut
<1> QED BY <1>6, <1>8 DEF t, m

\* What is cut off.
LEMMA CutRows ==
    ASSUME NEW c \in Calls, Op[c] \in OpType, NEW p \in Parts(Op[c]), NEW raw \in Int, raw >= 0
    PROVE  LET ch == ChangeOf(Op[c], p)
               new == Clamped(c, raw)
               cut == ClampRows(c, p, ch, raw)
           IN new \in Nat /\ Cut(Op[c], p, cut, new - raw)
<1> DEFINE o == Op[c]
           ch == ChangeOf(o, p)
           new == Clamped(c, raw)
           cut == ClampRows(c, p, ch, raw)
<1>1. new \in Nat /\ (~Clamps(o) => new = raw)
  BY WalletAssumption DEF Clamped
<1>2. ch \in Change /\ o.txn \in STRING /\ p \in Nat
  BY LegTyped DEF OpType, Parts
<1>3. CASE new = raw
  <2>1. cut = {}
    BY <1>3 DEF ClampRows
  <2>2. \A x : Booked(x, cut) = 0 /\ new - raw = 0
    BY <2>1, <1>3, BookedNone
  <2>3. Cut(o, p, cut, new - raw)
    <3> HIDE DEF new, o, cut
    <3> QED BY <2>1, <2>2, FS_EmptySet DEF Cut
  <2> QED BY <1>1, <2>3
<1>4. CASE new # raw
  <2> DEFINE r == [txn |-> o.txn, part |-> p, clamp |-> TRUE, acct |-> ch.acct,
                   amt |-> new - raw, status |-> "completed", after |-> new]
  <2>1. cut = {r}
    BY <1>4 DEF ClampRows
  <2>2. /\ r \in RowRec /\ r.txn = o.txn /\ r.part = p /\ r.clamp
        /\ r.status = "completed" /\ r.acct = ch.acct /\ r.amt = new - raw
    <3> HIDE DEF new, ch, o
    <3> QED BY <1>1, <1>2 DEF RowRec, Change
  <2> HIDE DEF r
  <2>3. r.amt \in Int
    BY <2>2 DEF RowRec
  <2>4. \A x : Booked(x, cut) = IF ch.acct = x THEN new - raw ELSE 0
    BY <2>1, <2>2, <2>3, BookedOne
  <2>5. IsFiniteSet(cut)
    BY <2>1, FS_Singleton
  <2>6. ~Clamps(o) => cut = {}
    BY <1>1, <1>4
  <2> HIDE DEF new, ch, o, cut
  <2>7. /\ \A s \in cut : s = r
        /\ \A s, u \in cut : s = u
    BY <2>1
  <2>8. \A s \in cut : /\ s \in RowRec /\ s.txn = o.txn /\ s.part = p /\ s.clamp
                       /\ s.status = "completed"
    BY <2>2, <2>7
  <2>9. Cut(o, p, cut, new - raw)
    BY <2>4, <2>5, <2>6, <2>7, <2>8 DEF Cut, ch
  <2> QED BY <1>1, <2>9 DEF new, ch, o, cut
<1> QED BY <1>3, <1>4

\* What a move leaves of d.
Moved(o, p, d, e, f) ==
    \A x \in Accounts :
        f[x] = IF ChangeOf(o, p).acct = x THEN d[x] + ChangeOf(o, p).amt + e ELSE d[x]

LEMMA MoveKeepsNormal ==
    ASSUME NEW o \in OpType, NEW q, NEW d \in [Accounts -> Int], NEW h, NEW n, NEW a,
           Normal(o, q, d, h, n, a), NEW p \in Parts(o), MovesNext(o, q, p),
           NEW v \in Int, NEW cut, NEW e \in Int, Cut(o, p, cut, e),
           NEW f, Moved(o, p, d, e, f)
    PROVE  /\ Normal(o, Tail(q), f, h \cup {ChangeOf(o, p).acct},
                     Settled(n, p, v) \cup cut, "completed")
           /\ Settled(n, p, v) \cup cut # {} => n # {}
<1> DEFINE t == Tail(q)
           k == Settled(n, p, v)
           m == k \cup cut
           ch == ChangeOf(o, p)
<1>1. Proper(o, q) /\ RowsOf(o, q, n)
  BY DEF Normal
<1>0. q # <<>> /\ MovesOf(Head(q)) = {p} /\ NotesOf(Head(q)) = {}
  BY DEF MovesNext
<1>2. /\ Proper(o, t) /\ ~Looks(t) /\ Moves(q) = {p} \cup Moves(t) /\ p \notin Moves(t)
      /\ Notes(q) = Notes(t) /\ 0 \notin Moves(t)
      /\ 0 \in Notes(t) => ~Clamps(o)
  <2>1. /\ Proper(o, t) /\ ~Looks(t)
        /\ Moves(q) = MovesOf(Head(q)) \cup Moves(t)
        /\ Notes(q) = NotesOf(Head(q)) \cup Notes(t)
        /\ MovesOf(Head(q)) \cap Moves(t) = {}
        /\ 0 \in Moves(t) => MovesOf(Head(q)) = {}
        /\ 0 \in Notes(t) => (Clamps(o) => MovesOf(Head(q)) = {})
    BY <1>0, <1>1, GoesOn
  <2> QED BY <1>0, <2>1
<1> HIDE DEF t
<1>3. p \in Moves(q) /\ (p # 0 => 0 \notin Moves(q))
  BY <1>2
<1>4. /\ RowsOf(o, q, k) /\ AllDone(k)
      /\ \A x : Booked(x, k) = Booked(x, n)
  BY <1>1, <1>3, SettleRows
<1>5. RowsOf(o, q, k) /\ AllDone(k)
  BY <1>1, <1>3, SettleRows
<1> HIDE DEF k
<1>6. /\ RowsOf(o, t, m)
      /\ \A x : Booked(x, m) = Booked(x, k) + Booked(x, cut)
  <2>1. /\ RowsOf(o, Tail(q), k \cup cut)
        /\ \A x : Booked(x, k \cup cut) = Booked(x, k) + Booked(x, cut)
    <3>1. RowsOf(o, q, k)
      BY <1>5
    <3>2. AllDone(k)
      BY <1>5
    <3> HIDE DEF m, ch
    <3>3. RowsOf(o, Tail(q), k \cup cut)
      BY <3>1, <3>2, MoveRows
    <3> QED BY <3>1, <3>2, <3>3, MoveRows
  <2> QED BY <2>1 DEF t
<1>7. k # {} => n # {}
  BY <1>1, <1>3, SettleRows DEF k
<1>8. 0 \in Notes(t) => n = {} /\ m = {}
  BY <1>2, <1>7 DEF Normal, Cut
<1>9. m # {} => n # {}
  <2>1. CASE 0 \in Notes(q)
    BY <2>1, <1>2, <1>8
  <2>2. CASE 0 \notin Notes(q)
    <3>1. 0 \in Parts(o)
      BY DEF OpType, Parts
    <3> QED BY <3>1, <2>2, <1>1 DEF RowsOf
  <2> QED BY <2>1, <2>2
<1>10. ASSUME NEW x \in Accounts
       PROVE  /\ f[x] + Booked(x, Legs(o, Moves(t))) =
                    Booked(x, m) + Booked(x, Legs(o, Notes(t)))
              /\ f[x] # 0 => x \in h \cup {ch.acct}
  <2>1. d[x] + Booked(x, Legs(o, Moves(q))) = Booked(x, n) + Booked(x, Legs(o, Notes(q)))
    BY DEF Normal
  <2>2. /\ Booked(x, Legs(o, {p} \cup Moves(t))) =
             Booked(x, Legs(o, {p})) + Booked(x, Legs(o, Moves(t)))
        /\ Booked(x, Legs(o, {p})) \in Int /\ Booked(x, Legs(o, Moves(t))) \in Int
    <3>1. Apart(o, {p}, Moves(t))
      BY <1>2, PartsOf DEF Apart
    <3> QED BY <3>1, LegsSplit
  <2>3. Booked(x, Legs(o, {p})) = IF ch.acct = x THEN ch.amt ELSE 0
    BY OneLeg
  <2>4. Booked(x, Legs(o, Notes(t))) \in Int
    <3>1. Apart(o, {}, Notes(t))
      BY <1>2, PartsOf DEF Apart
    <3> QED BY <3>1, LegsSplit
  <2>5. Booked(x, cut) = IF ch.acct = x THEN e ELSE 0
    BY DEF Cut
  <2>6. Booked(x, m) = Booked(x, n) + Booked(x, cut)
    BY <1>4, <1>6
  <2>7. f[x] = IF ch.acct = x THEN d[x] + ch.amt + e ELSE d[x]
    BY DEF Moved
  <2>8. Booked(x, n) \in Int /\ d[x] \in Int /\ ch.amt \in Int
    <3>1. IsFiniteSet(n) /\ \A r \in n : r.amt \in Int
      BY <1>1 DEF RowsOf, RowRec
    <3>2. ch.amt \in Int
      BY LegTyped DEF Change
    <3> QED BY <3>1, <3>2, BookedIsInt
  <2>9. d[x] # 0 => x \in h
    BY DEF Normal
  <2> HIDE DEF m, ch
  <2>12. /\ Booked(x, Legs(o, Moves(q))) =
              Booked(x, Legs(o, {p})) + Booked(x, Legs(o, Moves(t)))
         /\ Booked(x, Legs(o, Notes(q))) = Booked(x, Legs(o, Notes(t)))
    BY <2>2, <1>2
  <2>10. CASE ch.acct = x
    <3>1. /\ Booked(x, Legs(o, {p})) = ch.amt /\ Booked(x, cut) = e
          /\ f[x] = d[x] + ch.amt + e
      BY <2>3, <2>5, <2>7, <2>10
    <3>2. x \in h \cup {ch.acct}
      BY <2>10
    <3> QED BY <3>1, <3>2, <2>1, <2>2, <2>4, <2>6, <2>8, <2>12
  <2>11. CASE ch.acct # x
    BY <2>1, <2>2, <2>3, <2>4, <2>5, <2>6, <2>7, <2>8, <2>9, <2>11, <2>12
  <2> QED BY <2>10, <2>11
<1> HIDE DEF m, ch
<1>11. Normal(o, t, f, h \cup {ch.acct}, m, "completed")
  BY <1>2, <1>6, <1>8, <1>10 DEF Normal
<1> QED BY <1>9, <1>11 DEF t, m, k, ch

LEMMA RunUpdateKeeps ==
    ASSUME WalletInv, NEW c \in Calls, RunUpdate(c)
    PROVE  WalletInv'
<1> DEFINE o == Op[c]
           q == todo[c]
           p == Stmt(c).part
           ch == Stmt(c).ch
           raw == View(c, ch.acct) + ch.amt
           new == Clamped(c, raw)
           mine == Mine(ins[c], p)
           refused == {[r EXCEPT !.status = "rejected", !.after = 0] : r \in mine}
           cut == ClampRows(c, p, ch, raw)
<1>1. /\ stage[c] = "open" /\ q # <<>> /\ Stmt(c).do = "update" /\ Blockers(c) = {}
      /\ bal' = bal /\ ledger' = ledger /\ stage' = stage /\ tries' = tries
  BY DEF RunUpdate, Runs
<1>2. /\ Normal(o, q, delta[c], held[c], ins[c], ans[c].status)
      /\ o \in OpType /\ Stmt(c) \in Stmts(o) /\ Shaped
  BY <1>1, NormalStatement
<1>3. p \in Parts(o) /\ ch = ChangeOf(o, p) /\ Stmt(c) = Update(p, ch)
  <2>1. \E k \in Parts(o) : Stmt(c) = Update(k, ChangeOf(o, k))
    <3>1. \A k, x : /\ Stmt(c) # Record({<<k, x>>}) /\ Stmt(c) # Look
                    /\ Stmt(c) # Claim(0, o.pay)
                    /\ Stmt(c) # Record({<<0, o.pay>>, <<k, x>>})
      BY <1>1 DEF Record, Look, Claim
    <3> HIDE DEF o
    <3> QED BY <1>2, <3>1, StmtForms
  <2> QED BY <2>1 DEF Update
<1>4. MovesNext(o, q, p)
  <2>1. MovesOf(Stmt(c)) = {p} /\ NotesOf(Stmt(c)) = {}
    BY <1>1 DEF MovesOf, NotesOf
  <2> QED BY <2>1, <1>1, <1>2 DEF MovesNext, Normal, Stmt
<1>5. /\ ch \in Change /\ ch.acct \in Accounts /\ ch.amt \in Int
      /\ View(c, ch.acct) \in Int /\ View(c, ch.acct) >= 0 /\ raw \in Int
  <2>1. ch \in Change /\ ch.acct \in Accounts /\ ch.amt \in Int
    BY <1>2, <1>3, LegTyped DEF Change
  <2>2. View(c, ch.acct) \in Int /\ View(c, ch.acct) >= 0
    BY <2>1, <1>2 DEF View, Shaped, WalletInv
  <2> QED BY <2>1, <2>2
<1>6. IF p = 0 /\ raw < 0
      THEN /\ todo' = [todo EXCEPT ![c] = IF mine # {} THEN <<>> ELSE <<RecordRejected(ch)>>]
           /\ ins' = [ins EXCEPT ![c] = refused]
           /\ ans' = [ans EXCEPT ![c] = [NoAnswer EXCEPT !.status = "rejected"]]
           /\ UNCHANGED <<delta, held>>
      ELSE /\ todo' = [todo EXCEPT ![c] = Tail(@)]
           /\ delta' = [delta EXCEPT ![c][ch.acct] = new - bal[ch.acct]]
           /\ held' = [held EXCEPT ![c] = @ \cup {ch.acct}]
           /\ ins' = [ins EXCEPT ![c] = Settled(@, p, new) \cup cut]
           /\ ans' = [ans EXCEPT ![c] =
                 [status |-> "completed", replay |-> FALSE,
                  after |-> [ans[c].after EXCEPT ![ch.acct] = new]]]
  <2> DEFINE settle(r, s) == [r EXCEPT !.status = s,
                                       !.after = IF s = "completed" THEN new ELSE 0]
  <2>1. IF p = 0 /\ raw < 0
        THEN /\ todo' = [todo EXCEPT ![c] = IF mine # {} THEN <<>>
                            ELSE <<RecordRejected(ch)>>]
             /\ ins' = [ins EXCEPT ![c] = {settle(r, "rejected") : r \in mine}]
             /\ ans' = [ans EXCEPT ![c] = [NoAnswer EXCEPT !.status = "rejected"]]
             /\ UNCHANGED <<delta, held>>
        ELSE /\ todo' = [todo EXCEPT ![c] = Tail(@)]
             /\ delta' = [delta EXCEPT ![c][ch.acct] = new - bal[ch.acct]]
             /\ held' = [held EXCEPT ![c] = @ \cup {ch.acct}]
             /\ ins' = [ins EXCEPT ![c] =
                   (@ \ mine) \cup {settle(r, "completed") : r \in mine} \cup cut]
             /\ ans' = [ans EXCEPT ![c] =
                   [status |-> "completed", replay |-> FALSE,
                    after |-> [ans[c].after EXCEPT ![ch.acct] = new]]]
    BY Zenon DEF RunUpdate, Mine
  <2>2. {settle(r, "rejected") : r \in mine} = refused
    OBVIOUS
  <2>3. {settle(r, "completed") : r \in mine} = {SettledRow(r, new) : r \in mine}
    BY DEF SettledRow
  <2>4. Settled(ins[c], p, new) = (ins[c] \ mine) \cup {settle(r, "completed") : r \in mine}
    BY <2>3 DEF Settled
  <2> HIDE DEF settle, refused, mine, new, cut, p, ch, raw
  <2> QED BY <2>1, <2>2, <2>4
<1>7. /\ ins[c] # {} =>
           /\ \A r \in ledger : r.txn # Op[c].txn
           /\ \A d \in Calls \ {c} : Op[d].txn = Op[c].txn => ins[d] = {}
      /\ \A d \in Calls \ {c} : held[c] \cap held[d] = {}
      /\ \A a \in Accounts : bal[a] + delta[c][a] >= 0
  BY DEF WalletInv, Isolated
<1>8. RowsOf(o, q, ins[c])
  BY <1>2 DEF Normal
<1>9. p \in Moves(q)
  <2>1. Moves(q) = MovesOf(Head(q)) \cup Moves(Tail(q))
    <3> HIDE DEF o, q, p
    <3> QED BY <1>2, <1>4, GoesOn DEF MovesNext
  <2> QED BY <2>1, <1>4 DEF MovesNext
<1> HIDE DEF o, q, p, ch, new, mine, refused, cut
<1>10. CASE p = 0 /\ raw < 0
  <2> HIDE DEF raw
  <2>1. /\ todo' = [todo EXCEPT ![c] = IF mine # {} THEN <<>> ELSE <<RecordRejected(ch)>>]
        /\ ins' = [ins EXCEPT ![c] = refused]
        /\ ans' = [ans EXCEPT ![c] = [NoAnswer EXCEPT !.status = "rejected"]]
        /\ UNCHANGED <<delta, held>>
    BY <1>6, <1>10
  <2>2. /\ Shaped' /\ Others(c) /\ ins'[c] = refused /\ stage'[c] = "open"
        /\ todo'[c] = IF mine # {} THEN <<>> ELSE <<RecordRejected(ch)>>
        /\ delta'[c] = delta[c] /\ held'[c] = held[c] /\ ans'[c].status = "rejected"
    BY <1>1, <1>2, <2>1 DEF Shaped, Others, NoAnswer
  <2>3. \A x \in Accounts : delta[c][x] = 0
    BY <1>2, <1>9, <1>10 DEF Normal
  <2>4. ch = o.pay
    BY <1>3, <1>10 DEF ChangeOf
  <2>5. Refused(o, todo'[c], delta'[c], ins'[c], ans'[c].status)
    <3>1. CASE mine = {}
      <4>1. refused = {}
        BY <3>1 DEF refused
      <4> QED BY <2>2, <2>3, <2>4, <3>1, <4>1 DEF Refused
    <3>2. CASE mine # {}
      <4>1. PICK r \in mine : TRUE
        BY <3>2
      <4>2. \A s \in mine : s = r
        <5>1. \A s \in mine : Key(s) = <<o.txn, p, FALSE>> /\ s \in ins[c]
          BY <1>8 DEF mine, Mine, RowsOf, Key, RowRec
        <5> QED BY <4>1, <5>1, <1>8 DEF RowsOf
      <4> DEFINE y == [r EXCEPT !.status = "rejected", !.after = 0]
      <4>3. refused = {y}
        BY <4>1, <4>2 DEF refused
      <4>4. r \in RowRec /\ r.txn = o.txn /\ r.part = 0 /\ ~r.clamp
        BY <4>1, <1>8, <1>10 DEF RowsOf, mine, Mine
      <4>5. y \in RowRec /\ y.txn = o.txn /\ y.part = 0 /\ ~y.clamp /\ y.status = "rejected"
        <5>1. y.txn = r.txn /\ y.part = r.part /\ y.clamp = r.clamp /\ y.status = "rejected"
          BY <4>4 DEF RowRec
        <5>2. y \in RowRec
          <6>1. r \in RowRec
            BY <4>4
          <6>2. "rejected" \in {"pending", "completed", "rejected"} /\ 0 \in Int
            OBVIOUS
          <6> QED BY <6>1, <6>2, RowRewritten
        <5> QED BY <4>4, <5>1, <5>2
      <4> HIDE DEF y
      <4>6. todo'[c] = <<>> /\ ins'[c] = {y}
        BY <2>2, <3>2, <4>3
      <4> QED BY <2>2, <2>3, <4>5, <4>6 DEF Refused
    <3> QED BY <3>1, <3>2
  <2>6. ins'[c] # {} => ins[c] # {}
    BY <2>2 DEF refused, mine, Mine
  <2>7. CallOK(c)'
    BY <2>2, <2>5 DEF CallOK, Good, o
  <2>8. Answered(ledger, Op[c], stage'[c], ans'[c].status)
    BY <2>2 DEF Answered
  <2> QED BY <1>1, <1>7, <2>2, <2>6, <2>7, <2>8, LocalStep
<1>11. CASE ~(p = 0 /\ raw < 0)
  <2>1. /\ todo' = [todo EXCEPT ![c] = Tail(@)]
        /\ delta' = [delta EXCEPT ![c][ch.acct] = new - bal[ch.acct]]
        /\ held' = [held EXCEPT ![c] = @ \cup {ch.acct}]
        /\ ins' = [ins EXCEPT ![c] = Settled(@, p, new) \cup cut]
        /\ ans' = [ans EXCEPT ![c] =
              [status |-> "completed", replay |-> FALSE,
               after |-> [ans[c].after EXCEPT ![ch.acct] = new]]]
    BY <1>6, <1>11
  <2>2. raw >= 0
    <3>1. CASE p = 0
      BY <3>1, <1>5, <1>11
    <3>2. CASE p # 0
      <4>1. ch.amt >= 0
        <5>1. Receivers(o) /\ p \in DOMAIN o.get /\ ch = o.get[p]
          BY <3>2, <1>2, <1>3, WalletAssumption DEF o, Parts, ChangeOf, OpType
        <5> QED BY <5>1 DEF Receivers
      <4> QED BY <4>1, <1>5
    <3> QED BY <3>1, <3>2
  <2>3. new \in Nat /\ Cut(o, p, cut, new - raw)
    <3> HIDE DEF raw
    <3>1. raw \in Int /\ raw >= 0 /\ Op[c] \in OpType /\ p \in Parts(Op[c])
      BY <1>2, <1>3, <1>5, <2>2 DEF o
    <3>2. /\ Clamped(c, raw) \in Nat
          /\ Cut(Op[c], p, ClampRows(c, p, ChangeOf(Op[c], p), raw), Clamped(c, raw) - raw)
      BY <3>1, CutRows
    <3> QED BY <3>2, <1>3 DEF new, cut, o
  <2>4. bal \in [Accounts -> Nat] /\ delta[c] \in [Accounts -> Int]
    BY <1>2 DEF Shaped
  <2>5. /\ delta'[c] = [delta[c] EXCEPT ![ch.acct] = new - bal[ch.acct]]
        /\ ins'[c] = Settled(ins[c], p, new) \cup cut
        /\ held'[c] = held[c] \cup {ch.acct} /\ stage'[c] = "open"
        /\ todo'[c] = Tail(q) /\ ans'[c].status = "completed"
    BY <1>1, <1>2, <2>1 DEF Shaped, q
  <2>6. Shaped' /\ Others(c)
    <3>1. delta' \in [Calls -> [Accounts -> Int]]
      <4>1. new - bal[ch.acct] \in Int
        BY <1>5, <2>3, <2>4
      <4> QED BY <4>1, <1>2, <1>5, <2>1 DEF Shaped
    <3>2. \A d \in Calls \ {c} : delta'[d] = delta[d]
      BY <1>2, <2>1 DEF Shaped
    <3> QED BY <3>1, <3>2, <1>1, <1>2, <2>1 DEF Shaped, Others
  <2>7. raw = bal[ch.acct] + delta[c][ch.acct] + ch.amt
    BY DEF raw, View
  <2>8. Moved(o, p, delta[c], new - raw, delta'[c])
    <3> SUFFICES ASSUME NEW x \in Accounts
                 PROVE  delta'[c][x] = IF ch.acct = x THEN delta[c][x] + ch.amt + (new - raw)
                                       ELSE delta[c][x]
      BY <1>3 DEF Moved
    <3>1. CASE x = ch.acct
      <4>1. delta'[c][x] = new - bal[x]
        BY <3>1, <2>4, <2>5
      <4>2. bal[x] \in Int /\ delta[c][x] \in Int
        BY <2>4
      <4> HIDE DEF raw
      <4> QED BY <3>1, <4>1, <4>2, <2>3, <2>7, <1>5
    <3>2. CASE x # ch.acct
      BY <3>2, <2>4, <2>5
    <3> QED BY <3>1, <3>2
  <2>9. /\ Normal(o, Tail(q), delta'[c], held[c] \cup {ch.acct},
                  Settled(ins[c], p, new) \cup cut, "completed")
        /\ Settled(ins[c], p, new) \cup cut # {} => ins[c] # {}
    <3> HIDE DEF raw
    <3> DEFINE e == new - raw
               d == delta[c]
               h == held[c]
               n == ins[c]
               f == delta'[c]
    <3>1. e \in Int /\ new \in Int /\ Cut(o, p, cut, e) /\ Moved(o, p, d, e, f)
      BY <1>5, <2>3, <2>8
    <3>2. MovesNext(o, q, p) /\ Normal(o, q, d, h, n, ans[c].status) /\ d \in [Accounts -> Int]
      BY <1>4, <1>2, <2>4
    <3> HIDE DEF e, d, h, n, f
    <3>3. /\ Normal(o, Tail(q), f, h \cup {ChangeOf(o, p).acct},
                    Settled(n, p, new) \cup cut, "completed")
          /\ Settled(n, p, new) \cup cut # {} => n # {}
      BY <3>1, <3>2, <1>2, <1>3, MoveKeepsNormal
    <3> QED BY <3>3, <1>3 DEF d, h, n, f
  <2>10. CallOK(c)'
    BY <2>5, <2>9 DEF CallOK, Good, o
  <2>11. ASSUME NEW a \in Accounts
         PROVE  bal[a] + delta'[c][a] >= 0
    <3>1. CASE a = ch.acct
      <4>1. delta'[c][a] = new - bal[a] /\ bal[a] \in Int
        BY <3>1, <2>4, <2>5
      <4> QED BY <4>1, <2>3
    <3>2. CASE a # ch.acct
      BY <3>2, <1>7, <2>4, <2>5
    <3> QED BY <3>1, <3>2
  <2>12. ASSUME NEW d \in Calls \ {c}
         PROVE  held'[c] \cap held[d] = {}
    <3>1. ch.acct \notin held[d]
      <4>1. CASE stage[d] = "open"
        <5>1. d \notin Blockers(c)
          BY <1>1
        <5>2. todo[c] # <<>> /\ Stmt(c).do = "update"
          BY <1>1 DEF q
        <5>3. ASSUME ch.acct \in held[d]
              PROVE  d \in Blockers(c)
          <6>1. Stmt(c).ch.acct \in held[d]
            BY <5>3 DEF ch
          <6>2. \/ \E r \in ins[d] : Key(r) \in KeysWanted(c)
                \/ todo[c] # <<>> /\ Stmt(c).do = "update" /\ Stmt(c).ch.acct \in held[d]
            BY <5>2, <6>1
          <6> QED BY <1>1, <6>2 DEF Blockers
        <5> QED BY <5>1, <5>3
      <4>2. CASE stage[d] # "open"
        BY <4>2 DEF WalletInv, CallOK, Good
      <4> QED BY <4>1, <4>2
    <3> QED BY <3>1, <1>7, <2>5
  <2>13. Answered(ledger, Op[c], stage'[c], ans'[c].status)
    BY <2>5 DEF Answered
  <2>14. ins'[c] # {} => ins[c] # {}
    BY <2>5, <2>9
  <2> QED BY <1>1, <1>7, <2>6, <2>10, <2>11, <2>12, <2>13, <2>14, LocalStep
<1> QED BY <1>10, <1>11

LEMMA NextKeeps == WalletInv /\ [Next]_vars => WalletInv'
<1> SUFFICES ASSUME WalletInv, [Next]_vars PROVE WalletInv'
  OBVIOUS
<1>1. ASSUME NEW c \in Calls, Request(c) PROVE WalletInv'
  BY <1>1, CallKeeps
<1>2. ASSUME NEW c \in Calls, Works(c) PROVE WalletInv'
  BY <1>2, RunClaimKeeps, RunLookKeeps, RunUpdateKeeps, RunRecordKeeps, CommitKeeps,
     BreakDeadlockKeeps, FinishKeeps DEF Works
<1>3. ASSUME NEW c \in Calls, Lose(c) PROVE WalletInv'
  BY <1>3, LoseKeeps
<1>4. ASSUME NEW t, ForgetRequest(t) PROVE WalletInv'
  BY <1>4, IdleKeeps DEF ForgetRequest, tx
<1>5. CASE Restart
  BY <1>5, RestartKeeps
<1>6. CASE UNCHANGED vars
  BY <1>6, IdleKeeps DEF vars
<1> QED BY <1>1, <1>2, <1>3, <1>4, <1>5, <1>6 DEF Next

\* The wallet's invariant: whatever calls run side by side, repeat a key, are
\* aborted, retried or lose their COMMIT, what a transaction has changed and
\* has still to change is what it has noted and has still to note.
THEOREM WalletIsSound == Spec => []WalletInv
<1>1. Init => WalletInv
  BY InitKeeps
<1>2. WalletInv /\ [Next]_vars => WalletInv'
  BY NextKeeps
<1> QED BY <1>1, <1>2, PTL DEF Spec

\* reconcileBalance() never finds a drift and no balance is ever negative.
THEOREM LedgerAlwaysBalances == Spec => []LedgerIsBalance
<1>1. ASSUME WalletInv PROVE LedgerIsBalance
  <2> SUFFICES ASSUME NEW a \in Accounts
               PROVE  /\ bal[a] = SumFunctionOnSet([r \in ledger |-> r.amt],
                            {r \in ledger : r.acct = a /\ r.status = "completed"})
                      /\ bal[a] >= 0
    BY DEF LedgerIsBalance
  <2> DEFINE S == {r \in ledger : r.acct = a /\ r.status = "completed"}
             f == [r \in ledger |-> r.amt]
             g == [r \in Completed(ledger) |-> r.amt]
  <2>1. LedgerOK(ledger)
    BY <1>1 DEF WalletInv
  <2>2. {r \in Completed(ledger) : r.acct = a} = S
    BY DEF Completed
  <2>3. IsFiniteSet(S)
    <3>1. IsFiniteSet(ledger) /\ S \subseteq ledger
      BY <2>1 DEF LedgerOK
    <3> QED BY <3>1, FS_Subset
  <2>4. \A r \in S : f[r] \in Int /\ g[r] = f[r]
    BY <2>1 DEF LedgerOK, RowRec, Completed
  <2> HIDE DEF S, f, g
  <2>5. SumFunctionOnSet(g, S) = SumFunctionOnSet(f, S)
    BY <2>3, <2>4, SumSame
  <2>6. bal[a] = SumFunctionOnSet(g, S)
    <3>1. bal[a] = Booked(a, Completed(ledger))
      BY <1>1 DEF WalletInv
    <3> QED BY <3>1, <2>2 DEF Booked, g
  <2>7. bal[a] >= 0
    BY <1>1 DEF WalletInv, Shaped
  <2> QED BY <2>5, <2>6, <2>7 DEF S, f
<1> QED BY <1>1, WalletIsSound, PTL

\* What an operation does, part by part.
LEMMA EffectsByPart ==
    ASSUME NEW o \in OpType
    PROVE  Effects(o) = {<<p, ChangeOf(o, p).acct, ChangeOf(o, p).amt>> : p \in Parts(o)}
<1>1. /\ Len(o.get) \in Nat /\ DOMAIN o.get = 1..Len(o.get)
      /\ 0 \notin 1..Len(o.get)
      /\ Parts(o) = {0} \cup 1..Len(o.get)
  BY DEF OpType, Parts
<1>2. ChangeOf(o, 0) = o.pay /\ \A p \in 1..Len(o.get) : ChangeOf(o, p) = o.get[p]
  BY <1>1 DEF ChangeOf
<1> QED BY <1>1, <1>2 DEF Effects

\* A transaction key takes effect as a whole and once, or not at all.
THEOREM AlwaysWholeOrNothing == Spec => []WholeOrNothing
<1>1. ASSUME WalletInv PROVE WholeOrNothing
  <2> SUFFICES ASSUME NEW c \in Calls
               PROVE  LET done == {r \in ledger : /\ r.txn = Op[c].txn
                                                  /\ r.status = "completed" /\ ~r.clamp}
                      IN \/ done = {}
                         \/ /\ {<<r.part, r.acct, r.amt>> : r \in done} = Effects(Op[c])
                            /\ Cardinality(done) = Cardinality(Effects(Op[c]))
    BY DEF WholeOrNothing
  <2> DEFINE o == Op[c]
             done == {r \in ledger : /\ r.txn = o.txn /\ r.status = "completed" /\ ~r.clamp}
             of(r) == <<r.part, r.acct, r.amt>>
             E == {<<p, ChangeOf(o, p).acct, ChangeOf(o, p).amt>> : p \in Parts(o)}
  <2> SUFFICES ASSUME done # {}
               PROVE  /\ {of(r) : r \in done} = Effects(o)
                      /\ Cardinality(done) = Cardinality(Effects(o))
    OBVIOUS
  <2>1. LedgerOK(ledger) /\ o \in OpType
    BY <1>1, WalletAssumption DEF WalletInv
  <2>2. Effects(o) = E
    BY <2>1, EffectsByPart
  <2>3. ASSUME NEW r \in done
        PROVE  r.part \in Parts(o) /\ of(r) = <<r.part, ChangeOf(o, r.part).acct,
                                                ChangeOf(o, r.part).amt>>
    BY <2>1 DEF LedgerOK, Fits
  <2>4. ASSUME NEW p \in Parts(o)
        PROVE  \E r \in done : r.part = p
    <3>1. PICK r \in done : TRUE
      OBVIOUS
    <3>2. PICK s \in ledger : s.txn = o.txn /\ s.part = p /\ ~s.clamp
      BY <3>1, <2>1 DEF LedgerOK
    <3>3. s.status = "completed"
      BY <3>1, <3>2, <2>1 DEF LedgerOK
    <3> QED BY <3>2, <3>3
  <2>5. ASSUME NEW r \in done, NEW s \in done, of(r) = of(s)
        PROVE  r = s
    <3>1. r.part = s.part /\ r.txn = s.txn
      BY <2>5
    <3>2. r.clamp = FALSE /\ s.clamp = FALSE
      BY <2>1 DEF LedgerOK, RowRec
    <3>3. Key(r) = Key(s)
      BY <3>1, <3>2 DEF Key
    <3> QED BY <3>3, <2>1 DEF LedgerOK
  <2> HIDE DEF done
  <2>6. {of(r) : r \in done} = E
    <3>1. ASSUME NEW r \in done
          PROVE  of(r) \in E
      BY <2>3
    <3>2. ASSUME NEW p \in Parts(o)
          PROVE  \E r \in done : of(r) = <<p, ChangeOf(o, p).acct, ChangeOf(o, p).amt>>
      BY <2>3, <2>4
    <3> HIDE DEF of, o
    <3> QED BY <3>1, <3>2
  <2>7. Cardinality(done) = Cardinality(E)
    <3> DEFINE f == [r \in done |-> of(r)]
    <3>1. f \in Bijection(done, E)
      <4>1. \A r \in done : f[r] = of(r)
        OBVIOUS
      <4>2. f \in [done -> E]
        BY <2>6
      <4>3. \A r, s \in done : f[r] = f[s] => r = s
        BY <4>1, <2>5
      <4>4. \A e \in E : \E r \in done : f[r] = e
        BY <4>1, <2>6
      <4> HIDE DEF f, E, of
      <4> QED BY <4>2, <4>3, <4>4 DEF Bijection, Injection, Surjection, IsInjective
    <3>2. IsFiniteSet(done)
      <4>1. IsFiniteSet(ledger) /\ done \subseteq ledger
        BY <2>1 DEF LedgerOK, done
      <4> QED BY <4>1, FS_Subset
    <3> HIDE DEF f, E
    <3>3. ExistsBijection(done, E)
      BY <3>1 DEF ExistsBijection
    <3> QED BY <3>2, <3>3, FS_Bijection
  <2> QED BY <2>2, <2>6, <2>7
<1> QED BY <1>1, WalletIsSound, PTL

\* What the wallet answers a handler is what the ledger says.
THEOREM AnswersAlwaysTrue == Spec => []AnswersAreTrue
<1>1. ASSUME WalletInv PROVE AnswersAreTrue
  <2> SUFFICES ASSUME NEW c \in Calls, stage[c] = "answered"
               PROVE  LET done == \E r \in ledger : r.txn = Op[c].txn /\ r.status = "completed"
                      IN /\ ans[c].status = "completed" => done
                         /\ ans[c].status = "rejected" => ~done
    BY DEF AnswersAreTrue
  <2>1. Answered(ledger, Op[c], "answered", ans[c].status)
    BY <1>1 DEF WalletInv
  <2>2. \A r, s \in ledger : r.txn = s.txn => r.status = s.status
    BY <1>1 DEF WalletInv, LedgerOK
  <2> QED BY <2>1, <2>2 DEF Answered
<1> QED BY <1>1, WalletIsSound, PTL

=============================================================================
