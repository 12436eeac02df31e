--------------------------- MODULE PayoutWithdrawal ---------------------------
(***************************************************************************)
(* Beans, USD Withdraw Balance and withdrawals (payoutWithdrawal.js): KYC, *)
(* conversion, reservation and the admin's decisions, in memory.  Every    *)
(* handler runs to its end without yielding, so each is one step; its      *)
(* debounced file writes are the business of WriteQueue.                   *)
(***************************************************************************)
EXTENDS Integers, FiniteSets, Functions

CONSTANTS
    User,        \* account ids
    Wd,          \* withdrawal ids
    BankAccount, \* what a KYC submission may name
    Settings,    \* [rate, min, enabled]: Beans per USD, minimum in cents
    MaxBeans,    \* bound on a Beans wallet
    MaxCents,    \* bound on what a user converts
    None         \* JavaScript null

ASSUME PayoutAssumption ==
    /\ Settings \subseteq [rate: Nat \ {0}, min: Nat, enabled: BOOLEAN]
    /\ {MaxBeans, MaxCents} \subseteq Nat
    /\ None \notin User \cup BankAccount \cup Nat

VARIABLES
    settings,    \* the conversion policy in force
    beans,       \* Beans of each user, None once the account is deleted
    kyc,         \* KYC records
    balance,     \* Withdraw Balance, in cents
    converted,   \* cents recorded in the conversion ledger
    wd           \* withdrawals

payoutVars == <<settings, beans, kyc, balance, converted, wd>>

KycStatus == {"NOT_SUBMITTED", "PENDING", "VERIFIED", "REJECTED"}
Terminal == {"PAID", "REJECTED"}   \* nothing sets CANCELLED
Status == {"none", "PENDING", "APPROVED", "PROCESSING", "FAILED"} \cup Terminal

Requests(u, states) == {w \in Wd : wd[w].user = u /\ wd[w].status \in states}

-----------------------------------------------------------------------------
(* The user                                                                *)

\* Mutant: verified users may correct their bank account.
SubmitKycAgain(u, a) ==
    /\ beans[u] # None
    /\ kyc[u].status # "PENDING"
    /\ kyc' = [kyc EXCEPT ![u] = [status |-> "PENDING", account |-> a]]
    /\ UNCHANGED <<settings, beans, balance, converted, wd>>

SubmitKyc(u, a) ==
    /\ beans[u] # None
    /\ kyc[u].status \notin {"VERIFIED", "PENDING"}
    /\ kyc' = [kyc EXCEPT ![u] = [status |-> "PENDING", account |-> a]]
    /\ UNCHANGED <<settings, beans, balance, converted, wd>>

\* convertBeans, at the rate in force, in whole cents.
ConvertBeans(u, amount) ==
    LET cents == (amount * 100) \div settings.rate IN
    /\ beans[u] # None
    /\ amount <= beans[u]
    /\ cents > 0
    /\ converted[u] + cents <= MaxCents
    /\ beans' = [beans EXCEPT ![u] = @ - amount]
    /\ balance' = [balance EXCEPT ![u].available = @ + cents]
    /\ converted' = [converted EXCEPT ![u] = @ + cents]
    /\ UNCHANGED <<settings, kyc, wd>>

RequestWithdrawal(w, u, cents) ==
    /\ wd[w].status = "none"
    /\ beans[u] # None
    /\ settings.enabled
    /\ kyc[u].status = "VERIFIED"
    /\ cents >= settings.min
    /\ cents <= balance[u].available
    /\ balance' = [balance EXCEPT ![u].available = @ - cents,
                                  ![u].reserved = @ + cents]
    /\ wd' = [wd EXCEPT ![w] = [status |-> "PENDING", user |-> u,
                                amount |-> cents, account |-> kyc[u].account]]
    /\ UNCHANGED <<settings, beans, kyc, converted>>

-----------------------------------------------------------------------------
(* The admin                                                               *)

DecideKyc(u, from, to) ==
    /\ kyc[u].status \in from
    /\ kyc' = [kyc EXCEPT ![u].status = to]
    /\ UNCHANGED <<settings, beans, balance, converted, wd>>

AdminVerifyKyc(u) == DecideKyc(u, {"PENDING", "REJECTED"}, "VERIFIED")
AdminRejectKyc(u) == DecideKyc(u, {"PENDING", "REJECTED"}, "REJECTED")

\* adminDecideWithdrawal: one status transition.
Transition(w, from, to) ==
    /\ wd[w].status \in from
    /\ wd' = [wd EXCEPT ![w].status = to]
    /\ UNCHANGED <<settings, beans, kyc, converted>>

\* Math.max(0, m - n)
AtLeastZero(m, n) == IF m > n THEN m - n ELSE 0

\* The amount leaves the reservation; released says whether it comes back.
Unreserve(w, released) ==
    LET b == balance[wd[w].user]
        n == wd[w].amount
    IN  balance' = [balance EXCEPT ![wd[w].user] =
            [available |-> IF released THEN b.available + n ELSE b.available,
             reserved |-> AtLeastZero(b.reserved, n)]]

Approve(w) ==
    /\ Transition(w, {"PENDING"}, "APPROVED")
    /\ UNCHANGED balance

Process(w) ==
    /\ Transition(w, {"PENDING", "APPROVED", "FAILED"}, "PROCESSING")
    /\ UNCHANGED balance

\* Mutant: a paid withdrawal can be rejected.
RejectAny(w) ==
    /\ Transition(w, Status \ {"none", "REJECTED"}, "REJECTED")
    /\ Unreserve(w, TRUE)

Reject(w) ==
    /\ Transition(w, Status \ ({"none"} \cup Terminal), "REJECTED")
    /\ Unreserve(w, TRUE)

\* A failed payment stays reserved: it can be retried or rejected.
Fail(w) ==
    /\ Transition(w, {"PROCESSING", "APPROVED"}, "FAILED")
    /\ UNCHANGED balance

\* Mutant: a retried payment returns the amount as a rejection does.
PayReturned(w) ==
    /\ Transition(w, {"PROCESSING", "APPROVED", "FAILED"}, "PAID")
    /\ Unreserve(w, wd[w].status = "FAILED")

Pay(w) ==
    /\ Transition(w, {"PROCESSING", "APPROVED", "FAILED"}, "PAID")
    /\ Unreserve(w, FALSE)

AdminUpdateSettings ==
    /\ settings' \in Settings
    /\ UNCHANGED <<beans, kyc, balance, converted, wd>>

-----------------------------------------------------------------------------
(* The rest of the server                                                  *)

\* Gifts, salaries and exchanges change Beans; an account may be deleted.
OtherWallet(u) ==
    /\ beans[u] # None
    /\ beans' \in {[beans EXCEPT ![u] = b] : b \in 0..MaxBeans \cup {None}}
    /\ UNCHANGED <<settings, kyc, balance, converted, wd>>

PayoutInit ==
    /\ settings \in Settings
    /\ beans = [u \in User |-> MaxBeans]
    /\ kyc = [u \in User |-> [status |-> "NOT_SUBMITTED", account |-> None]]
    /\ balance = [u \in User |-> [available |-> 0, reserved |-> 0]]
    /\ converted = [u \in User |-> 0]
    /\ wd = [w \in Wd |-> [status |-> "none", user |-> None, amount |-> 0,
                           account |-> None]]

UserStep(u) ==
    \/ \E a \in BankAccount : SubmitKyc(u, a)
    \/ \E amount \in 1..MaxBeans : ConvertBeans(u, amount)
    \/ \E w \in Wd, cents \in 1..MaxCents : RequestWithdrawal(w, u, cents)
    \/ OtherWallet(u)

AdminStep ==
    \/ \E u \in User : AdminVerifyKyc(u) \/ AdminRejectKyc(u)
    \/ \E w \in Wd : Approve(w) \/ Process(w) \/ Reject(w) \/ Fail(w) \/ Pay(w)
    \/ AdminUpdateSettings

PayoutNext ==
    \/ \E u \in User : UserStep(u)
    \/ AdminStep

PayoutSpec == PayoutInit /\ [][PayoutNext]_payoutVars
-----------------------------------------------------------------------------
(* Properties                                                              *)

Withdrawal == [status: Status, user: User \cup {None}, amount: Nat,
               account: BankAccount \cup {None}]

KycRecord == [status: KycStatus, account: BankAccount \cup {None}]

\* Every variable has its shape; in particular no balance is negative.
TypeOK ==
    /\ settings \in Settings
    /\ beans \in [User -> Nat \cup {None}]
    /\ kyc \in [User -> KycRecord]
    /\ balance \in [User -> [available: Nat, reserved: Nat]]
    /\ converted \in [User -> Nat]
    /\ wd \in [Wd -> Withdrawal]

AmountOf(ws) == SumFunctionOnSet([w \in Wd |-> wd[w].amount], ws)

\* Every converted cent is available, reserved or paid out, and none is in
\* two of these places; what is reserved is what the undecided withdrawals ask
\* for, so no decision is ever clamped or eats another one's reservation.
MoneyConserved ==
    \A u \in User :
        /\ converted[u] = balance[u].available + balance[u].reserved
                             + AmountOf(Requests(u, {"PAID"}))
        /\ balance[u].reserved =
             AmountOf(Requests(u, Status \ ({"none"} \cup Terminal)))

\* The bank account a withdrawal will be paid to is the one that was verified
\* for its user, whatever is submitted and decided meanwhile.
PaidToVerifiedAccount ==
    \A w \in Wd : wd[w].status # "none" =>
        kyc[wd[w].user] = [status |-> "VERIFIED", account |-> wd[w].account]

\* A paid or rejected withdrawal is decided for good: no retried or racing
\* decision, in any order, changes it or moves its money again.
DecisionsAreFinal ==
    [][\A w \in Wd : wd[w].status \in Terminal => wd'[w] = wd[w]]_payoutVars
=============================================================================
