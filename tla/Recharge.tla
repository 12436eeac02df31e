------------------------------ MODULE Recharge ------------------------------
(***************************************************************************)
(* User-initiated recharges (wallet/rechargeService.js): requests, their   *)
(* UTR, the admin's decision, the credit and the diamond ledger, with the  *)
(* three files behind them (rechargeTransactions.json, users.json,         *)
(* coinLedger.json) and crashes of the process.                            *)
(*                                                                         *)
(* approveTransaction writes the three files one after the other without   *)
(* yielding, so only a crash can come between its steps: the stage         *)
(* variable is where it stands, and nothing but a crash or its next step   *)
(* can happen while it runs.  A wallet is seen through the credits in it.  *)
(***************************************************************************)
EXTENDS Naturals, FiniteSets

CONSTANTS
    Txn,          \* fresh request ids
    User,         \* account ids
    Utr,          \* bank references a user may enter
    Method,       \* payment methods
    DiskMayFail,  \* a file write may fail (writeNow swallows the error)
    MaxCrashes,   \* bound on the restarts of the process
    None          \* JavaScript null

ASSUME RechargeAssumption ==
    /\ DiskMayFail \in BOOLEAN
    /\ MaxCrashes \in Nat
    /\ None \notin Txn \cup User \cup Utr

VARIABLES
    txns,      \* transactions
    credited,  \* how often each request's diamonds are in its user's wallet
    ledger,    \* how many ledger entries each request has
    disk,      \* the three files
    accounts,  \* users findUserByUserId still finds
    selling,   \* what the settings offer: "orders" (enabled, with a package
               \* and a method), "upi" (a UPI id)
    approving, \* the request approveTransaction is working on
    stage,     \* what it has done so far
    crashes

rechargeVars == <<txns, credited, ledger, disk, accounts, selling,
                  approving, stage, crashes>>

\* The code also lists FAILED and REFUNDED, which nothing sets.
Terminal == {"PAID", "CANCELLED", "REJECTED"}
Status == {"none", "PENDING", "PAYMENT_SUBMITTED"} \cup Terminal

TxnRecord == [status: Status, user: User \cup {None}, utr: Utr \cup {None},
              method: Method \cup {None}]

Offers == {"orders", "upi"}

NoTxn == [status |-> "none", user |-> None, utr |-> None, method |-> None]

Idle == stage = "idle"
Open(t) == txns[t].status \in {"PENDING", "PAYMENT_SUBMITTED"}

\* A file is written whole, or keeps its old content if the write fails.
Written(old, new) == IF DiskMayFail THEN {old, new} ELSE {new}

\* persistTxns after the in-memory change.
PersistTxns == disk' \in Written(disk, [disk EXCEPT !.txns = txns'])

\* The request becomes r, in memory and on disk.
Update(t, r) ==
    /\ txns' = [txns EXCEPT ![t] = r]
    /\ PersistTxns

restUnchanged == UNCHANGED <<credited, ledger, accounts, selling, approving,
                             stage, crashes>>

-----------------------------------------------------------------------------
(* The user                                                                *)

\* The UTR is in use by a request in one of the given states.
Duplicate(t, utr, method, states) ==
    \E d \in Txn \ {t} : /\ txns[d].utr = utr
                         /\ txns[d].method = method
                         /\ txns[d].status \in states

\* createTransaction: a request that already carries its UTR.
CreateTransaction(t, u, utr, m) ==
    /\ Idle
    /\ txns[t].status = "none"
    /\ "orders" \in selling
    /\ u \in accounts
    /\ ~Duplicate(t, utr, m, {"PENDING", "PAID"})
    /\ Update(t, [status |-> "PENDING", user |-> u, utr |-> utr, method |-> m])
    /\ restUnchanged

\* createOrder: the UTR follows.
CreateOrder(t, u, m) ==
    /\ Idle
    /\ txns[t].status = "none"
    /\ {"orders", "upi"} \subseteq selling
    /\ u \in accounts
    /\ Update(t, [status |-> "PENDING", user |-> u, utr |-> None, method |-> m])
    /\ restUnchanged

\* submitUtr; it may also replace the UTR of a pending request.
SubmitUtr(t, utr) ==
    /\ Idle
    /\ txns[t].status = "PENDING"
    /\ ~Duplicate(t, utr, txns[t].method,
                  {"PENDING", "PAYMENT_SUBMITTED", "PAID"})
    /\ Update(t, [txns[t] EXCEPT !.utr = utr, !.status = "PAYMENT_SUBMITTED"])
    /\ restUnchanged

\* Mutant: PAID is missing from the terminal statuses.
CancelDecided(t) ==
    /\ Idle
    /\ txns[t].status \notin {"none", "CANCELLED", "REJECTED"}
    /\ Update(t, [txns[t] EXCEPT !.status = "CANCELLED"])
    /\ restUnchanged

\* cancelTransaction
Cancel(t) ==
    /\ Idle
    /\ Open(t)
    /\ Update(t, [txns[t] EXCEPT !.status = "CANCELLED"])
    /\ restUnchanged

-----------------------------------------------------------------------------
(* The admin                                                               *)

\* rejectTransaction
Reject(t) ==
    /\ Idle
    /\ Open(t)
    /\ Update(t, [txns[t] EXCEPT !.status = "REJECTED"])
    /\ restUnchanged

\* Mutant: the status is left in memory, to be written later.
ApproveUnsaved(t) ==
    /\ Idle
    /\ Open(t)
    /\ txns[t].user \in accounts
    /\ txns' = [txns EXCEPT ![t].status = "PAID"]
    /\ approving' = t
    /\ stage' = "paid"
    /\ UNCHANGED <<disk, credited, ledger, accounts, selling, crashes>>

\* approveTransaction, up to the first write.
Approve(t) ==
    /\ Idle
    /\ Open(t)
    /\ txns[t].user \in accounts
    /\ Update(t, [txns[t] EXCEPT !.status = "PAID"])
    /\ approving' = t
    /\ stage' = "paid"
    /\ UNCHANGED <<credited, ledger, accounts, selling, crashes>>

\* approveTransaction: the credit and saveUsers.
Credit ==
    /\ stage = "paid"
    /\ credited' = [credited EXCEPT ![approving] = @ + 1]
    /\ disk' \in Written(disk, [disk EXCEPT !.credited = credited',
                                            !.accounts = accounts])
    /\ stage' = "credited"
    /\ UNCHANGED <<txns, ledger, accounts, selling, approving, crashes>>

\* Mutant: the entry is pushed before the credit and not again.
EnterTwice ==
    /\ stage = "credited"
    /\ ledger' = [ledger EXCEPT ![approving] = @ + 2]
    /\ disk' \in Written(disk, [disk EXCEPT !.ledger = ledger'])
    /\ stage' = "idle"
    /\ approving' = None
    /\ UNCHANGED <<txns, credited, accounts, selling, crashes>>

\* approveTransaction: the ledger entry and persistLedger.
Enter ==
    /\ stage = "credited"
    /\ ledger' = [ledger EXCEPT ![approving] = @ + 1]
    /\ disk' \in Written(disk, [disk EXCEPT !.ledger = ledger'])
    /\ stage' = "idle"
    /\ approving' = None
    /\ UNCHANGED <<txns, credited, accounts, selling, crashes>>

\* updateSettings and the package routes, seen from the users.
SetSelling ==
    /\ Idle
    /\ selling' \in SUBSET Offers
    /\ UNCHANGED <<txns, credited, ledger, disk, accounts, approving, stage,
                   crashes>>

-----------------------------------------------------------------------------
(* The rest of the server                                                  *)

\* Its saveUsers is debounced.
DeleteAccount(u) ==
    /\ Idle
    /\ accounts' = accounts \ {u}
    /\ UNCHANGED <<txns, credited, ledger, disk, selling, approving, stage,
                   crashes>>

\* The debounced write of users.json, whoever asked for it.
SaveUsers ==
    /\ Idle
    /\ disk' = [disk EXCEPT !.credited = credited, !.accounts = accounts]
    /\ UNCHANGED <<txns, credited, ledger, accounts, selling, approving, stage,
                   crashes>>

\* The process dies, at any point, and boots from the files; without a UPI id
\* recharge is disabled at boot.
Crash ==
    /\ crashes < MaxCrashes
    /\ crashes' = crashes + 1
    /\ txns' = disk.txns
    /\ credited' = disk.credited
    /\ ledger' = disk.ledger
    /\ accounts' = disk.accounts
    /\ stage' = "idle"
    /\ approving' = None
    /\ selling' = IF "upi" \in selling THEN selling ELSE {}
    /\ UNCHANGED disk

-----------------------------------------------------------------------------

RechargeInit ==
    /\ txns = [t \in Txn |-> NoTxn]
    /\ credited = [t \in Txn |-> 0]
    /\ ledger = [t \in Txn |-> 0]
    /\ disk = [txns |-> txns, credited |-> credited, ledger |-> ledger,
               accounts |-> User]
    /\ accounts = User
    /\ selling = Offers
    /\ approving = None
    /\ stage = "idle"
    /\ crashes = 0

TxnStep(t) ==
    \/ \E u \in User, utr \in Utr, m \in Method : CreateTransaction(t, u, utr, m)
    \/ \E u \in User, m \in Method : CreateOrder(t, u, m)
    \/ \E utr \in Utr : SubmitUtr(t, utr)
    \/ Cancel(t) \/ Reject(t) \/ Approve(t)

RechargeNext ==
    \/ \E t \in Txn : TxnStep(t)
    \/ Credit
    \/ Enter
    \/ SetSelling
    \/ \E u \in User : DeleteAccount(u)
    \/ SaveUsers
    \/ Crash

RechargeSpec == RechargeInit /\ [][RechargeNext]_rechargeVars
-----------------------------------------------------------------------------
(* Properties                                                              *)

Files == [txns: [Txn -> TxnRecord], credited: [Txn -> Nat],
          ledger: [Txn -> Nat], accounts: SUBSET User]

\* Every variable of the module has its shape.
TypeOK ==
    /\ txns \in [Txn -> TxnRecord]
    /\ credited \in [Txn -> Nat]
    /\ ledger \in [Txn -> Nat]
    /\ disk \in Files
    /\ accounts \subseteq User
    /\ selling \subseteq Offers
    /\ approving \in Txn \cup {None}
    /\ stage \in {"idle", "paid", "credited"}
    /\ crashes \in Nat

\* However approvals, cancellations and crashes interleave, a request's
\* diamonds reach the wallet at most once, in memory and on disk, and only
\* for a request whose file says PAID.
CreditedOnce ==
    \A t \in Txn :
        /\ credited[t] <= 1 /\ disk.credited[t] <= 1
        /\ credited[t] + disk.credited[t] > 0 => disk.txns[t].status = "PAID"

\* The ledger never claims a credit that the wallet on disk does not have.
LedgerIsBacked ==
    \A t \in Txn : /\ ledger[t] <= credited[t]
                   /\ disk.ledger[t] <= disk.credited[t]

\* A request as RechargeOrder sees it.
Outcome(t) ==
    CASE txns[t].status = "none" -> "none"
      [] Open(t) -> "open"
      [] txns[t].status = "PAID" -> "paid"
      [] OTHER -> "closed"

Order == INSTANCE RechargeOrder WITH
    outcome <- [t \in Txn |-> Outcome(t)],
    credits <- credited

\* The requests of the service, through any number of crashes, are requests
\* in the sense of RechargeOrder.
ImplementsOrder == Order!OrderSpec
=============================================================================
