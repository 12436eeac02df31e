-------------------------- MODULE Diamonds_proofs --------------------------
(***************************************************************************)
(* Theorems about the two services that add diamonds to a balance and stake *)
(* them: the recharge of a wallet, and the Fruit Wheel.                    *)
(***************************************************************************)
EXTENDS Recharge, FruitWheel, Sums

-----------------------------------------------------------------------------
(***************************************************************************)
(* The recharge, for any number of requests, users and crashes.  Types hold *)
(* on any disk; exactly-once credit, the ledger and the refinement of      *)
(* RechargeOrder hold on a disk whose writes succeed (TLC finds the second *)
(* credit when one may fail).                                              *)
(***************************************************************************)

\* approveTransaction works on a request as long as it runs.
Working == stage # "idle" => approving \in Txn

TypeInv == TypeOK /\ Working

\* Every handler leaves memory and files equal.
OnDisk ==
    /\ disk.txns = txns
    /\ disk.credited = credited
    /\ disk.ledger = ledger

\* A request is credited at most once, only if paid, and entered only if
\* credited.
Counted(t) ==
    /\ credited[t] \in {0, 1}
    /\ ledger[t] <= credited[t]
    /\ credited[t] = 1 => txns[t].status = "PAID"

\* What the steps of an approval have done so far.
Progress ==
    /\ stage # "idle" => txns[approving].status = "PAID"
    /\ stage = "paid" => credited[approving] = 0
    /\ stage = "credited" => credited[approving] = 1 /\ ledger[approving] = 0

MoneyInv ==
    /\ TypeInv
    /\ OnDisk
    /\ \A t \in Txn : Counted(t)
    /\ Progress

-----------------------------------------------------------------------------
(* Types                                                                   *)

\* A request that is replaced keeps the shapes, saved or not.
LEMMA UpdateTyped ==
    ASSUME TypeInv, NEW t \in Txn, NEW r \in TxnRecord, Update(t, r)
    PROVE  /\ txns' \in [Txn -> TxnRecord]
           /\ disk' \in Files
<1>1. txns' \in [Txn -> TxnRecord]
  BY DEF Update, TypeInv, TypeOK
<1>2. disk' \in Files
  BY <1>1 DEF Update, PersistTxns, Written, TypeInv, TypeOK, Files
<1> QED BY <1>1, <1>2

LEMMA InitTyped == RechargeInit => TypeInv
BY RechargeAssumption
DEF RechargeInit, TypeInv, TypeOK, Working, TxnRecord, NoTxn, Status, Terminal,
    Files, Offers

\* The user's and the admin's handlers keep the shapes.
LEMMA TxnStepTyped ==
    ASSUME TypeInv, NEW t \in Txn, TxnStep(t)
    PROVE  TypeInv'
<1> USE DEF TypeInv
<1>0. txns[t] \in TxnRecord
  BY DEF TypeOK
<1>1. ASSUME NEW u \in User, NEW utr \in Utr, NEW m \in Method,
             CreateTransaction(t, u, utr, m)
      PROVE  TypeInv'
  <2> DEFINE r == [status |-> "PENDING", user |-> u, utr |-> utr, method |-> m]
  <2>1. r \in TxnRecord
    BY DEF TxnRecord, Status
  <2>2. Update(t, r)
    BY <1>1 DEF CreateTransaction
  <2> QED BY <1>1, <2>1, <2>2, UpdateTyped
          DEF CreateTransaction, restUnchanged, TypeOK, Working
<1>2. ASSUME NEW u \in User, NEW m \in Method, CreateOrder(t, u, m)
      PROVE  TypeInv'
  <2> DEFINE r == [status |-> "PENDING", user |-> u, utr |-> None, method |-> m]
  <2>1. r \in TxnRecord
    BY DEF TxnRecord, Status
  <2>2. Update(t, r)
    BY <1>2 DEF CreateOrder
  <2> QED BY <1>2, <2>1, <2>2, UpdateTyped
          DEF CreateOrder, restUnchanged, TypeOK, Working
<1>3. ASSUME NEW utr \in Utr, SubmitUtr(t, utr)
      PROVE  TypeInv'
  <2> DEFINE r == [txns[t] EXCEPT !.utr = utr, !.status = "PAYMENT_SUBMITTED"]
  <2>1. r \in TxnRecord
    BY <1>0 DEF TxnRecord, Status
  <2>2. Update(t, r)
    BY <1>3 DEF SubmitUtr
  <2> QED BY <1>3, <2>1, <2>2, UpdateTyped
          DEF SubmitUtr, restUnchanged, TypeOK, Working
<1>4. CASE Cancel(t)
  <2>1. [txns[t] EXCEPT !.status = "CANCELLED"] \in TxnRecord
    BY <1>0 DEF TxnRecord, Status, Terminal
  <2> QED BY <1>4, <2>1, UpdateTyped
          DEF Cancel, restUnchanged, TypeOK, Working
<1>5. CASE Reject(t)
  <2>1. [txns[t] EXCEPT !.status = "REJECTED"] \in TxnRecord
    BY <1>0 DEF TxnRecord, Status, Terminal
  <2> QED BY <1>5, <2>1, UpdateTyped
          DEF Reject, restUnchanged, TypeOK, Working
<1>6. CASE Approve(t)
  <2>1. [txns[t] EXCEPT !.status = "PAID"] \in TxnRecord
    BY <1>0 DEF TxnRecord, Status, Terminal
  <2> QED BY <1>6, <2>1, UpdateTyped
          DEF Approve, TypeOK, Working
<1> QED BY <1>1, <1>2, <1>3, <1>4, <1>5, <1>6, TxnStep(t) DEF TxnStep

\* Every step keeps the shapes.
LEMMA NextTyped == TypeInv /\ [RechargeNext]_rechargeVars => TypeInv'
<1> SUFFICES ASSUME TypeInv, [RechargeNext]_rechargeVars PROVE TypeInv'
  OBVIOUS
<1>0. /\ credited \in [Txn -> Nat] /\ ledger \in [Txn -> Nat] /\ disk \in Files
      /\ accounts \subseteq User
  BY DEF TypeInv, TypeOK
<1>1. CASE \E t \in Txn : TxnStep(t)
  BY <1>1, TxnStepTyped
<1>2. CASE Credit
  <2>1. approving \in Txn
    BY <1>2 DEF Credit, TypeInv, Working
  <2>2. credited' \in [Txn -> Nat]
    BY <1>0, <1>2, <2>1 DEF Credit
  <2>3. disk' \in Files
    BY <1>0, <1>2, <2>2 DEF Credit, Written, Files
  <2> QED BY <1>2, <2>2, <2>3 DEF Credit, TypeInv, TypeOK, Working
<1>3. CASE Enter
  <2>1. approving \in Txn
    BY <1>3 DEF Enter, TypeInv, Working
  <2>2. ledger' \in [Txn -> Nat]
    BY <1>0, <1>3, <2>1 DEF Enter
  <2>3. disk' \in Files
    BY <1>0, <1>3, <2>2 DEF Enter, Written, Files
  <2> QED BY <1>3, <2>2, <2>3 DEF Enter, TypeInv, TypeOK, Working
<1>4. CASE SetSelling
  BY <1>4 DEF SetSelling, TypeInv, TypeOK, Working
<1>5. CASE \E u \in User : DeleteAccount(u)
  BY <1>5 DEF DeleteAccount, TypeInv, TypeOK, Working
<1>6. CASE SaveUsers
  BY <1>0, <1>6 DEF SaveUsers, TypeInv, TypeOK, Working, Files
<1>7. CASE Crash
  <2>1. crashes' \in Nat
    BY <1>7 DEF Crash, TypeInv, TypeOK
  <2>2. /\ disk.txns \in [Txn -> TxnRecord] /\ disk.credited \in [Txn -> Nat]
        /\ disk.ledger \in [Txn -> Nat] /\ disk.accounts \subseteq User
    BY <1>0 DEF Files
  <2> QED BY <1>7, <2>1, <2>2 DEF Crash, TypeInv, TypeOK, Working, Offers
<1>8. CASE UNCHANGED rechargeVars
  BY <1>8 DEF rechargeVars, TypeInv, TypeOK, Working
<1> QED BY <1>1, <1>2, <1>3, <1>4, <1>5, <1>6, <1>7, <1>8 DEF RechargeNext

\* Every variable keeps its shape, whatever the disk does.
THEOREM RechargeTypeCorrect == RechargeSpec => []TypeOK
<1>1. TypeInv => TypeOK
  BY DEF TypeInv
<1> QED BY InitTyped, NextTyped, <1>1, PTL DEF RechargeSpec

-----------------------------------------------------------------------------
(* Money, on a disk whose writes succeed                                   *)

LEMMA InitMoney == RechargeInit => MoneyInv
<1> SUFFICES ASSUME RechargeInit PROVE MoneyInv
  OBVIOUS
<1>1. TypeInv
  BY InitTyped
<1>2. OnDisk /\ Progress /\ \A t \in Txn : Counted(t)
  BY DEF RechargeInit, OnDisk, Progress, Counted
<1> QED BY <1>1, <1>2 DEF MoneyInv

\* A request that was not credited may be replaced by anything, and become
\* the one being approved if it is paid.
LEMMA UpdateMoney ==
    ASSUME DiskMayFail = FALSE, MoneyInv, TypeInv',
           NEW t \in Txn, NEW r \in TxnRecord, credited[t] = 0, Update(t, r),
           UNCHANGED <<credited, ledger>>,
           \/ stage' = "idle"
           \/ stage' = "paid" /\ approving' = t /\ r.status = "PAID"
    PROVE  MoneyInv'
<1>0. /\ txns \in [Txn -> TxnRecord]
      /\ disk \in Files
  BY DEF MoneyInv, TypeInv, TypeOK
<1>1. txns' = [txns EXCEPT ![t] = r]
  BY DEF Update
<1>2. disk' = [disk EXCEPT !.txns = txns']
  BY DEF Update, PersistTxns, Written
<1>3. OnDisk'
  BY <1>0, <1>2 DEF MoneyInv, OnDisk, Files
<1>4. \A d \in Txn : Counted(d)'
  BY <1>0, <1>1 DEF MoneyInv, Counted
<1>5. Progress'
  BY <1>0, <1>1 DEF Progress
<1> QED BY <1>3, <1>4, <1>5 DEF MoneyInv

\* A request that is not paid has not been credited.
LEMMA OpenIsUncredited ==
    ASSUME MoneyInv, NEW t \in Txn, txns[t].status # "PAID"
    PROVE  credited[t] = 0
BY DEF MoneyInv, Counted

LEMMA TxnStepMoney ==
    ASSUME DiskMayFail = FALSE, MoneyInv, NEW t \in Txn, TxnStep(t)
    PROVE  MoneyInv'
<1>0. TypeInv /\ TypeInv'
  BY TxnStepTyped DEF MoneyInv
<1>1. txns[t] \in TxnRecord
  BY <1>0 DEF TypeInv, TypeOK
<1>2. credited[t] = 0
  BY OpenIsUncredited
  DEF TxnStep, CreateTransaction, CreateOrder, SubmitUtr, Cancel, Reject,
      Approve, Open
<1>3. ASSUME NEW u \in User, NEW utr \in Utr, NEW m \in Method,
             CreateTransaction(t, u, utr, m)
      PROVE  MoneyInv'
  <2> DEFINE r == [status |-> "PENDING", user |-> u, utr |-> utr, method |-> m]
  <2>1. r \in TxnRecord
    BY DEF TxnRecord, Status
  <2>2. /\ Update(t, r)
        /\ UNCHANGED <<credited, ledger>>
        /\ stage' = "idle"
    BY <1>3 DEF CreateTransaction, restUnchanged, Idle
  <2> HIDE DEF r
  <2> QED BY <1>0, <1>2, <2>1, <2>2, UpdateMoney
<1>4. ASSUME NEW u \in User, NEW m \in Method, CreateOrder(t, u, m)
      PROVE  MoneyInv'
  <2> DEFINE r == [status |-> "PENDING", user |-> u, utr |-> None, method |-> m]
  <2>1. r \in TxnRecord
    BY DEF TxnRecord, Status
  <2>2. /\ Update(t, r)
        /\ UNCHANGED <<credited, ledger>>
        /\ stage' = "idle"
    BY <1>4 DEF CreateOrder, restUnchanged, Idle
  <2> HIDE DEF r
  <2> QED BY <1>0, <1>2, <2>1, <2>2, UpdateMoney
<1>5. ASSUME NEW utr \in Utr, SubmitUtr(t, utr)
      PROVE  MoneyInv'
  <2> DEFINE r == [txns[t] EXCEPT !.utr = utr, !.status = "PAYMENT_SUBMITTED"]
  <2>1. r \in TxnRecord
    BY <1>1 DEF TxnRecord, Status
  <2>2. /\ Update(t, r)
        /\ UNCHANGED <<credited, ledger>>
        /\ stage' = "idle"
    BY <1>5 DEF SubmitUtr, restUnchanged, Idle
  <2> HIDE DEF r
  <2> QED BY <1>0, <1>2, <2>1, <2>2, UpdateMoney
<1>6. ASSUME NEW decision \in {"CANCELLED", "REJECTED"},
             Update(t, [txns[t] EXCEPT !.status = decision]),
             Idle, restUnchanged
      PROVE  MoneyInv'
  <2> DEFINE r == [txns[t] EXCEPT !.status = decision]
  <2>1. r \in TxnRecord
    BY <1>1 DEF TxnRecord, Status, Terminal
  <2>2. /\ Update(t, r)
        /\ UNCHANGED <<credited, ledger>>
        /\ stage' = "idle"
    BY <1>6 DEF restUnchanged, Idle
  <2> HIDE DEF r
  <2> QED BY <1>0, <1>2, <2>1, <2>2, UpdateMoney
<1>7. CASE Cancel(t)
  BY <1>6, <1>7 DEF Cancel
<1>8. CASE Reject(t)
  BY <1>6, <1>8 DEF Reject
<1>9. CASE Approve(t)
  <2> DEFINE r == [txns[t] EXCEPT !.status = "PAID"]
  <2>1. r \in TxnRecord /\ r.status = "PAID"
    BY <1>1 DEF TxnRecord, Status, Terminal
  <2>2. /\ Update(t, r)
        /\ UNCHANGED <<credited, ledger>>
        /\ stage' = "paid"
        /\ approving' = t
    BY <1>9 DEF Approve
  <2> HIDE DEF r
  <2> QED BY <1>0, <1>2, <2>1, <2>2, UpdateMoney
<1> QED BY <1>3, <1>4, <1>5, <1>7, <1>8, <1>9 DEF TxnStep

\* The second write: the request being approved was not credited before.
LEMMA CreditMoney ==
    ASSUME DiskMayFail = FALSE, MoneyInv, TypeInv', Credit
    PROVE  MoneyInv'
<1>0. /\ approving \in Txn
      /\ credited \in [Txn -> Nat]
      /\ disk \in Files
      /\ txns[approving].status = "PAID"
      /\ credited[approving] = 0
  BY DEF Credit, MoneyInv, TypeInv, TypeOK, Working, Progress
<1>1. credited' = [credited EXCEPT ![approving] = 1]
  BY <1>0 DEF Credit
<1>2. OnDisk'
  BY <1>0 DEF Credit, Written, MoneyInv, OnDisk, Files
<1>3. \A t \in Txn : ledger[t] \in Nat
  BY DEF MoneyInv, TypeInv, TypeOK
<1>4. \A t \in Txn : Counted(t)'
  BY <1>0, <1>1, <1>3 DEF Credit, MoneyInv, Counted
<1>5. Progress'
  BY <1>0, <1>1, <1>3 DEF Credit, MoneyInv, Counted, Progress
<1> QED BY <1>2, <1>4, <1>5 DEF MoneyInv

\* The third write: it was credited, and not entered before.
LEMMA EnterMoney ==
    ASSUME DiskMayFail = FALSE, MoneyInv, TypeInv', Enter
    PROVE  MoneyInv'
<1>0. /\ approving \in Txn
      /\ ledger \in [Txn -> Nat]
      /\ disk \in Files
      /\ credited[approving] = 1
      /\ ledger[approving] = 0
  BY DEF Enter, MoneyInv, TypeInv, TypeOK, Working, Progress
<1>1. ledger' = [ledger EXCEPT ![approving] = 1]
  BY <1>0 DEF Enter
<1>2. OnDisk'
  BY <1>0 DEF Enter, Written, MoneyInv, OnDisk, Files
<1>3. \A t \in Txn : Counted(t)'
  BY <1>0, <1>1 DEF Enter, MoneyInv, Counted
<1>4. Progress'
  BY DEF Enter, Progress
<1> QED BY <1>2, <1>3, <1>4 DEF MoneyInv

\* The inductive step.
LEMMA NextMoney ==
    ASSUME DiskMayFail = FALSE
    PROVE  MoneyInv /\ [RechargeNext]_rechargeVars => MoneyInv'
<1> SUFFICES ASSUME MoneyInv, [RechargeNext]_rechargeVars PROVE MoneyInv'
  OBVIOUS
<1>0. TypeInv'
  BY NextTyped DEF MoneyInv
<1>1. CASE \E t \in Txn : TxnStep(t)
  BY <1>1, TxnStepMoney
<1>2. CASE Credit
  BY <1>0, <1>2, CreditMoney
<1>3. CASE Enter
  BY <1>0, <1>3, EnterMoney
<1>4. ASSUME UNCHANGED <<txns, credited, ledger, disk, approving, stage>>
      PROVE  MoneyInv'
  BY <1>0, <1>4 DEF MoneyInv, OnDisk, Counted, Progress
<1>5. CASE SetSelling
  BY <1>4, <1>5 DEF SetSelling
<1>6. CASE \E u \in User : DeleteAccount(u)
  BY <1>4, <1>6 DEF DeleteAccount
<1>7. CASE SaveUsers
  <2>1. disk \in Files
    BY DEF MoneyInv, TypeInv, TypeOK
  <2> QED BY <1>0, <1>7, <2>1
          DEF SaveUsers, MoneyInv, OnDisk, Counted, Progress, Files
<1>8. CASE Crash
  BY <1>0, <1>8 DEF Crash, MoneyInv, OnDisk, Counted, Progress
<1>9. CASE UNCHANGED rechargeVars
  BY <1>4, <1>9 DEF rechargeVars
<1> QED BY <1>1, <1>2, <1>3, <1>5, <1>6, <1>7, <1>8, <1>9 DEF RechargeNext

\* If writes succeed, no interleaving of approvals, other decisions and
\* crashes credits a request twice, or credits one whose file is not PAID.
THEOREM CreditedAtMostOnce ==
    ASSUME DiskMayFail = FALSE
    PROVE  RechargeSpec => []CreditedOnce
<1>1. MoneyInv => CreditedOnce
  BY DEF MoneyInv, OnDisk, Counted, CreditedOnce
<1> QED BY InitMoney, NextMoney, <1>1, PTL DEF RechargeSpec

\* If writes succeed, every ledger entry has its credit, on disk too.
THEOREM LedgerAlwaysBacked ==
    ASSUME DiskMayFail = FALSE
    PROVE  RechargeSpec => []LedgerIsBacked
<1>1. MoneyInv => LedgerIsBacked
  BY DEF MoneyInv, OnDisk, Counted, LedgerIsBacked
<1> QED BY InitMoney, NextMoney, <1>1, PTL DEF RechargeSpec

-----------------------------------------------------------------------------
(* Refinement                                                              *)

\* A decision moves one request and credits nobody.
LEMMA MoveImplements ==
    ASSUME TypeInv, NEW t \in Txn, NEW r \in TxnRecord,
           txns' = [txns EXCEPT ![t] = r],
           credited' = credited,
           NEW from \in {"none", "open"}, NEW to \in {"open", "paid", "closed"},
           Outcome(t) = from,
           to = "open" <=> from = "none",
           to = "open" => r.status \in {"PENDING", "PAYMENT_SUBMITTED"},
           to = "paid" => r.status = "PAID",
           to = "closed" => r.status \in {"CANCELLED", "REJECTED"}
    PROVE  Order!OrderNext
<1>0. txns \in [Txn -> TxnRecord]
  BY DEF TypeInv, TypeOK
<1>1. Outcome(t)' = to
  BY <1>0 DEF Outcome, Open
<1>2. \A d \in Txn \ {t} : Outcome(d)' = Outcome(d)
  BY <1>0 DEF Outcome, Open
<1>3. [d \in Txn |-> Outcome(d)]' = [[d \in Txn |-> Outcome(d)] EXCEPT ![t] = to]
  BY <1>1, <1>2
<1>4. Order!Move(t, from, to)
  BY <1>3 DEF Order!Move
<1> QED BY <1>4 DEF Order!OrderNext

\* Replacing a pending request by another pending one is no step.
LEMMA StillOpenStutters ==
    ASSUME TypeInv, NEW t \in Txn, NEW r \in TxnRecord,
           txns' = [txns EXCEPT ![t] = r],
           credited' = credited,
           Outcome(t) = "open",
           r.status \in {"PENDING", "PAYMENT_SUBMITTED"}
    PROVE  UNCHANGED Order!orderVars
<1>0. txns \in [Txn -> TxnRecord]
  BY DEF TypeInv, TypeOK
<1>1. \A d \in Txn : Outcome(d)' = Outcome(d)
  BY <1>0 DEF Outcome, Open
<1> QED BY <1>1 DEF Order!orderVars

LEMMA TxnStepImplements ==
    ASSUME TypeInv, NEW t \in Txn, TxnStep(t)
    PROVE  [Order!OrderNext]_Order!orderVars
<1>0. txns[t] \in TxnRecord
  BY DEF TypeInv, TypeOK
<1>1. ASSUME NEW u \in User, NEW utr \in Utr, NEW m \in Method,
             CreateTransaction(t, u, utr, m)
      PROVE  Order!OrderNext
  <2> DEFINE r == [status |-> "PENDING", user |-> u, utr |-> utr, method |-> m]
  <2>1. r \in TxnRecord /\ r.status = "PENDING"
    BY DEF TxnRecord, Status
  <2>2. /\ txns' = [txns EXCEPT ![t] = r]
        /\ credited' = credited
        /\ Outcome(t) = "none"
    BY <1>1 DEF CreateTransaction, Update, restUnchanged, Outcome, Open
  <2> HIDE DEF r
  <2> QED BY <2>1, <2>2, MoveImplements
<1>2. ASSUME NEW u \in User, NEW m \in Method, CreateOrder(t, u, m)
      PROVE  Order!OrderNext
  <2> DEFINE r == [status |-> "PENDING", user |-> u, utr |-> None, method |-> m]
  <2>1. r \in TxnRecord /\ r.status = "PENDING"
    BY DEF TxnRecord, Status
  <2>2. /\ txns' = [txns EXCEPT ![t] = r]
        /\ credited' = credited
        /\ Outcome(t) = "none"
    BY <1>2 DEF CreateOrder, Update, restUnchanged, Outcome, Open
  <2> HIDE DEF r
  <2> QED BY <2>1, <2>2, MoveImplements
<1>3. ASSUME NEW utr \in Utr, SubmitUtr(t, utr)
      PROVE  UNCHANGED Order!orderVars
  <2> DEFINE r == [txns[t] EXCEPT !.utr = utr, !.status = "PAYMENT_SUBMITTED"]
  <2>1. r \in TxnRecord /\ r.status = "PAYMENT_SUBMITTED"
    BY <1>0 DEF TxnRecord, Status
  <2>2. /\ txns' = [txns EXCEPT ![t] = r]
        /\ credited' = credited
        /\ Outcome(t) = "open"
    BY <1>3 DEF SubmitUtr, Update, restUnchanged, Outcome, Open
  <2> HIDE DEF r
  <2> QED BY <2>1, <2>2, StillOpenStutters
<1>4. ASSUME NEW decision \in {"CANCELLED", "REJECTED", "PAID"},
             Update(t, [txns[t] EXCEPT !.status = decision]),
             credited' = credited, Open(t)
      PROVE  Order!OrderNext
  <2> DEFINE r == [txns[t] EXCEPT !.status = decision]
             to == IF decision = "PAID" THEN "paid" ELSE "closed"
  <2>1. r \in TxnRecord /\ r.status = decision
    BY <1>0 DEF TxnRecord, Status, Terminal
  <2>2. txns' = [txns EXCEPT ![t] = r] /\ Outcome(t) = "open"
    BY <1>4 DEF Update, Outcome, Open
  <2>3. /\ to \in {"paid", "closed"}
        /\ to = "paid" => r.status = "PAID"
        /\ to = "closed" => r.status \in {"CANCELLED", "REJECTED"}
    BY <2>1
  <2> HIDE DEF r, to
  <2> QED BY <1>4, <2>1, <2>2, <2>3, MoveImplements
<1>5. CASE Cancel(t) \/ Reject(t) \/ Approve(t)
  BY <1>4, <1>5 DEF Cancel, Reject, Approve, restUnchanged
<1> QED BY <1>1, <1>2, <1>3, <1>5 DEF TxnStep

\* Every step of the service is a step of RechargeOrder or none: a crash, on
\* a disk whose writes succeed, takes back nothing.
LEMMA NextImplements ==
    ASSUME DiskMayFail = FALSE
    PROVE  MoneyInv /\ [RechargeNext]_rechargeVars
             => [Order!OrderNext]_Order!orderVars
<1> SUFFICES ASSUME MoneyInv, [RechargeNext]_rechargeVars
             PROVE  [Order!OrderNext]_Order!orderVars
  OBVIOUS
<1>1. CASE \E t \in Txn : TxnStep(t)
  BY <1>1, TxnStepImplements DEF MoneyInv
<1>2. CASE Credit
  <2>1. /\ approving \in Txn
        /\ credited \in [Txn -> Nat]
        /\ txns[approving].status = "PAID"
        /\ credited[approving] = 0
    BY <1>2 DEF Credit, MoneyInv, TypeInv, TypeOK, Working, Progress
  <2>2. /\ credited' = [credited EXCEPT ![approving] = 1]
        /\ txns' = txns
    BY <1>2, <2>1 DEF Credit
  <2>3. Outcome(approving) = "paid"
    BY <2>1 DEF Outcome, Open
  <2>4. \A t \in Txn : Outcome(t)' = Outcome(t)
    BY <2>2 DEF Outcome, Open
  <2>5. Order!PutIn(approving)
    BY <2>1, <2>2, <2>3, <2>4 DEF Order!PutIn
  <2> QED BY <2>1, <2>5 DEF Order!OrderNext
<1>3. ASSUME txns' = txns, credited' = credited
      PROVE  UNCHANGED Order!orderVars
  <2>1. \A t \in Txn : Outcome(t)' = Outcome(t)
    BY <1>3 DEF Outcome, Open
  <2> QED BY <1>3, <2>1 DEF Order!orderVars
<1>4. CASE \/ Enter \/ SetSelling \/ \E u \in User : DeleteAccount(u)
           \/ SaveUsers \/ Crash \/ UNCHANGED rechargeVars
  BY <1>3, <1>4
  DEF Enter, SetSelling, DeleteAccount, SaveUsers, Crash, rechargeVars,
      MoneyInv, OnDisk
<1> QED BY <1>1, <1>2, <1>4 DEF RechargeNext

\* If writes succeed, the service implements RechargeOrder: every request is
\* decided once and for good, and credited at most once, after it was paid.
THEOREM RechargeImplementsOrder ==
    ASSUME DiskMayFail = FALSE
    PROVE  RechargeSpec => ImplementsOrder
<1>1. RechargeInit => Order!OrderInit
  BY DEF RechargeInit, Order!OrderInit, Outcome, Open, NoTxn
<1> QED BY <1>1, InitMoney, NextMoney, NextImplements, PTL
        DEF RechargeSpec, ImplementsOrder, Order!OrderSpec

-----------------------------------------------------------------------------
(***************************************************************************)
(* The Fruit Wheel, for any players, fruits, multipliers, fee and number of *)
(* rounds.                                                                 *)
(***************************************************************************)

Bets == [Users -> [Foods -> Nat]]
Spin == [gen : Nat, pay : [Users -> Nat], todo : SUBSET Users]

WheelTyped ==
    /\ wallet \in BOOLEAN /\ running \in BOOLEAN
    /\ bal \in [Users -> Nat]
    /\ bets \in Bets /\ saved \in Bets
    /\ gen \in Nat
    /\ phase = "spinning" => result \in Foods
    /\ \A a \in asked : a.user \in Users /\ a.food \in Foods
    /\ \A s \in spins : \E i : \E q \in Spin : s = [id |-> i, spin |-> q]

\* Without the production wallet nothing is awaited.
NothingAwaited == ~wallet => asked = {} /\ spins = {}

WheelInv == WheelTyped /\ NothingAwaited /\ SnapshotIsCurrent

-----------------------------------------------------------------------------
(* The settlement.                                                         *)

LEMMA StakesTyped ==
    ASSUME NEW b \in Bets
    PROVE  /\ \A u \in Users : Stake(b, u) \in Nat
           /\ Stakes(b) \in Nat
<1> DEFINE S == [u \in Users |-> Stake(b, u)]
<1>1. ASSUME NEW u \in Users PROVE Stake(b, u) \in Nat
  <2>1. \A f \in Foods : b[u][f] \in Nat
    BY DEF Bets
  <2> QED BY <2>1, WheelAssumption, SumIsNat DEF Stake
<1>2. \A u \in Users : S[u] \in Nat
  BY <1>1
<1>3. SumFunctionOnSet(S, Users) \in Nat
  <2> HIDE DEF S
  <2> QED BY <1>2, WheelAssumption, SumIsNat
<1> QED BY <1>1, <1>3 DEF Stakes

LEMMA NoStakes ==
    /\ NoBets \in Bets /\ Stakes(NoBets) = 0
    /\ \A u \in Users : Stake(NoBets, u) = 0
<1>1. NoBets \in Bets
  BY DEF NoBets, Bets
<1>2. ASSUME NEW u \in Users PROVE Stake(NoBets, u) = 0
  <2>1. \A f \in Foods : NoBets[u][f] = 0
    BY DEF NoBets
  <2> QED BY <2>1, WheelAssumption, SumOfZeros DEF Stake
<1>3. Stakes(NoBets) = 0
  <2> DEFINE S == [u \in Users |-> Stake(NoBets, u)]
  <2>1. \A u \in Users : S[u] = 0
    BY <1>2
  <2> HIDE DEF S
  <2>2. SumFunctionOnSet(S, Users) = 0
    BY <2>1, WheelAssumption, SumOfZeros
  <2> QED BY <2>2 DEF Stakes, S
<1> QED BY <1>1, <1>2, <1>3

WithChip(b, u, f) == [b EXCEPT ![u][f] = @ + Chip]

\* One more chip on the table.
LEMMA ChipIsStaked ==
    ASSUME NEW b \in Bets, NEW u \in Users, NEW f \in Foods,
           NEW c, c = WithChip(b, u, f)
    PROVE  c \in Bets /\ Stakes(c) = Stakes(b) + Chip
<1> DEFINE x == [b[u] EXCEPT ![f] = @ + Chip]
           B == [v \in Users |-> Stake(b, v)]
           C == [v \in Users |-> Stake(c, v)]
<1>1. b[u] \in [Foods -> Nat] /\ b[u][f] \in Nat /\ Chip \in Nat
  BY WheelAssumption DEF Bets
<1>2. x \in [Foods -> Nat] /\ x[f] = b[u][f] + Chip
      /\ \A g \in Foods \ {f} : x[g] = b[u][g]
  BY <1>1
<1>3. c = [b EXCEPT ![u] = x]
  BY <1>1 DEF Bets, WithChip
<1> HIDE DEF x
<1>4. c \in Bets /\ c[u] = x /\ \A v \in Users \ {u} : c[v] = b[v]
  BY <1>2, <1>3 DEF Bets
<1>5. Stake(c, u) = Stake(b, u) + Chip
  <2>1. (\A g \in Foods : b[u][g] \in Int) /\ x[f] \in Int
    BY <1>1, <1>2
  <2>2. SumFunctionOnSet(x, Foods) = SumFunctionOnSet(b[u], Foods) - b[u][f] + x[f]
    BY <1>2, <2>1, WheelAssumption, SumChanges
  <2>3. Stake(b, u) \in Nat
    BY StakesTyped
  <2> QED BY <1>1, <1>2, <1>4, <2>2, <2>3 DEF Stake
<1>6. \A v \in Users \ {u} : Stake(c, v) = Stake(b, v)
  BY <1>4 DEF Stake
<1>7. \A v \in Users : Stake(b, v) \in Nat /\ Stake(c, v) \in Nat
  BY <1>4, StakesTyped
<1>8. /\ \A v \in Users : B[v] \in Int
      /\ C[u] \in Int /\ C[u] = B[u] + Chip /\ B[u] \in Int
      /\ \A v \in Users \ {u} : C[v] = B[v]
  <2>1. B[u] = Stake(b, u) /\ C[u] = Stake(c, u)
    OBVIOUS
  <2>2. \A v \in Users : B[v] = Stake(b, v) /\ C[v] = Stake(c, v)
    OBVIOUS
  <2> HIDE DEF B, C
  <2>3. \A v \in Users : B[v] \in Int
    BY <1>7, <2>2
  <2>4. C[u] \in Int /\ C[u] = B[u] + Chip /\ B[u] \in Int
    <3>1. Stake(b, u) \in Int /\ Stake(c, u) \in Int
      BY <1>7
    <3>2. C[u] = B[u] + Chip
      BY <1>5, <2>1
    <3> QED BY <2>1, <3>1, <3>2
  <2>5. \A v \in Users \ {u} : C[v] = B[v]
    BY <1>6, <2>2
  <2> QED BY <2>3, <2>4, <2>5
<1>9. Stakes(b) = SumFunctionOnSet(B, Users)
      /\ Stakes(c) = SumFunctionOnSet(C, Users)
      /\ Stakes(b) \in Nat
  BY StakesTyped DEF Stakes
<1> HIDE DEF B, C
<1>10. SumFunctionOnSet(C, Users) = SumFunctionOnSet(B, Users) - B[u] + C[u]
  BY <1>8, WheelAssumption, SumChanges
<1> QED BY <1>1, <1>4, <1>8, <1>9, <1>10

LEMMA PoolTyped ==
    ASSUME NEW b \in Bets
    PROVE  FundedPool(b) \in Nat /\ FundedPool(b) <= Stakes(b)
<1> DEFINE n == Stakes(b)
           k == 10000 - FeeBps
<1>1. n \in Nat /\ k \in 0..10000
  BY StakesTyped, WheelAssumption
<1>2. FundedPool(b) = (n * k) \div 10000
  BY DEF FundedPool
<1> HIDE DEF n, k
<1>3. n * k \in Nat /\ n * k <= n * 10000
  BY <1>1
<1>4. \A m \in Nat : m <= n * 10000 => m \div 10000 \in Nat /\ m \div 10000 <= n
  BY <1>1
<1> QED BY <1>2, <1>3, <1>4 DEF n

\* What a division rounds away.
LEMMA Rounded ==
    ASSUME NEW m \in Nat, NEW g \in Nat, g > 0
    PROVE  m \div g \in Nat /\ g * (m \div g) <= m
OBVIOUS

\* For any bets, multipliers and fee, the wins of a round together are no more
\* than what its stakes fund after the fee: each is rounded down.
THEOREM WinsAreFunded ==
    ASSUME NEW b \in Bets, NEW f \in Foods
    PROVE  /\ \A u \in Users : Payout(b, f, u) \in Nat
           /\ SumFunctionOnSet([u \in Users |-> Payout(b, f, u)], Users) <= FundedPool(b)
<1> DEFINE G == [u \in Users |-> Gross(b, f, u)]
           W == [u \in Users |-> Payout(b, f, u)]
           g == GrossTotal(b, f)
           p == FundedPool(b)
<1>1. \A u \in Users : G[u] \in Nat /\ G[u] = Gross(b, f, u)
  <2>1. ASSUME NEW u \in Users PROVE Gross(b, f, u) \in Nat
    <3>1. b[u][f] \in Nat /\ Mult[f] \in Nat
      BY WheelAssumption DEF Bets
    <3>2. \A x, y \in Nat : x * y \in Nat
      OBVIOUS
    <3> QED BY <3>1, <3>2 DEF Gross
  <2> QED BY <2>1
<1>2. g = SumFunctionOnSet(G, Users)
  BY DEF GrossTotal
<1>3. p \in Nat
  BY PoolTyped
<1>4. \A u \in Users : /\ W[u] = Payout(b, f, u)
                       /\ W[u] = IF g <= p THEN G[u] ELSE (G[u] * p) \div g
  BY DEF Payout
<1> HIDE DEF G, W, g, p
<1>5. g \in Nat
  BY <1>1, <1>2, WheelAssumption, SumIsNat
<1>6. CASE g <= p
  <2>1. \A u \in Users : W[u] = G[u] /\ G[u] \in Int
    BY <1>1, <1>4, <1>6
  <2>2. SumFunctionOnSet(W, Users) = SumFunctionOnSet(G, Users)
    BY <2>1, WheelAssumption, SumSame
  <2> QED BY <1>1, <1>2, <1>4, <1>6, <2>1, <2>2 DEF W, p
<1>7. CASE ~(g <= p)
  <2> DEFINE X == [u \in Users |-> G[u] * p]
             Y == [u \in Users |-> g * W[u]]
  <2>1. g > 0
    BY <1>3, <1>5, <1>7
  <2>2. \A u \in Users : G[u] * p \in Nat
    <3>1. \A x, y \in Nat : x * y \in Nat
      OBVIOUS
    <3> QED BY <1>1, <1>3, <3>1
  <2>3. \A u \in Users : W[u] \in Nat /\ g * W[u] <= G[u] * p
    BY <1>4, <1>5, <1>7, <2>1, <2>2, Rounded
  <2>4. \A u \in Users : g * W[u] \in Int
    BY <1>5, <2>3
  <2>5. \A u \in Users : /\ X[u] = p * G[u] /\ G[u] \in Int
                         /\ Y[u] = g * W[u] /\ W[u] \in Int
                         /\ X[u] \in Int /\ Y[u] \in Int /\ Y[u] <= X[u]
    <3>1. \A x \in Nat : x * p = p * x
      BY <1>3
    <3> QED BY <1>1, <2>2, <2>3, <2>4, <3>1
  <2> HIDE DEF X, Y
  <2>6. SumFunctionOnSet(X, Users) = p * SumFunctionOnSet(G, Users)
    <3>1. p \in Int /\ IsFiniteSet(Users)
      BY <1>3, WheelAssumption
    <3>2. \A u \in Users : G[u] \in Int /\ X[u] = p * G[u]
      BY <2>5
    <3> HIDE <1>5
    <3> QED BY <3>1, <3>2, SumScales
  <2>7. SumFunctionOnSet(Y, Users) = g * SumFunctionOnSet(W, Users)
    BY <1>5, <2>5, WheelAssumption, SumScales
  <2>8. SumFunctionOnSet(Y, Users) <= SumFunctionOnSet(X, Users)
    BY <2>5, WheelAssumption, SumAtMost
  <2>9. SumFunctionOnSet(W, Users) \in Nat
    BY <2>3, WheelAssumption, SumIsNat
  <2>10. \A w, h, q \in Nat : h > 0 /\ h * w <= q * h => w <= q
    <3> SUFFICES ASSUME NEW w \in Nat, NEW h \in Nat, NEW q \in Nat,
                        h > 0, h * w <= q * h, w >= q + 1
                 PROVE  FALSE
      OBVIOUS
    <3>1. h * w >= h * (q + 1)
      OBVIOUS
    <3>2. h * (q + 1) = q * h + h
      OBVIOUS
    <3> QED BY <3>1, <3>2
  <2>11. SumFunctionOnSet(W, Users) <= p
    BY <1>2, <1>3, <1>5, <2>1, <2>6, <2>7, <2>8, <2>9, <2>10
  <2> QED BY <1>4, <2>3, <2>11 DEF W, p
<1> QED BY <1>6, <1>7

-----------------------------------------------------------------------------
(* Every step.                                                             *)

LEMMA WheelStarts == Init => WheelInv
<1> SUFFICES ASSUME Init PROVE WheelInv
  OBVIOUS
<1>1. WheelTyped
  <2>1. bal \in [Users -> Nat] /\ wallet \in BOOLEAN
    BY WheelAssumption DEF Init
  <2>2. phase # "spinning" /\ asked = {} /\ spins = {} /\ running \in BOOLEAN /\ gen \in Nat
    BY DEF Init
  <2>3. bets \in Bets /\ saved \in Bets
    BY NoStakes DEF Init
  <2> QED BY <2>1, <2>2, <2>3 DEF WheelTyped
<1>2. NothingAwaited /\ SnapshotIsCurrent
  BY DEF Init, NothingAwaited, SnapshotIsCurrent
<1> QED BY <1>1, <1>2 DEF WheelInv

\* A payment under way, and one that goes on.
LEMMA SpinTyped ==
    ASSUME WheelTyped, NEW s \in spins
    PROVE  /\ s.spin \in Spin
           /\ \A u : [s EXCEPT !.spin.todo = @ \ {u}] =
                       [id |-> s.id, spin |-> [gen |-> s.spin.gen, pay |-> s.spin.pay,
                                               todo |-> s.spin.todo \ {u}]]
<1>1. \E i : \E q \in Spin : s = [id |-> i, spin |-> q]
  BY DEF WheelTyped
<1>2. PICK i : \E q \in Spin : s = [id |-> i, spin |-> q]
  BY <1>1
<1>3. PICK q \in Spin : s = [id |-> i, spin |-> q]
  BY <1>2
<1> QED BY <1>3 DEF Spin

\* What a round that is resolved pays.
LEMMA NewSpinTyped ==
    ASSUME WheelTyped, phase = "spinning"
    PROVE  /\ NewSpin \in Spin
           /\ NewSpin.pay = [u \in Users |-> Payout(bets, result, u)]
           /\ \A u \in Users : NewSpin.pay[u] \in Nat
           /\ SumFunctionOnSet(NewSpin.pay, Users) <= Stakes(bets)
           /\ SumFunctionOnSet(NewSpin.pay, Users) \in Nat
<1>1. bets \in Bets /\ result \in Foods /\ gen \in Nat
  BY DEF WheelTyped
<1>2. /\ \A u \in Users : Payout(bets, result, u) \in Nat
      /\ SumFunctionOnSet([u \in Users |-> Payout(bets, result, u)], Users)
           <= FundedPool(bets)
  BY <1>1, WinsAreFunded
<1>3. FundedPool(bets) \in Nat /\ Stakes(bets) \in Nat /\ FundedPool(bets) <= Stakes(bets)
  BY <1>1, PoolTyped, StakesTyped
<1> DEFINE p == [u \in Users |-> Payout(bets, result, u)]
<1>4. NewSpin = [gen |-> gen, pay |-> p,
                 todo |-> {u \in Users : Payout(bets, result, u) > 0}]
  BY DEF NewSpin
<1>5. p \in [Users -> Nat] /\ \A u \in Users : p[u] \in Nat
  BY <1>2
<1>6. SumFunctionOnSet(p, Users) <= FundedPool(bets)
  BY <1>2
<1> HIDE DEF p
<1>7. SumFunctionOnSet(p, Users) \in Nat
  BY <1>5, WheelAssumption, SumIsNat
<1> QED BY <1>1, <1>3, <1>4, <1>5, <1>6, <1>7 DEF Spin, p

LEMMA PlaceTyped ==
    ASSUME WheelTyped, NEW u \in Users, NEW f \in Foods, Place(u, f)
    PROVE  /\ bets' \in Bets /\ saved' = bets'
           /\ Stakes(bets') = Stakes(bets) + Chip
<1>1. bets \in Bets
  BY DEF WheelTyped
<1>2. bets' = WithChip(bets, u, f) /\ saved' = bets'
  BY DEF Place, Persist, WithChip
<1> QED BY <1>1, <1>2, ChipIsStaked

LEMMA WheelTypeKept ==
    ASSUME WheelInv, [Next]_vars PROVE WheelTyped'
<1>0. WheelTyped
  BY DEF WheelInv
<1>1. CASE UNCHANGED vars
  BY <1>0, <1>1 DEF vars, WheelTyped
<1>2. ASSUME NEW u \in Users, Join(u) PROVE WheelTyped'
  <2>1. CASE running
    BY <1>0, <1>2, <2>1 DEF WheelTyped, Join, EnsureRoom
  <2>2. CASE ~running
    <3>1. /\ bets' = NoBets /\ saved' = NoBets /\ phase' = "betting"
          /\ running' = TRUE /\ gen' = gen + 1
          /\ UNCHANGED <<wallet, bal, asked, spins>>
      BY <1>2, <2>2 DEF Join, EnsureRoom, StartRound, Persist
    <3> QED BY <1>0, <3>1, NoStakes DEF WheelTyped
  <2> QED BY <2>1, <2>2
<1>3. ASSUME NEW u \in Users, Leave(u) PROVE WheelTyped'
  BY <1>0, <1>3 DEF WheelTyped, Leave
<1>4. ASSUME NEW u \in Users, NEW f \in Foods, Bet(u, f) PROVE WheelTyped'
  <2>1. bets' \in Bets /\ saved' \in Bets
    BY <1>0, <1>4, PlaceTyped DEF Bet
  <2>2. bal' \in [Users -> Nat]
    BY <1>0, <1>4, WheelAssumption DEF WheelTyped, Bet, MayBet
  <2> QED BY <1>0, <1>4, <2>1, <2>2 DEF WheelTyped, Bet
<1>5. ASSUME NEW u \in Users, NEW f \in Foods, AskBet(u, f) PROVE WheelTyped'
  BY <1>0, <1>5 DEF WheelTyped, AskBet
<1>6. CASE EmptyTimer \/ CloseRoom
  BY <1>0, <1>6, NoStakes DEF WheelTyped, EmptyTimer, CloseRoom, Discard
<1>7. CASE ResolveBetting
  BY <1>0, <1>7 DEF WheelTyped, ResolveBetting
<1>8. ASSUME NEW g, Resolved(g)
      PROVE  /\ bets' \in Bets /\ saved' \in Bets
             /\ phase' = phase \/ phase' = "result"
  BY <1>0, <1>8, NoStakes DEF WheelTyped, Resolved, Persist
<1>9. CASE ResolveSpin
  <2>1. \A u \in Users : NewSpin.pay[u] \in Nat
    BY <1>0, <1>9, NewSpinTyped DEF ResolveSpin
  <2>2. bal' = [u \in Users |-> bal[u] + NewSpin.pay[u]]
    BY <1>9 DEF ResolveSpin
  <2>3. bal' \in [Users -> Nat]
    BY <1>0, <2>1, <2>2 DEF WheelTyped
  <2>4. /\ bets' \in Bets /\ saved' \in Bets
        /\ phase' = phase \/ phase' = "result"
    BY <1>8, <1>9 DEF ResolveSpin
  <2> QED BY <1>0, <1>9, <2>3, <2>4 DEF WheelTyped, ResolveSpin
<1>10. CASE BeginSpin
  <2>1. NewSpin \in Spin
    BY <1>0, <1>10, NewSpinTyped DEF BeginSpin
  <2>2. PICK i : spins' = spins \cup {[id |-> i, spin |-> NewSpin]}
    BY <1>10 DEF BeginSpin
  <2>3. \A s \in spins' : \E j : \E q \in Spin : s = [id |-> j, spin |-> q]
    BY <1>0, <2>1, <2>2 DEF WheelTyped
  <2> QED BY <1>0, <1>10, <2>3 DEF WheelTyped, BeginSpin
<1>11. CASE NextRound
  BY <1>0, <1>11, NoStakes DEF WheelTyped, NextRound, StartRound, Persist
<1>12. ASSUME NEW a \in asked, BetReturns(a) PROVE WheelTyped'
  <2>1. a.user \in Users /\ a.food \in Foods
    BY <1>0 DEF WheelTyped
  <2>2. CASE UNCHANGED <<bal, bets, saved>>
    BY <1>0, <1>12, <2>2 DEF WheelTyped, BetReturns
  <2>3. CASE ~(bal[a.user] < Chip)
    <3>1. bal' \in [Users -> Nat]
      BY <1>0, <1>12, <2>1, <2>3, WheelAssumption DEF WheelTyped, BetReturns
    <3>2. bets' \in Bets /\ saved' \in Bets
      <4>1. CASE Place(a.user, a.food)
        BY <1>0, <2>1, <4>1, PlaceTyped
      <4>2. CASE UNCHANGED bets /\ Persist(running)
        BY <1>0, <4>2, NoStakes DEF WheelTyped, Persist
      <4> QED BY <1>12, <2>3, <4>1, <4>2 DEF BetReturns
    <3> QED BY <1>0, <1>12, <3>1, <3>2 DEF WheelTyped, BetReturns
  <2> QED BY <1>12, <2>2, <2>3 DEF BetReturns
<1>13. ASSUME NEW s \in spins, EndSpin(s) PROVE WheelTyped'
  <2>1. /\ bets' \in Bets /\ saved' \in Bets
        /\ phase' = phase \/ phase' = "result"
    BY <1>8, <1>13 DEF EndSpin
  <2> QED BY <1>0, <1>13, <2>1 DEF WheelTyped, EndSpin
<1>14. ASSUME NEW s \in spins, NEW u \in Users, PayNext(s, u) PROVE WheelTyped'
  <2>1. s.spin \in Spin
    BY <1>0, SpinTyped
  <2>2. s.spin.pay \in [Users -> Nat] /\ s.spin.todo \subseteq Users
    BY <2>1 DEF Spin
  <2>3. bal' \in [Users -> Nat]
    BY <1>0, <1>14, <2>2 DEF WheelTyped, PayNext
  <2> DEFINE q == [gen |-> s.spin.gen, pay |-> s.spin.pay, todo |-> s.spin.todo \ {u}]
  <2>4. q \in Spin
    BY <2>1 DEF Spin
  <2>5. spins' = (spins \ {s}) \cup {[id |-> s.id, spin |-> q]}
    BY <1>0, <1>14, SpinTyped DEF PayNext
  <2> HIDE DEF q
  <2>6. \A t \in spins' : \E j : \E r \in Spin : t = [id |-> j, spin |-> r]
    BY <1>0, <2>4, <2>5 DEF WheelTyped
  <2> QED BY <1>0, <1>14, <2>3, <2>6 DEF WheelTyped, PayNext
<1>15. CASE WalletFails
  BY <1>0, <1>15 DEF WheelTyped, WalletFails
<1>16. CASE Restart
  <2>1. \A u \in Users : Stake(saved, u) \in Nat
    BY <1>0, StakesTyped DEF WheelTyped
  <2>2. bal' \in [Users -> Nat]
    BY <1>0, <1>16, <2>1 DEF WheelTyped, Restart
  <2> QED BY <1>0, <1>16, <2>2, NoStakes DEF WheelTyped, Restart, Discard
<1> QED BY <1>1, <1>2, <1>3, <1>4, <1>5, <1>6, <1>7, <1>9, <1>10, <1>11, <1>12, <1>13,
           <1>14, <1>15, <1>16 DEF Next, Tick, Returns

LEMMA SnapshotKept ==
    ASSUME WheelInv, [Next]_vars PROVE SnapshotIsCurrent' /\ NothingAwaited'
<1>0. (running => saved = bets) /\ (~wallet => asked = {} /\ spins = {})
  BY DEF WheelInv, SnapshotIsCurrent, NothingAwaited
<1>1. CASE UNCHANGED vars
  BY <1>0, <1>1 DEF vars, SnapshotIsCurrent, NothingAwaited
<1>2. ASSUME NEW u \in Users, Join(u) \/ Leave(u)
      PROVE  SnapshotIsCurrent' /\ NothingAwaited'
  BY <1>0, <1>2 DEF SnapshotIsCurrent, NothingAwaited, Join, Leave, EnsureRoom,
                    StartRound, Persist
<1>3. ASSUME NEW u \in Users, NEW f \in Foods, Bet(u, f) \/ AskBet(u, f)
      PROVE  SnapshotIsCurrent' /\ NothingAwaited'
  BY <1>0, <1>3 DEF SnapshotIsCurrent, NothingAwaited, Bet, AskBet, MayBet, Place, Persist
<1>4. CASE EmptyTimer \/ CloseRoom \/ WalletFails \/ Restart
  BY <1>0, <1>4 DEF SnapshotIsCurrent, NothingAwaited, EmptyTimer, CloseRoom, Discard,
                    WalletFails, Restart
<1>5. CASE Tick
  BY <1>0, <1>5 DEF SnapshotIsCurrent, NothingAwaited, Tick, ResolveBetting, ResolveSpin,
                    BeginSpin, NextRound, StartRound, Resolved, Persist
<1>6. CASE Returns
  <2>1. ASSUME NEW a \in asked, BetReturns(a)
        PROVE  SnapshotIsCurrent' /\ NothingAwaited'
    <3>1. \/ UNCHANGED <<bets, saved>>
          \/ saved' = bets'
          \/ UNCHANGED bets /\ saved' = IF running THEN bets' ELSE NoBets
      BY <2>1 DEF BetReturns, Place, Persist
    <3>2. UNCHANGED <<wallet, running>> /\ wallet
      BY <1>0, <2>1 DEF BetReturns
    <3> QED BY <1>0, <3>1, <3>2 DEF SnapshotIsCurrent, NothingAwaited
  <2>2. ASSUME NEW s \in spins, EndSpin(s) \/ \E u \in Users : PayNext(s, u)
        PROVE  SnapshotIsCurrent' /\ NothingAwaited'
    BY <1>0, <2>2 DEF SnapshotIsCurrent, NothingAwaited, EndSpin, PayNext, Resolved, Persist
  <2> QED BY <1>6, <2>1, <2>2 DEF Returns
<1> QED BY <1>1, <1>2, <1>3, <1>4, <1>5, <1>6 DEF Next

LEMMA WheelInvKept == WheelInv /\ [Next]_vars => WheelInv'
BY WheelTypeKept, SnapshotKept DEF WheelInv

\* In both deployments, with any number of engines, resolutions and failures:
\* the balances never fall below zero, and the file holds the stakes of the
\* running round.
THEOREM WheelInvariant == Spec => []WheelInv
<1> QED BY WheelStarts, WheelInvKept, PTL DEF Spec

\* A restart at any moment pays back the stakes of the running round.
THEOREM SnapshotAlwaysCurrent == Spec => []SnapshotIsCurrent
<1>1. WheelInv => SnapshotIsCurrent
  BY DEF WheelInv
<1> QED BY <1>1, WheelInvariant, PTL

-----------------------------------------------------------------------------
(* The Diamonds.                                                           *)

LEMMA TotalMeans ==
    /\ Total = SumFunctionOnSet(bal, Users)
                 + IF running THEN Stakes(bets) ELSE Stakes(saved)
    /\ Total' = SumFunctionOnSet(bal', Users)
                  + IF running' THEN Stakes(bets') ELSE Stakes(saved')
BY DEF Total, Stakes, Stake

LEMMA BalancesTyped ==
    ASSUME WheelTyped
    PROVE  /\ \A u \in Users : bal[u] \in Int
           /\ SumFunctionOnSet(bal, Users) \in Int
           /\ Stakes(bets) \in Nat /\ Stakes(saved) \in Nat
<1>1. \A u \in Users : bal[u] \in Int
  BY DEF WheelTyped
<1>2. SumFunctionOnSet(bal, Users) \in Int
  BY <1>1, WheelAssumption, SumIsInt
<1> QED BY <1>1, <1>2, StakesTyped DEF WheelTyped

\* The balances of all users grow by what each is paid.
LEMMA Paid ==
    ASSUME WheelTyped, NEW p, \A u \in Users : p[u] \in Int,
           bal' = [u \in Users |-> bal[u] + p[u]]
    PROVE  SumFunctionOnSet(bal', Users) =
             SumFunctionOnSet(bal, Users) + SumFunctionOnSet(p, Users)
<1>1. \A u \in Users : bal[u] \in Int /\ p[u] \in Int /\ bal'[u] = bal[u] + p[u]
  BY BalancesTyped
<1> QED BY <1>1, WheelAssumption, SumIsLinear

LEMMA NothingMinted ==
    ASSUME WheelInv, [Next]_vars PROVE wallet \/ Total' <= Total
<1> SUFFICES ASSUME ~wallet PROVE Total' <= Total
  OBVIOUS
<1>0. WheelTyped /\ asked = {} /\ spins = {} /\ (running => saved = bets)
  BY DEF WheelInv, NothingAwaited, SnapshotIsCurrent
<1> DEFINE held == SumFunctionOnSet(bal, Users)
           now == SumFunctionOnSet(bal', Users)
<1>a. /\ held \in Int /\ Stakes(bets) \in Nat /\ Stakes(saved) \in Nat
      /\ \A u \in Users : bal[u] \in Int
  BY <1>0, BalancesTyped
<1>b. /\ Total = held + IF running THEN Stakes(bets) ELSE Stakes(saved)
      /\ Total' = now + IF running' THEN Stakes(bets') ELSE Stakes(saved')
  BY TotalMeans
<1> HIDE DEF held, now
<1>c. ASSUME UNCHANGED bal PROVE now = held
  BY <1>c DEF now, held
<1>1. CASE UNCHANGED <<bal, running, bets, saved>>
  BY <1>a, <1>b, <1>c, <1>1
<1>2. ASSUME NEW u \in Users, Join(u) PROVE Total' <= Total
  <2>1. CASE running
    BY <1>1, <1>2, <2>1 DEF Join, EnsureRoom
  <2>2. CASE ~running
    <3>1. bets' = NoBets /\ running' /\ UNCHANGED bal
      BY <1>2, <2>2 DEF Join, EnsureRoom, StartRound
    <3> QED BY <1>a, <1>b, <1>c, <2>2, <3>1, NoStakes
  <2> QED BY <2>1, <2>2
<1>3. ASSUME NEW u \in Users, Leave(u) PROVE Total' <= Total
  BY <1>1, <1>3 DEF Leave
<1>4. ASSUME NEW u \in Users, NEW f \in Foods, Bet(u, f) PROVE Total' <= Total
  <2>1. Place(u, f) /\ running /\ running'
        /\ bal' = [bal EXCEPT ![u] = @ - Chip]
    BY <1>4 DEF Bet, MayBet
  <2>2. Stakes(bets') = Stakes(bets) + Chip /\ Chip \in Nat
    BY <1>0, <2>1, PlaceTyped, WheelAssumption
  <2>3. /\ bal'[u] = bal[u] - Chip /\ bal'[u] \in Int
        /\ \A v \in Users \ {u} : bal'[v] = bal[v]
    BY <1>0, <1>a, <2>1, <2>2 DEF WheelTyped
  <2>4. now = held - bal[u] + bal'[u]
    BY <1>a, <2>3, WheelAssumption, SumChanges DEF now, held
  <2>5. now = held - Chip
    BY <1>a, <2>2, <2>3, <2>4
  <2> QED BY <1>a, <1>b, <2>1, <2>2, <2>5
<1>5. ASSUME NEW u \in Users, NEW f \in Foods, AskBet(u, f) PROVE Total' <= Total
  BY <1>5 DEF AskBet
<1>6. CASE EmptyTimer
  <2>1. running /\ ~running' /\ saved' = NoBets /\ UNCHANGED bal
    BY <1>6 DEF EmptyTimer, Discard
  <2> QED BY <1>a, <1>b, <1>c, <2>1, NoStakes
<1>7. CASE CloseRoom
  <2>1. running /\ ~running' /\ UNCHANGED <<saved, bal>>
    BY <1>7 DEF CloseRoom, Discard
  <2> QED BY <1>0, <1>a, <1>b, <1>c, <2>1
<1>8. CASE ResolveBetting
  BY <1>1, <1>8 DEF ResolveBetting
<1>9. CASE ResolveSpin
  <2>1. /\ phase = "spinning" /\ running /\ running'
        /\ bal' = [u \in Users |-> bal[u] + NewSpin.pay[u]]
        /\ bets' = NoBets
    BY <1>9 DEF ResolveSpin, Resolved
  <2>2. PICK p : p = NewSpin.pay
    OBVIOUS
  <2>3. /\ \A u \in Users : p[u] \in Nat /\ p[u] \in Int
        /\ SumFunctionOnSet(p, Users) <= Stakes(bets)
        /\ SumFunctionOnSet(p, Users) \in Nat
    BY <1>0, <2>1, <2>2, NewSpinTyped
  <2>4. now = held + SumFunctionOnSet(p, Users)
    BY <1>0, <2>1, <2>2, <2>3, Paid DEF now, held
  <2> QED BY <1>a, <1>b, <2>1, <2>3, <2>4, NoStakes
<1>10. CASE BeginSpin
  BY <1>10 DEF BeginSpin
<1>11. CASE NextRound
  <2>1. running /\ running' /\ bets' = NoBets /\ UNCHANGED bal
    BY <1>11 DEF NextRound, StartRound
  <2> QED BY <1>a, <1>b, <1>c, <2>1, NoStakes
<1>12. CASE Returns \/ WalletFails
  BY <1>0, <1>12 DEF Returns, WalletFails
<1>13. CASE Restart
  <2> DEFINE p == [u \in Users |-> Stake(saved, u)]
  <2>1. \A u \in Users : p[u] = Stake(saved, u) /\ p[u] \in Int
    BY <1>0, StakesTyped DEF WheelTyped
  <2>2. bal' = [u \in Users |-> bal[u] + p[u]]
    BY <1>13 DEF Restart
  <2>3. SumFunctionOnSet(p, Users) = Stakes(saved)
    BY DEF Stakes
  <2> HIDE DEF p
  <2>4. now = held + Stakes(saved)
    BY <1>0, <2>1, <2>2, <2>3, Paid DEF now, held
  <2>5. ~running' /\ saved' = NoBets
    BY <1>13 DEF Restart, Discard
  <2> QED BY <1>0, <1>a, <1>b, <2>4, <2>5, NoStakes
<1>14. CASE UNCHANGED vars
  BY <1>1, <1>14 DEF vars
<1> QED BY <1>2, <1>3, <1>4, <1>5, <1>6, <1>7, <1>8, <1>9, <1>10, <1>11, <1>12,
           <1>13, <1>14 DEF Next, Tick

\* With balances in users.json, for any number of players, stakes, rounds,
\* teardowns and restarts: no step creates Diamonds.
THEOREM DiamondsNeverMinted == Spec => NoDiamondsFromNothing
<1>1. WheelInv /\ [Next]_vars => [wallet \/ Total' <= Total]_vars
  BY NothingMinted
<1> QED BY <1>1, WheelInvariant, PTL DEF Spec, NoDiamondsFromNothing
=============================================================================
