---------------------------- MODULE WalletLedger ----------------------------
(***************************************************************************)
(* The production wallet (integration_update/module4_wallet_ledger/wallet) *)
(* and the handlers of server.js that call it: gifts, the beans exchange,  *)
(* rewards and admin edits.                                                *)
(*                                                                         *)
(* A wallet call is ONE Postgres transaction, a sequence of statements run *)
(* at READ COMMITTED.  A statement waits for a row another transaction has *)
(* changed or inserted; Postgres breaks a cycle of waits by aborting one   *)
(* of its members.  The connection may fail between two statements, or at  *)
(* the COMMIT, when the caller cannot know whether it took effect.         *)
(*                                                                         *)
(* The Redis lock of applyDelta and transferBetweenUsers is left out: a    *)
(* call that does not get it goes on without it (lock.withLock throws, the *)
(* catch runs doWork again), so it orders nothing.  What the model keeps of*)
(* it is that second run, which a failure INSIDE the lock provokes too.    *)
(***************************************************************************)
EXTENDS Integers, Sequences, FiniteSets, Functions

CONSTANTS
    Accounts,    \* rows of module4_wallet_balances: a user and a currency
    Calls,       \* the calls handlers make on the wallet
    Op,          \* what a call asks for, see OpType
    Opening,     \* the opening balances of the accounts
    Ceiling,     \* clampDiamondBalance / clampBeansBalance
    MaxFails,    \* bound: connections lost, restarts and requests forgotten
    NaN          \* what Number(undefined) leaves in a balance

Change == [acct : Accounts, amt : Int]

\* txn is the idempotency key: a retry of a gift has the key of the first try.
OpType == [kind : {"delta", "transfer", "cross", "batch"}, txn : STRING,
           pay : Change, get : Seq(Change)]

\* Receivers of an operation: amounts received are absolute values.
Receivers(o) ==
    /\ \A i \in DOMAIN o.get : o.get[i].amt >= 0
    /\ o.kind = "delta" => Len(o.get) = 0
    /\ o.kind \in {"transfer", "cross"} => Len(o.get) = 1

ASSUME WalletAssumption ==
    /\ IsFiniteSet(Accounts) /\ Ceiling \in Nat
    /\ \A c \in Calls : /\ Op[c] \in OpType /\ Receivers(Op[c])
                        /\ Op[c].txn \notin Accounts
    /\ \A c, d \in Calls : Op[c].txn = Op[d].txn => Op[c] = Op[d]
    /\ Opening \in [Accounts -> 0..Ceiling]

VARIABLES
    bal,         \* committed balances
    ledger,      \* committed rows of module4_wallet_ledger
    todo,        \* statements a call has still to run before COMMIT
    delta,       \* its uncommitted balance changes
    held,        \* the balance rows it has locked
    ins,         \* its uncommitted ledger rows
    stage,       \* "idle", "open", "answered", "over"
    tries,       \* runs of doWork so far
    ans,         \* what the wallet returned to the handler
    mem,         \* users[..].diamonds and .beans, as the handlers see them
    snap,        \* the snapshot a gift handler takes before it calls
    seen,        \* giftRequestCache
    fails

vars == <<bal, ledger, todo, delta, held, ins, stage, tries, ans, mem, snap,
          seen, fails>>

tx == <<todo, delta, held, ins>>

NoAnswer == [status |-> "none", replay |-> FALSE, after |-> Opening]

\* Part 0 of an operation is the payer's, part i that of its i-th receiver;
\* what the ceiling cuts off a part has a row of its own.
Row(c, part, ch, status) ==
    [txn |-> Op[c].txn, part |-> part, clamp |-> FALSE, acct |-> ch.acct,
     amt |-> ch.amt, status |-> status, after |-> 0]

Key(r) == <<r.txn, r.part, r.clamp>>

-----------------------------------------------------------------------------
(* The statements of the four operations, in the order the code runs them. *)

Claim(part, ch) == [do |-> "claim", part |-> part, ch |-> ch]
Look == [do |-> "look"]
Update(part, ch) == [do |-> "update", part |-> part, ch |-> ch]
Record(parts) == [do |-> "record", parts |-> parts, status |-> "completed"]
RecordRejected(ch) ==
    [Record({<<0, ch>>}) EXCEPT !.status = "rejected"]

\* Receivers are credited one after the other, each with its row.
Credits(get) ==
    [j \in 1..(2 * Len(get)) |->
        LET i == (j + 1) \div 2
        IN IF j % 2 = 1 THEN Update(i, get[i]) ELSE Record({<<i, get[i]>>})]

Program(o) ==
    CASE o.kind = "delta" -> <<Claim(0, o.pay), Update(0, o.pay)>>
      [] o.kind = "transfer" ->
            <<Claim(0, o.pay), Update(0, o.pay),
              Record({<<1, o.get[1]>>}), Update(1, o.get[1])>>
      [] o.kind = "cross" ->
            <<Look, Update(0, o.pay), Update(1, o.get[1]),
              Record({<<0, o.pay>>, <<1, o.get[1]>>})>>
      [] o.kind = "batch" ->
            <<Look, Update(0, o.pay), Record({<<0, o.pay>>})>>
                \o Credits(o.get)

Clamps(o) == o.kind \in {"delta", "transfer"}

-----------------------------------------------------------------------------
(* Postgres: what a transaction sees and whom it waits for.                *)

View(c, a) == bal[a] + delta[c][a]

Stmt(c) == Head(todo[c])

KeysWanted(c) ==
    CASE todo[c] = <<>> -> {}
      [] Stmt(c).do = "claim" -> {<<Op[c].txn, Stmt(c).part, FALSE>>}
      [] Stmt(c).do = "record" -> {<<Op[c].txn, p[1], FALSE>> : p \in Stmt(c).parts}
      [] OTHER -> {}

Blockers(c) ==
    {d \in Calls \ {c} : /\ stage[c] = "open"
                         /\ \/ \E r \in ins[d] : Key(r) \in KeysWanted(c)
                            \/ /\ todo[c] # <<>> /\ Stmt(c).do = "update"
                               /\ Stmt(c).ch.acct \in held[d]}

Runs(c, do) ==
    /\ stage[c] = "open" /\ todo[c] # <<>> /\ Stmt(c).do = do
    /\ Blockers(c) = {}

\* Every member waits for a member and is waited for by one.
Deadlocked(c) ==
    \E S \in SUBSET {d \in Calls : Blockers(d) # {}} :
        /\ c \in S
        /\ \A d \in S : /\ Blockers(d) \cap S # {}
                        /\ \E e \in S : d \in Blockers(e)

Committed(c) == {r \in ledger : r.txn = Op[c].txn}

Clear(c) ==
    /\ delta' = [delta EXCEPT ![c] = [a \in Accounts |-> 0]]
    /\ held' = [held EXCEPT ![c] = {}]
    /\ ins' = [ins EXCEPT ![c] = {}]

Answer(c, a) ==
    /\ ans' = [ans EXCEPT ![c] = a]
    /\ stage' = [stage EXCEPT ![c] = "answered"]
    /\ todo' = [todo EXCEPT ![c] = <<>>]
    /\ tries' = [tries EXCEPT ![c] = 0]

-----------------------------------------------------------------------------
(* The statements.                                                         *)

\* INSERT ... ON CONFLICT DO NOTHING of the pending row: the replay gate.
RunClaim(c) ==
    /\ Runs(c, "claim")
    /\ IF \E r \in ledger : Key(r) \in KeysWanted(c)
       THEN /\ Answer(c, LET r == CHOOSE r \in ledger : Key(r) \in KeysWanted(c)
                         IN [status |-> r.status, replay |-> TRUE,
                             after |-> [Opening EXCEPT ![r.acct] = r.after]])
            /\ Clear(c)
       ELSE /\ ins' = [ins EXCEPT ![c] =
                           @ \cup {Row(c, Stmt(c).part, Stmt(c).ch, "pending")}]
            /\ todo' = [todo EXCEPT ![c] = Tail(@)]
            /\ UNCHANGED <<stage, ans, delta, held, tries>>
    /\ UNCHANGED <<bal, ledger, mem, snap, seen, fails>>

\* SELECT of the rows already recorded under this key.  Their columns are
\* balance_after, not the balanceAfter the handlers read: Number(undefined).
RunLook(c) ==
    /\ Runs(c, "look")
    /\ IF Committed(c) # {}
       THEN /\ Answer(c, [status |-> IF Op[c].kind = "cross"
                                     THEN (CHOOSE r \in Committed(c) :
                                              r.part = 0 /\ ~r.clamp).status
                                     ELSE "undefined",
                          replay |-> TRUE,
                          after |-> [a \in Accounts |-> NaN]])
       ELSE /\ todo' = [todo EXCEPT ![c] = Tail(@)]
            /\ UNCHANGED <<stage, ans, tries>>
    /\ UNCHANGED <<bal, ledger, delta, held, ins, mem, snap, seen, fails>>

\* applyClampIfNeeded: the excess leaves by a row of its own.
Clamped(c, x) == IF Clamps(Op[c]) /\ x > Ceiling THEN Ceiling ELSE x

\* Mutant: the clamp edits the balance and leaves no row.
SilentClamp(c, part, ch, raw) == {}

ClampRows(c, part, ch, raw) ==
    IF Clamped(c, raw) = raw THEN {}
    ELSE {[txn |-> Op[c].txn, part |-> part, clamp |-> TRUE, acct |-> ch.acct,
           amt |-> Clamped(c, raw) - raw, status |-> "completed",
           after |-> Clamped(c, raw)]}

\* UPDATE ... WHERE balance + amount >= 0, guarded for the paying account only.
RunUpdate(c) ==
    /\ Runs(c, "update")
    /\ LET ch == Stmt(c).ch
           part == Stmt(c).part
           raw == View(c, ch.acct) + ch.amt
           new == Clamped(c, raw)
           mine == {r \in ins[c] : r.part = part /\ ~r.clamp}
           settle(r, s) == [r EXCEPT !.status = s,
                                     !.after = IF s = "completed" THEN new ELSE 0]
       IN IF part = 0 /\ raw < 0
          THEN /\ todo' = [todo EXCEPT ![c] = IF mine # {} THEN <<>>
                           ELSE <<RecordRejected(ch)>>]
               /\ ins' = [ins EXCEPT ![c] = {settle(r, "rejected") : r \in mine}]
               /\ ans' = [ans EXCEPT ![c] = [NoAnswer EXCEPT !.status = "rejected"]]
               /\ UNCHANGED <<delta, held>>
          ELSE /\ todo' = [todo EXCEPT ![c] = Tail(@)]
               /\ delta' = [delta EXCEPT ![c][ch.acct] = new - bal[ch.acct]]
               /\ held' = [held EXCEPT ![c] = @ \cup {ch.acct}]
               /\ ins' = [ins EXCEPT ![c] =
                     (@ \ mine) \cup {settle(r, "completed") : r \in mine}
                       \cup ClampRows(c, part, ch, raw)]
               /\ ans' = [ans EXCEPT ![c] =
                     [status |-> "completed", replay |-> FALSE,
                      after |-> [ans[c].after EXCEPT ![ch.acct] = new]]]
    /\ UNCHANGED <<bal, ledger, stage, tries, mem, snap, seen, fails>>

\* Mutant: the error is swallowed and the answer computed so far returned.
SwallowError(c) == Clear(c) /\ Answer(c, ans[c])

\* Mutant: the error is thrown without a ROLLBACK.
ThrowWithoutRollback(c) ==
    /\ Answer(c, [NoAnswer EXCEPT !.status = "error"])
    /\ UNCHANGED <<delta, held, ins>>

Rollback(c) ==
    /\ Clear(c)
    /\ IF tries[c] = 1 /\ Clamps(Op[c])
       THEN \* the catch around withLock: doWork once more, same key
            /\ tries' = [tries EXCEPT ![c] = 2]
            /\ todo' = [todo EXCEPT ![c] = Program(Op[c])]
            /\ ans' = [ans EXCEPT ![c] = NoAnswer]
            /\ UNCHANGED stage
       ELSE Answer(c, [NoAnswer EXCEPT !.status = "error"])

\* Plain INSERT of the rows; one that is there already fails the statement.
RunRecord(c) ==
    /\ Runs(c, "record")
    /\ LET row(p) == [Row(c, p[1], p[2], Stmt(c).status) EXCEPT !.after =
                         IF Stmt(c).status = "completed"
                         THEN View(c, p[2].acct) ELSE 0]
           new == {row(p) : p \in Stmt(c).parts}
       IN IF \E r \in ledger, n \in new : Key(r) = Key(n)
          THEN Rollback(c)
          ELSE /\ ins' = [ins EXCEPT ![c] = @ \cup new]
               /\ todo' = [todo EXCEPT ![c] = Tail(@)]
               /\ UNCHANGED <<delta, held, stage, tries, ans>>
    /\ UNCHANGED <<bal, ledger, mem, snap, seen, fails>>

Persist(c) ==
    /\ ledger' = ledger \cup ins[c]
    /\ bal' = [a \in Accounts |-> bal[a] + delta[c][a]]

Commit(c) ==
    /\ stage[c] = "open" /\ todo[c] = <<>>
    /\ Persist(c) /\ Clear(c)
    /\ Answer(c, ans[c])
    /\ UNCHANGED <<mem, snap, seen, fails>>

\* Mutant: the statements run on the pool, each its own transaction.
LoseAutocommitted(c) ==
    /\ stage[c] = "open" /\ fails < MaxFails
    /\ fails' = fails + 1
    /\ Rollback(c) /\ Persist(c)
    /\ UNCHANGED <<mem, snap, seen>>

\* The connection is lost: between statements, or with the COMMIT sent, when
\* it may have taken effect.
Lose(c) ==
    /\ stage[c] = "open" /\ fails < MaxFails
    /\ fails' = fails + 1
    /\ Rollback(c)
    /\ \/ UNCHANGED <<bal, ledger>>
       \/ todo[c] = <<>> /\ Persist(c)
    /\ UNCHANGED <<mem, snap, seen>>

BreakDeadlock(c) ==
    /\ Deadlocked(c)
    /\ Rollback(c)
    /\ UNCHANGED <<bal, ledger, mem, snap, seen, fails>>

-----------------------------------------------------------------------------
(* The handlers.                                                           *)

Known(x) == IF x = NaN THEN 0 ELSE x

IsGift(c) == Op[c].kind = "cross"

\* A gift's request id is noted before anything else is looked at; gifts and
\* exchanges check the balance in memory, and only then call the wallet.
Request(c) ==
    /\ stage[c] = "idle"
    /\ IsGift(c) => Op[c].txn \notin seen
    /\ seen' = IF IsGift(c) THEN seen \cup {Op[c].txn} ELSE seen
    /\ IF Op[c].kind # "delta" /\ Known(mem[Op[c].pay.acct]) + Op[c].pay.amt < 0
       THEN /\ stage' = [stage EXCEPT ![c] = "over"]
            /\ UNCHANGED <<todo, tries, snap>>
       ELSE /\ stage' = [stage EXCEPT ![c] = "open"]
            /\ todo' = [todo EXCEPT ![c] = Program(Op[c])]
            /\ tries' = [tries EXCEPT ![c] = 1]
            /\ snap' = IF IsGift(c) THEN [snap EXCEPT ![c] = mem] ELSE snap
    /\ UNCHANGED <<bal, ledger, delta, held, ins, ans, mem, fails>>

Touched(c) == {Op[c].pay.acct} \cup {Op[c].get[i].acct : i \in DOMAIN Op[c].get}

\* The await returns: a completed answer is copied to memory; a gift that did
\* not complete restores its snapshot.
Finish(c) ==
    /\ stage[c] = "answered"
    /\ stage' = [stage EXCEPT ![c] = "over"]
    /\ mem' = [a \in Accounts |->
                 CASE a \notin Touched(c) -> mem[a]
                   [] ans[c].status = "completed" -> ans[c].after[a]
                   [] OTHER -> IF IsGift(c) THEN snap[c][a] ELSE mem[a]]
    /\ ans' = [ans EXCEPT ![c] = NoAnswer]
    /\ snap' = [snap EXCEPT ![c] = Opening]
    /\ UNCHANGED <<bal, ledger, tx, tries, seen, fails>>

\* Entries of giftRequestCache expire; another instance never had them.
ForgetRequest(t) ==
    /\ t \in seen /\ fails < MaxFails
    /\ fails' = fails + 1
    /\ seen' = seen \ {t}
    /\ UNCHANGED <<bal, ledger, tx, stage, tries, ans, mem, snap>>

\* The process dies and starts again: open transactions are rolled back and
\* hydrateUsers reads every balance from Postgres.
Restart ==
    /\ fails < MaxFails
    /\ fails' = fails + 1
    /\ stage' = [c \in Calls |-> IF stage[c] = "idle" THEN "idle" ELSE "over"]
    /\ delta' = [c \in Calls |-> [a \in Accounts |-> 0]]
    /\ held' = [c \in Calls |-> {}]
    /\ ins' = [c \in Calls |-> {}]
    /\ todo' = [c \in Calls |-> <<>>]
    /\ tries' = [c \in Calls |-> 0]
    /\ ans' = [c \in Calls |-> NoAnswer]
    /\ snap' = [c \in Calls |-> Opening]
    /\ mem' = bal
    /\ seen' = {}
    /\ UNCHANGED <<bal, ledger>>

-----------------------------------------------------------------------------
Init ==
    /\ bal = Opening /\ mem = Opening
    /\ ledger = {[txn |-> a, part |-> 0, clamp |-> FALSE, acct |-> a,
                  amt |-> Opening[a], status |-> "completed",
                  after |-> Opening[a]] : a \in Accounts}
    /\ todo = [c \in Calls |-> <<>>]
    /\ delta = [c \in Calls |-> [a \in Accounts |-> 0]]
    /\ held = [c \in Calls |-> {}]
    /\ ins = [c \in Calls |-> {}]
    /\ stage = [c \in Calls |-> "idle"]
    /\ tries = [c \in Calls |-> 0]
    /\ ans = [c \in Calls |-> NoAnswer]
    /\ snap = [c \in Calls |-> Opening]
    /\ seen = {} /\ fails = 0

Works(c) ==
    \/ RunClaim(c) \/ RunLook(c) \/ RunUpdate(c) \/ RunRecord(c)
    \/ Commit(c) \/ BreakDeadlock(c) \/ Finish(c)

Next ==
    \/ \E c \in Calls : Request(c) \/ Works(c) \/ Lose(c)
    \/ \E c \in Calls : ForgetRequest(Op[c].txn)
    \/ Restart

\* Postgres runs every statement it can and looks for deadlocks; the event
\* loop runs every continuation.  Calls are bounded, so nobody can starve.
Fairness == WF_vars(\E c \in Calls : Works(c))

Spec == Init /\ [][Next]_vars /\ Fairness

-----------------------------------------------------------------------------
(* Properties.                                                             *)

\* reconcileBalance() never finds a drift, and no balance is negative: what
\* the accounts hold is the sum of the completed rows (clamps included).
LedgerIsBalance ==
    \A a \in Accounts :
        /\ bal[a] = SumFunctionOnSet([r \in ledger |-> r.amt],
                       {r \in ledger : r.acct = a /\ r.status = "completed"})
        /\ bal[a] >= 0

Effects(o) ==
    {<<0, o.pay.acct, o.pay.amt>>}
        \cup {<<i, o.get[i].acct, o.get[i].amt>> : i \in DOMAIN o.get}

\* A transaction key is applied as a whole and once, or not at all: whatever
\* retries, races of the same key, aborts and lost commits happened.
WholeOrNothing ==
    \A c \in Calls :
        LET done == {r \in ledger : /\ r.txn = Op[c].txn /\ r.status = "completed"
                                    /\ ~r.clamp}
        IN \/ done = {}
           \/ /\ {<<r.part, r.acct, r.amt>> : r \in done} = Effects(Op[c])
              /\ Cardinality(done) = Cardinality(Effects(Op[c]))

\* What the wallet tells a handler is what the ledger says: completed if the
\* rows are there, rejected only if nothing of the key was applied.
AnswersAreTrue ==
    \A c \in Calls : stage[c] = "answered" =>
        LET done == \E r \in ledger : r.txn = Op[c].txn /\ r.status = "completed"
        IN /\ ans[c].status = "completed" => done
           /\ ans[c].status = "rejected" => ~done

\* Every call that reaches the wallet is answered and its handler ends: waits
\* for rows, in whatever order the operations take them, do not last.
EveryCallEnds == <>[](\A c \in Calls : stage[c] \in {"idle", "over"})
=============================================================================
