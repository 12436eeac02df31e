--------------------------- MODULE MCWalletLedger ---------------------------
(* A gift and its retry, an exchange, a transfer the ceiling may clamp and an *)
(* admin's debit, each locking its accounts in an order of its own.          *)
EXTENDS WalletLedger

CONSTANTS aD, aB, bD, bB

Ch(a, n) == [acct |-> a, amt |-> n]

MCOp == [
    giftAB  |-> [kind |-> "cross", txn |-> "g1", pay |-> Ch(aD, -1), get |-> <<Ch(bB, 1)>>],
    retryAB |-> [kind |-> "cross", txn |-> "g1", pay |-> Ch(aD, -1), get |-> <<Ch(bB, 1)>>],
    swapB   |-> [kind |-> "batch", txn |-> "x2", pay |-> Ch(bB, -1), get |-> <<Ch(bD, 2)>>],
    move    |-> [kind |-> "transfer", txn |-> "m1", pay |-> Ch(bD, -1), get |-> <<Ch(aD, 1)>>],
    edit    |-> [kind |-> "delta", txn |-> "e1", pay |-> Ch(aD, -1), get |-> <<>>]]

MCOpening == [a \in Accounts |-> 1]
=============================================================================
