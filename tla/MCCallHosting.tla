--------------------------- MODULE MCCallHosting ---------------------------
(***************************************************************************)
(* A small instance of CallHosting for TLC: two users, either of them      *)
(* caller or host, one of whom has two connections (an old tab and a new   *)
(* one), one paid call and three settings of the rates.                    *)
(***************************************************************************)
EXTENDS CallHosting, TLC

CONSTANTS a, b, a1, a2, b1, c1

TwoUsers == {a, b}
Tabs == {a1, a2, b1}
TabOwner == [s \in Tabs |-> IF s = b1 THEN b ELSE a]

Standard == [enabled |-> TRUE, perMinute |-> 1, minBalance |-> 0,
             maxHalf |-> 4, maxDaily |-> None]
Closed == [enabled |-> FALSE, perMinute |-> 1, minBalance |-> 0,
           maxHalf |-> 2, maxDaily |-> None]
Dear == [enabled |-> TRUE, perMinute |-> 2, minBalance |-> 1,
         maxHalf |-> 2, maxDaily |-> 1]

StandardRate == {Standard}
AllRates == {Standard, Closed, Dear}
=============================================================================
