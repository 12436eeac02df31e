----------------------------- MODULE FruitWheel -----------------------------
(***************************************************************************)
(* The Fruit Wheel engine of one room (server.js, fwStartRound .. and the  *)
(* fruitwheel-* events).  A 500 ms interval moves the engine through       *)
(* betting, spinning and result; a bet and a payout change the user's      *)
(* diamonds at once when balances live in users.json (wallet = FALSE), or  *)
(* after an await on the production wallet (wallet = TRUE).                *)
(*                                                                         *)
(* The interval does not wait for fwResolveSpin, so with the wallet two    *)
(* resolutions of a round may be under way.  An engine that was torn down  *)
(* lives on in the closures that captured it; "gen" tells engines apart.   *)
(* fruit_wheel_rounds.json holds the stakes of the running round and is    *)
(* paid back at boot.  Phase lengths are left out: the clock may have      *)
(* passed phaseEndsAt, or the 30 s of an empty room, at any moment; a user *)
(* may be in the room at any moment (RoomPresence models who is).          *)
(***************************************************************************)
EXTENDS Integers, FiniteSets, FiniteSetsExt, Functions

CONSTANTS
    Users, Foods,
    Mult,          \* FRUIT_WHEEL_FOODS: food -> multiplier
    Chip,          \* an amount of FRUIT_WHEEL_CHIPS
    FeeBps,        \* FW_PLATFORM_FEE_BPS
    Funds,         \* diamonds a user starts with
    Modes,         \* values of productionWallet.enabled() to explore
    MaxSpins,      \* bound: resolutions under way together
    MaxGen,        \* bound: engines started
    MaxFails,      \* bound: failed wallet calls
    MaxBets        \* bound: bets made

ASSUME WheelAssumption ==
    /\ IsFiniteSet(Users) /\ IsFiniteSet(Foods)
    /\ Mult \in [Foods -> Nat]
    /\ Chip \in Nat /\ Funds \in Nat
    /\ FeeBps \in 0..10000
    /\ Modes \subseteq BOOLEAN

VARIABLES
    wallet,        \* productionWallet.enabled()
    bal,           \* users[..].diamonds
    running,       \* fruitWheelRooms[roomId] exists
    gen,           \* which engine that is
    phase, result, \* g.phase, g.resultFoodId
    bets,          \* g.bets: user -> food -> amount
    viewers,       \* g.viewers
    emptying,      \* g.emptyTimer is set
    asked,         \* bets waiting for the wallet's debit
    spins,         \* resolutions waiting for the wallet's credit
    saved,         \* fruit_wheel_rounds.json
    fails, placed

vars == <<wallet, bal, running, gen, phase, result, bets, viewers,
          emptying, asked, spins, saved, fails, placed>>

NoBets == [u \in Users |-> [f \in Foods |-> 0]]
NoFood == "none"

Stake(b, u) == SumFunctionOnSet(b[u], Foods)
Stakes(b) == SumFunctionOnSet([u \in Users |-> Stake(b, u)], Users)

-----------------------------------------------------------------------------
(* Settlement: nominal wins, scaled down to what the stakes fund.          *)

Gross(b, f, u) == b[u][f] * Mult[f]
GrossTotal(b, f) == SumFunctionOnSet([u \in Users |-> Gross(b, f, u)], Users)
FundedPool(b) == (Stakes(b) * (10000 - FeeBps)) \div 10000

\* Mutant: the nominal win is paid, whatever the stakes fund.
NominalPayout(b, f, u) == Gross(b, f, u)

\* floor(gross * min(1, pool / gross total)), exactly: the code multiplies by a
\* floating-point quotient, which may lose one Diamond more of a win.
Payout(b, f, u) ==
    IF GrossTotal(b, f) <= FundedPool(b) THEN Gross(b, f, u)
    ELSE (Gross(b, f, u) * FundedPool(b)) \div GrossTotal(b, f)

-----------------------------------------------------------------------------
(* The engine.  Every change of the bets is written to the snapshot.       *)

Persist(live) == saved' = IF live THEN bets' ELSE NoBets

\* Mutant: a new engine does not write its empty round.
StartUnsaved ==
    /\ phase' = "betting" /\ bets' = NoBets /\ result' = NoFood
    /\ UNCHANGED saved

StartRound ==
    /\ phase' = "betting" /\ bets' = NoBets /\ result' = NoFood
    /\ Persist(TRUE)

EnsureRoom ==
    IF running
    THEN UNCHANGED <<running, gen, phase, bets, result, saved>>
    ELSE /\ running' = TRUE /\ gen' = gen + 1
         /\ StartRound

Join(u) ==
    /\ ~running => gen < MaxGen
    /\ EnsureRoom
    /\ emptying' = FALSE
    /\ viewers' = IF running THEN viewers \cup {u} ELSE {u}
    /\ UNCHANGED <<wallet, bal, asked, spins, fails, placed>>

\* fruitwheel-leave, or any socket of the user closing: the user may go on
\* playing in another tab, still in the room.
Leave(u) ==
    /\ running
    /\ viewers' = viewers \ {u}
    /\ emptying' = (emptying \/ viewers' = {})
    /\ UNCHANGED <<wallet, bal, running, gen, phase, result, bets, asked,
                   spins, saved, fails, placed>>

\* delete fruitWheelRooms[roomId]
Discard ==
    /\ running' = FALSE /\ emptying' = FALSE
    /\ phase' = "betting" /\ result' = NoFood /\ bets' = NoBets

EmptyTimer ==
    /\ running /\ emptying /\ viewers = {}
    /\ Discard
    /\ saved' = NoBets
    /\ UNCHANGED <<wallet, bal, gen, viewers, asked, spins, fails, placed>>

\* close-room and the admin's room deletion: fwTeardownRoom writes nothing.
CloseRoom ==
    /\ running
    /\ Discard
    /\ viewers' = {}
    /\ UNCHANGED <<wallet, bal, gen, asked, spins, saved, fails, placed>>

-----------------------------------------------------------------------------
(* Bets.                                                                   *)

Place(u, f) ==
    /\ bets' = [bets EXCEPT ![u][f] = @ + Chip]
    /\ Persist(TRUE)

MayBet(u) ==
    /\ running /\ phase = "betting" /\ bal[u] >= Chip
    /\ placed < MaxBets /\ placed' = placed + 1

Bet(u, f) ==
    /\ MayBet(u) /\ ~wallet
    /\ bal' = [bal EXCEPT ![u] = @ - Chip]
    /\ Place(u, f)
    /\ UNCHANGED <<wallet, running, gen, phase, result, viewers,
                   emptying, asked, spins, fails>>

AskBet(u, f) ==
    /\ MayBet(u) /\ wallet
    /\ ~\E a \in asked : a.user = u
    /\ asked' = asked \cup {[user |-> u, food |-> f, gen |-> gen]}
    /\ UNCHANGED <<wallet, bal, running, gen, phase, result, bets,
                   viewers, emptying, spins, saved, fails>>

\* The debit is done: the bet goes to the engine captured when it was asked,
\* in whatever phase and round that engine is by now; or it is rejected.
BetReturns(a) ==
    /\ asked' = asked \ {a}
    /\ IF bal[a.user] < Chip
       THEN UNCHANGED <<bal, bets, saved>>
       ELSE /\ bal' = [bal EXCEPT ![a.user] = @ - Chip]
            /\ IF a.gen = gen /\ running THEN Place(a.user, a.food)
               ELSE UNCHANGED bets /\ Persist(running)
    /\ UNCHANGED <<wallet, running, gen, phase, result, viewers,
                   emptying, spins, fails, placed>>

-----------------------------------------------------------------------------
(* The interval.                                                           *)

ResolveBetting ==
    /\ running /\ phase = "betting"
    /\ phase' = "spinning"
    /\ result' \in Foods
    /\ UNCHANGED <<wallet, bal, running, gen, bets, viewers, emptying,
                   asked, spins, saved, fails, placed>>

NewSpin ==
    [gen |-> gen, pay |-> [u \in Users |-> Payout(bets, result, u)],
     todo |-> {u \in Users : Payout(bets, result, u) > 0}]

\* Mutant: the engine is left in "spinning".
ResolvedStuck(g) == UNCHANGED <<phase, bets, saved>>

\* The last lines of fwResolveSpin, on the engine it captured.
Resolved(g) ==
    IF g = gen /\ running
    THEN phase' = "result" /\ bets' = NoBets /\ Persist(TRUE)
    ELSE UNCHANGED <<phase, bets>> /\ Persist(running)

\* Without an await the whole resolution is one step.
ResolveSpin ==
    /\ running /\ phase = "spinning"
    /\ ~wallet \/ NewSpin.todo = {}
    /\ bal' = [u \in Users |-> bal[u] + NewSpin.pay[u]]
    /\ Resolved(gen)
    /\ UNCHANGED <<wallet, running, gen, result, viewers, emptying,
                   asked, spins, fails, placed>>

\* The phase stays "spinning" while the credits are awaited: the next tick
\* resolves the round again, under new transaction keys.
BeginSpin ==
    /\ running /\ phase = "spinning" /\ wallet /\ NewSpin.todo # {}
    /\ Cardinality(spins) < MaxSpins
    /\ spins' = spins \cup
          {[id |-> Min((1..MaxSpins) \ {s.id : s \in spins}), spin |-> NewSpin]}
    /\ UNCHANGED <<wallet, bal, running, gen, phase, result, bets,
                   viewers, emptying, asked, saved, fails, placed>>

PayNext(s, u) ==
    /\ u \in s.spin.todo
    /\ bal' = [bal EXCEPT ![u] = @ + s.spin.pay[u]]
    /\ spins' = (spins \ {s}) \cup {[s EXCEPT !.spin.todo = @ \ {u}]}
    /\ UNCHANGED <<wallet, running, gen, phase, result, bets, viewers,
                   emptying, asked, saved, fails, placed>>

EndSpin(s) ==
    /\ s.spin.todo = {}
    /\ spins' = spins \ {s}
    /\ Resolved(s.spin.gen)
    /\ UNCHANGED <<wallet, bal, running, gen, result, viewers,
                   emptying, asked, fails, placed>>

\* A wallet call fails: the rejection is logged, the resolution or bet ends.
WalletFails ==
    /\ fails < MaxFails /\ fails' = fails + 1
    /\ \/ \E s \in spins : spins' = spins \ {s} /\ UNCHANGED asked
       \/ \E a \in asked : asked' = asked \ {a} /\ UNCHANGED spins
    /\ UNCHANGED <<wallet, bal, running, gen, phase, result, bets,
                   viewers, emptying, saved, placed>>

NextRound ==
    /\ running /\ phase = "result"
    /\ StartRound
    /\ UNCHANGED <<wallet, bal, running, gen, viewers, emptying, asked,
                   spins, fails, placed>>

Tick == ResolveBetting \/ ResolveSpin \/ BeginSpin \/ NextRound

\* The process stops, its files written, and starts again: the stakes of the
\* snapshot go back to their owners (fwRecoverRoundsOnBoot).
Restart ==
    /\ bal' = [u \in Users |-> bal[u] + Stake(saved, u)]
    /\ saved' = NoBets
    /\ Discard
    /\ viewers' = {}
    /\ asked' = {} /\ spins' = {}
    /\ UNCHANGED <<wallet, gen, fails, placed>>

-----------------------------------------------------------------------------
Init ==
    /\ wallet \in Modes
    /\ bal = [u \in Users |-> Funds]
    /\ viewers = {}
    /\ running = FALSE /\ emptying = FALSE /\ gen = 0
    /\ phase = "betting" /\ result = NoFood
    /\ bets = NoBets /\ saved = NoBets
    /\ asked = {} /\ spins = {} /\ fails = 0 /\ placed = 0

Returns ==
    \/ \E a \in asked : BetReturns(a)
    \/ \E s \in spins : EndSpin(s) \/ \E u \in Users : PayNext(s, u)

Next ==
    \/ \E u \in Users : Join(u) \/ Leave(u)
    \/ \E u \in Users, f \in Foods : Bet(u, f) \/ AskBet(u, f)
    \/ EmptyTimer \/ CloseRoom \/ Tick \/ Returns \/ WalletFails \/ Restart

\* The interval ticks while the engine exists; what is awaited returns.
Spec == Init /\ [][Next]_vars /\ WF_vars(Tick) /\ WF_vars(Returns)

-----------------------------------------------------------------------------
(* Properties.                                                             *)

\* What players hold or have at stake; once the engine is gone, what a
\* restart would still pay back.
Total == SumFunctionOnSet(bal, Users) + Stakes(IF running THEN bets ELSE saved)

\* "Cancel-and-refund, never a coin-mint", and the pool funds the wins: with
\* balances in users.json no step, payout, teardown or restart creates diamonds.
NoDiamondsFromNothing == [][wallet \/ Total' <= Total]_vars

\* A restart at any moment pays back exactly the stakes of the running round.
SnapshotIsCurrent == running => saved = bets

\* A stake does not stay on the table for ever: its round is drawn, or the
\* engine goes.
EveryStakeIsDrawn ==
    \A u \in Users : (running /\ Stake(bets, u) > 0) ~> (Stake(bets, u) = 0 \/ ~running)
=============================================================================
