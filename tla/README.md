# PingPong: specification of the call, money and persistence core

TLA+ specifications of the PingPong voice-room server (`src/server.js` and the
modules it wires together), model-checked with TLC on small instances and, for
every safety property of every run, proved with TLAPS for all values of the
constants.  Every definition is read from the source; `PROJECT.json` maps each
one to the lines it stands for.

## 1. The system

One Node.js process (`server.js`) serves REST and socket.io.  All state lives in
memory, in plain objects that JSON files mirror through a debounced write queue
(`perf/writeQueue.js`); Redis (mirrors, pub/sub, RPC between instances) and
Postgres (a mirror of the files) are optional.  JavaScript runs one handler or
timer callback at a time to completion, so the unit of atomicity is a handler, or the stretch
between two `await`s; between two of them anything else may run.

| Component | State it keeps | Operations | What makes it hard |
| --- | --- | --- | --- |
| Call signaling (`callSignaling.js`) | `activeCalls`, `userCallState`, ring timer and grace per call | invite, accept, reject, cancel, end, relays, disconnect, resume | several tabs per user, drops and reconnects of both parties, timers racing answers |
| Call hosting (`callHosting.js`) | the same plus billing interval, rates, hosts, company ledger, history | invite, accept, reject, end, bill, grace, host status, rates | money per connected minute across drops, resumes and admin actions |
| Random calls (`randomCall.js`) | search sessions, attempted hosts | start, cancel, retry hooks, disconnect | hooks run inside other handlers; a cancel races an answer |
| Recharge (`wallet/rechargeService.js`) | transactions, ledger, wallets | create, submit UTR, cancel, approve, reject | three files written separately, crashes, duplicate UTRs |
| Payout (`payoutWithdrawal.js`) | KYC, conversions, balances, withdrawals | convert, request, cancel, approve, process, pay, fail, reject, retry | reserved money across a long protocol, settings that change meanwhile |
| Write queue (`perf/writeQueue.js`, `perf/dbPersistence.js`) | pending writes, timers, files, `.bak` files | queue, write, flush, recover | crash between two writes, late retries of the mirror |
| Rooms and presence (`server.js`) | rooms, seats, joined users, pending disconnects | join, leave, seats, moderation, disconnect grace | fast reconnects, several tabs, stale timers |
| Room RPC (`redis/roomJoinRpc.js`, `redis/roomOpRpc.js`) | pending requests with a deadline | join/seat/message on the instance that owns the room | a late answer to a request that timed out |
| Fruit wheel (`server.js`, `fruitWheelConfig.js`) | rounds, bets, history, phase timers | tick, bet, resolve, boot recovery, teardown | bets racing the phase change, crash between payout and persist |
| Authentication (`security/*`) | OTPs, lockouts, sessions, tokens | issue, verify, lock, expire | expiry and attempts at their limit, a late answer of the SMS provider |
| Wallet authority (`production/walletAuthority.js`, `module4_wallet_ledger`) | balance rows, ledger rows, a copy in memory | credit, debit, transfer, exchange, batch | lost connections, retries, deadlocks of the database, answers out of order |
| Gifts, chest, exchange | wallets, counters | send, open, exchange | several balances in one handler |
| Approvals (`approvalEngine.js` and its domains), sellers, bans, VIP | request records, registries, wallets | submit, review, approve, reject, reopen; renew, suspend, sell, appeal | double approval, several requests for one user, the owner's override |
| Agencies and salaries (`agencyHost.js`, `agencyCommission.js`, `hostSalary.js`) | members, gifts, weeks, payouts, cycle resets | invite, apply, assign, remove, preview, pay, grant | four files per payment and a crash between them, overlapping periods, hosts who move |
| SVIP, vehicles, CP, clubs, rankings | records, totals | request, answer, settle | little: one synchronous handler each |
| Redis mirrors (`redis/*`) | presence, user, room, voice state | mirror, read | stale reads |
| Voice transport (`voice_sfu/*`, TURN, Agora) | transports, producers | negotiate | third-party protocol, not modelled |
| AI, SMS, monitoring, admin and mobile clients | none that other parts rely on | | not modelled |

Interactions.  `server.js` injects itself into the modules (`findUserByUserId`,
`socketsByUserId`, `clampDiamondBalance`, `saveUsers`); its `identify`,
`join-room` and `disconnect` handlers call `resumeCall` / `handleDisconnect` of
the call modules, in a fixed order (signaling, hosting, random calls); random
calls invite through `callHosting.attemptInvite` and are told of the end of a
call through hooks that run inside the handler that ended it; every module that
moves money changes `user.diamonds`/`user.beans` in memory and queues `users.json`.

The hard behaviours, and for each component what makes it correct, are listed
with their lines as `hazards` in `PROJECT.json`.  In short: a call frees both
users, is logged once (unless its caller drops while it rings) and never charges more than the connected minutes; a search never
hangs; money is credited once, conserved and paid to a verified account; a wallet
transaction happens whole or not at all and is answered truthfully; an approval
takes effect once unless the owner overrides; a gift is paid for once; a grace timer evicts nobody
who came back; a code signs in once and a login outlives a crash; a file loses a bounded amount of work
and never goes back to an older state.

## 2. Modules

`MCM` gives TLC a small instance of `M`; the last column names the module with the theorems about `M`.

| Module | Source | Extends | Theorems |
| --- | --- | --- | --- |
| `CallHosting` | `callHosting.js`, disconnect handler | | `PaidCalls_proofs` |
| `RandomCall` | `randomCall.js` | `CallHosting` (composition through the hooks) | `PaidCalls_proofs` |
| `CallSignaling` | `callSignaling.js` | | `CallSignaling_proofs` |
| `RechargeOrder` | the promise of `wallet/rechargeService.js` (abstract) | | |
| `Recharge` | `wallet/rechargeService.js` with its files | implements `RechargeOrder` (`ImplementsOrder`) | `Diamonds_proofs` |
| `PayoutWithdrawal` | `payoutWithdrawal.js` | | `Wallet_proofs` |
| `WriteQueue` | `perf/writeQueue.js`, `safeRead` of `server.js` | | `WriteQueue_proofs` |
| `Login` | `security/otpService.js`, `bruteForce.js`, `userAuth.js`, the login routes of `server.js` | | `Sessions_proofs` |
| `AgencySalary` | `agencyHost.js`, `agencyCommission.js`, `hostSalary.js`, `agencyApproval.js` and `server.js` for new agencies and rooms | | `Administration_proofs` |
| `Approval` | `approvalEngine.js`, `agencyApproval.js` and the domains they serve | | `Administration_proofs` |
| `RoomPresence` | rooms, seats and presence in `server.js`, `room-recovery.js` | | `Sessions_proofs` |
| `WalletLedger` | `module4_wallet_ledger/wallet/index.js`, `production/walletAuthority.js`, their callers in `server.js` | | `Wallet_proofs` |
| `FruitWheel` | the wheel engine of `server.js`, `fruitWheelConfig.js` | | `Diamonds_proofs` |

`Sums` has the lemmas about sums over finite sets that the money modules share; the theorem modules about money extend it.

### CallHosting

One action per socket event or timer callback of `callHosting.js`; `call` is
`activeCalls`, `busy` is `userCallState`, `history` the file of finished calls,
`primary` the map `socketsByUserId` of `server.js` (which may name a dead
socket: the room grace timer clears it later).  `Elapse` advances the connected time by half a
minute, so that the difference between an interval that went on and one
that was armed afresh is visible.  `BillTick` is `billOneMinute` with the
endings it may cause; `EndCall` is shared by all endings as `endCall` is in the
code.  The admin's actions (approve, revoke, rates), the purchases that change a
wallet and the deletion of an account are steps of their own, because the code
reads those tables afresh at each minute.

### RandomCall

`RandomCall` extends `CallHosting` and adds the sessions.  The code calls
`onEnded` synchronously inside `endCall`; here the step that ends a call leaves
the session in `hookDue`, every other action waits for `Idle`, and `RunHook` is the
hook.  `leaveDue` does the same for the third part of the disconnect handler.
This keeps the actions of `CallHosting` as they are and loses no interleaving,
since nothing runs between the end of a call and its hook.  That every random call
is rung by `attemptInvite` holds by the shape of the model (`RingNext` is an `Invite`) and is used by the
proofs: each step is one of `CallHosting` or leaves its variables alone.

### CallSignaling

The devices of a user are the sockets of `callSocketsByUserId`.  An invite rings all
of them, the first to accept becomes `calleeSocket`.  The relays are
modelled as far as the server's behaviour depends on them: whether the offer and the
answer were passed on, and how many candidates are buffered.  `alerted` records which devices
still show the incoming call, as their screens would.  `dropped` marks the calls that ended because their caller's
connection closed while they rang: `Release` frees both parties and stops the ringing, and nothing is logged.

### Recharge and RechargeOrder

`Recharge` keeps what is in memory and what is on disk apart.  An approval is
three steps, each an immediate write, in the order of the code: `Approve` writes the request as `PAID`
(`persistTransactions`), `Credit` the wallet (`saveUsers`), `Enter` the ledger (`persistLedger`).  The process may
`Crash` between any two of them, which also reads the files back.
`RechargeOrder` knows only open, credited and closed orders; the refinement
maps a request to the state its users can rely on.

### PayoutWithdrawal

Beans, cents and reservations in memory, with KYC records and withdrawals that carry a
snapshot of the bank account.  `Settings` are the policies an admin may
switch between while requests wait.

### WriteQueue

For each file: the version in memory, the pending entry with its age since the first
save and what its timer has left, and the content of the file and of `.bak`, which is a
version, missing, or something that does not parse.  `unsaved`, `failed` and `floor` record
how long a change has waited, whether the last write failed, and the generation before the last
write; the properties use them and no guard does.  Time is a counter of ticks; a tick is long compared with the lateness
of the event loop and with Node's shortest timeout, so a timer that is due fires before
the next tick.  A crash may cut `WriteNow` at any of its steps; a power loss
may leave a file unreadable while the server is down.

### Login

Three files with writes of two kinds: `otpStore.json`, `users.json` and `tokens.json` are each saved
at once by some handlers and after a delay by others (`SaveOtp` and `SaveOtpLater`, and so on), and a crash reads back
what had been written.  The SMS is awaited between `SendOtp` and `SmsAccepted` / `SmsFailed`; a sign-in is
`AcceptCode` (or a password, or Firebase), then `IssueToken`.  `production` is whether the production wallet is enabled: if
it is, its session is awaited between the token and the `Answer` (or `SessionFails`); if not, `IssueToken` answers.  `latest`, `used`, `wrong`, `sent` and `login` are history: the newest code of a number, how often a code has
signed in or was guessed wrong, and what the client of a login was told.  `age` and `TokenAges` stand for the clock.

### AgencySalary

Every handler is synchronous, so only a crash can come between its writes: `done` is the number of
files a payment had written, and a payment with `done < Writes` is followed at once by what startup makes of it
(`Reconcile`).  `Founds` is what creating an agency and approving a request for one have in common: a new owner, an empty list, and
his `agencyId`.  Only the first asks whether he is in an agency already (`CreateAgency`, `ApproveFounding`), so an account may own several agencies, or own
one and be a listed host of another.  `isHost` is set by joining an agency and by opening a room (`CreateRoom`).  Gifts keep the agency the owner of the room was in; cycle resets are the markers before which gifts
count no more.  Weeks (`Windows`) and periods (`Bounds`) are whatever an admin asks for and overlap.

### Approval

The requests of all domains share one state machine; the agency domain has its own copy of it in the code, with one guard less,
and its own actions here.  The effect of an approval is the domain's: a credit, a debit, a registry entry.
`rows` are the registries of memberships, sellers and bans with their own life after the approval.  `forced`,
`clamped` and `diverged` record what the properties must except: an owner's override, Diamonds cut off by the ceiling,
and a registry the owner or the older ban endpoint has set apart from the user's flags.

### RoomPresence

Sockets that open, identify (at once, or after an awaited look-up of the token), join, sit, drop and are replaced by
newer ones, several of one user at a time; `primary` is `socketsByUserId`, `gen` the generation of a user's connection, `timers` and `presTimers` the armed grace timers, `pend` and
`presPend` the maps that name the last of them.  The host's moderation acts on the same rooms.  `view` is what the client
shows.  `late` names the users the properties except: one whose identification was answered after its socket was gone
or superseded, or whose room was closed during his grace period, both of which the code gets wrong (section 6).
`parted` names the users whose current socket closed while another of theirs stayed open, until one of theirs is bound again.

### WalletLedger

A wallet call is one transaction, statement by statement, at READ COMMITTED with row locks.  The changes of a call are its
numbered `part`s: 0 is what the payer gives, the others what receivers get; `Program` lists the statements
that claim the key or look for it, change the balances and record the rows, in the order of each operation.  What the ceiling cuts off
a credit or a transfer has a row of its own (`clamp`).  The connection may fail at each
of them and at COMMIT, when the caller is told of a failure although the transaction may have happened.  Handlers retry under their
idempotency key.  Postgres breaks a cycle of waits by aborting a member.  The Redis lock is left out because a call
that does not get it runs without it.

### FruitWheel

The engine of one room, its interval, the bets and payouts with balances in `users.json` (`wallet = FALSE`) and with
the production wallet (`wallet = TRUE`), where each bet and payout is awaited and two resolutions of a round may be under way.
`gen` tells a torn-down engine, still captured by closures, from its successor.  `saved` is `fruit_wheel_rounds.json`.

## 3. Runs

| Run | Instance | What it shows |
| --- | --- | --- |
| `hosting_calls` | 2 users, 3 tabs, 1 call, 3 rate settings | both users are free and the call logged once with the minutes it was charged after every ending; billing and grace exclude each other; minutes charged are at most those begun; an abandoned call ends |
| `random_search` | caller with 2 tabs, 2 hosts, 3 calls of which 1 direct, 1 session | a live session always has a live call; every search ends |
| `signaling_devices` | 3 users, one with 2 tabs, 2 calls | a ringing call rings somewhere, is answered on one device, is logged exactly once, or not at all if its caller dropped while it rang; if everybody is gone it ends |
| `recharge_orders` | 2 requests, 2 users, 2 UTRs, 3 crashes | a request is credited once, the ledger never claims more than the wallet got, and the service implements `RechargeOrder` |
| `payout_ledger` | 2 users, 2 accounts, 2 withdrawals, 2 policies | beans and cents are conserved, money goes to a verified account |
| `queue_files` | 2 files, delay 2, ceiling 4, 4 versions, writes that fail | work lost in a crash is at most the ceiling's worth, a shutdown loses nothing, one generation at most is lost with a file, no file goes back |
| `approval_requests` | 1 user, 2 requests of 9 domains, owner, staff, staff of another country | staff alone can not have an effect applied twice; Diamonds are what decisions moved; a user has one seller entry, one membership and one ban in force |
| `room_seats` | a guest with 2 sockets, 2 rooms of 2 seats, a host who moderates one | no grace timer takes the seat of an open socket; the sweep takes that of a connected user only if he is `parted`; who is gone leaves |
| `wallet_ledger` | 2 users with 2 balances, a gift and its retry, an exchange, a transfer, a debit | a call happens whole or not at all, its answer is true, the ledger sums to the balances, every call ends |
| `fruit_wheel` | 2 players, 2 fruits, both wallets, 2 bets | a restart refunds exactly the running round, no Diamonds appear, every stake is drawn |
| `agency_salaries` | 2 accounts, 2 agencies of either or both, 2 overlapping weeks, 2 overlapping periods, 2 gifts, 1 crash | wallets match the records, a gift is paid for once, whoever gifts count for an agency for is its listed host or its owner, paid weeks do not change |
| `logins` | 1 number, 2 codes, 2 tokens, 1 crash, production wallet on or off | a delivered code works, works once, and a login outlives a crash |

Bounds and why they are enough.  Every interaction of the call modules is between
the two parties of one call, so two users with one spare tab show every order of
drops, resumes and stale sockets; the second call and the third user of
`signaling_devices` are there for the busy map, which relates calls.  `MaxHalf` =
4 lets a call be billed at connect, once more, be resumed in between and reach the
longest duration; two diamonds pay for two minutes, so a call also
runs out of money.  `MaxAttempts` = 2 with two hosts reaches both ways a search gives
up; `SearchNext` leaves out of the hosting steps those a search does not read (rates and
accounts stay as they are; the proofs of `RandomCall` have them all).  Three crashes are one in each gap of one approval.  In `queue_files` the
ceiling is twice the delay, so timers are pushed out, cut short and hit the
ceiling; four versions allow a write, its backup, a lost generation and one
that replaces it.  `MaxBeans` and `MaxCents` admit a conversion in two parts
at two rates and two reservations.  Two requests and three applied approvals allow a request to be approved, forced
back and approved again while another of its domain waits.  Two sockets of one guest are an old and a new session, or two tabs, the second room is the one
a user moves to; the host needs no socket, his checks look at his identity only.  He locks one of the two seats (`Lockable`), so that a lock
and a free seat are seen together, and a user is bound anew by joins up to the third generation (`MaxGen`), so that
each tab's identification and one rebinding after them have a generation of their own.  The five wallet calls lock the four rows in
conflicting orders, and include an insufficient balance, a clamp and a replayed key; one failure may fall anywhere.  Two overlapping
resolutions and two engines are what stale closures need.  In `agency_salaries` the clock passes the end of one week while the next
is open; a behaviour pays agencies or hosts, which share the membership and the wallet, or has invitations and new rooms without payments (`Scopes`);
one account is drawn into agencies by others (`Drawn`), both found them and get gifts (`Rooms`), and one invitation is pending at
a time.  One number is enough for `logins` since two share only the files; `MaxAttempts` = 2 and `Threshold` = 1 put both counters at their limit.
Counters are bounded in the guards of the actions, named in the CONSTANTS.

Symmetry is used where the permuted values are not told apart by the
specification and no liveness is checked: `recharge_orders`,
`payout_ledger`, `queue_files`, `approval_requests` (requests), `agency_salaries` (agencies), `logins` (codes, ids, tokens).

Deadlock is not checked where the system may stop: all ids of calls, sessions, codes or wallet calls
used, or every bound reached (`random_search`, `signaling_devices`, `room_seats`, `wallet_ledger`, `fruit_wheel`, `agency_salaries`, `logins`).

The types of each module (`TypeOK`, `RoomTyped`, `WheelTyped` and their kin) are proved as part of its inductive invariant.

## 4. Fairness

* `HostingFairSpec`, `SignalingFairSpec`: weak fairness of the timers
  (`setTimeout` and `setInterval` fire, and their callbacks do not wait for anything).  Nothing is
  assumed about clients or admins.  `AbandonedCallsEnd` therefore says: if no party is
  connected from some point on, the call is over in the end.
* `RandomFairness`: weak fairness of the hooks (the rest of a handler runs) and
  strong fairness of each ring timer: the timer stays armed while other handlers run, but
  its action is disabled until they are through.
* `RoomFairSpec`: weak fairness of each socket's grace timers, of the awaited validation of a token and
  of the sweep, which an interval repeats.
* `WalletLedger!Fairness`: some call that can go on does.  Calls are bounded, so one condition on all of them starves nobody.
  It stands for the event loop, for Postgres running statements that wait for no lock, and for its deadlock detector.
* `FruitWheel!Spec`: the interval ticks while the engine exists, and what is awaited returns, or fails.
* Approvals, money services, salaries, logins and the write queue are checked for safety only.  That a queued write
  happens in time is a safety property there (`LossBounded`), as time is modelled.

## 5. Proofs

| Theorems | Inductive invariant | Assumptions |
| --- | --- | --- |
| `PaidCalls_proofs`: `HostingTypeCorrect`, `BusyMapExact`, `NeverBilledAndPaused`, `PrepaidByAtMostOneMinute` | `HostingInv` | those of the module |
| `BooksAlwaysBalance` | `BooksInv` (with `HostingInv`) | the same |
| `NeverAnyStranded` | `RandomInv` (with `HostingInv`) | those of both modules |
| `CallSignaling_proofs`: `AlwaysRingsSomewhere`, `OneAnsweringDevice`, `AlwaysLoggedOnce`, `SignalingBusyMapExact` | `SignalingInv` | those of the module |
| `Diamonds_proofs`: `RechargeTypeCorrect` | `TypeInv` | those of the module |
| `CreditedAtMostOnce`, `LedgerAlwaysBacked`, `RechargeImplementsOrder` | `MoneyInv` | `DiskMayFail = FALSE` |
| `WinsAreFunded`, `SnapshotAlwaysCurrent`, `DiamondsNeverMinted` | `WheelInv` | finitely many players and fruits, natural multipliers, a fee of at most 100 % |
| `Wallet_proofs`: `PayoutTypeCorrect`, `AlwaysPaidToVerifiedAccount`, `DecidedForGood` | `PayoutInv` | those of the module |
| `MoneyAlwaysConserved` | `LedgerInv` (with `PayoutInv`) | the same |
| `LedgerAlwaysBalances`, `AlwaysWholeOrNothing`, `AnswersAlwaysTrue` | `WalletInv` | finitely many accounts; received amounts are not negative; equal keys mean equal operations |
| `WriteQueue_proofs`: `QueueTypeCorrect` | `TypeInv` | those of the module |
| `LossAlwaysBounded`, `OneGenerationAtMost`, `ShutdownKeepsAll`, `FilesMoveForward` | `QueueInv` | `"copy" \notin Faults` |
| `Sessions_proofs`: `DeliveredOtpAlwaysWorks`, `OtpAlwaysSpentOnce`, `LoginsAlwaysSurvive` | `LoginInv` | those of the module |
| `RoomTypeCorrect` | `RoomTyped` | those of the module |
| `NewSessionAlwaysSpared`, `OnlyTheGoneAreEverSwept` | `PresenceInv` | those of the module |
| `Administration_proofs`: `GiftsAlwaysPaidOnce`, `MembersAlwaysListed`, `PaidForGood` | `SalaryInv` | those of the module |
| `SalariesAlwaysRecorded` | `WalletRecInv` (with `SalaryInv`) | finitely many agencies and weeks, policies that `normalizePolicy` lets through |
| `StaffAppliesOnce`, `DiamondsAlwaysDecided`, `RecordsAlwaysMatch` | `ApprovalInv` | finitely many users, commissions of 0 to 30 % |

All of them hold for any number of users, tabs, calls, sessions, requests, files, codes, agencies, weeks, rooms, wallet calls and
crashes.  With them every invariant and every action property of a run is a theorem.  Why the invariants have to be stronger than
what they prove:

* `HostingInv` is `TypeOK`, `BusyConsistent` and, for every call, `CallShape`.  That
  interval and grace period exclude each other is only preserved if neither is set on a call
  that is not connected and the grace belongs to a party of the call.  The prepaid bound is
  inductive only with a sharper one for the time the interval is armed, which measures the
  minutes charged against the connected time plus what is left of the interval (`due`).
* `BooksInv` says of each call whether it has its entry in the history yet, and that revenue is the sum of rate times
  minutes over the calls made so far; a call that is over no longer changes (`KeepsBooks`).
* `RandomInv`: `NeverStranded` speaks of the moments between handlers; while they run, each session is
  the one a hook is owed to, or one of the user whose disconnect handler is still to run, or placed.  A step of
  `CallHosting` changes at most one call (`OthersContinue`), so the one session it can unsettle is the one `FireOnEnded`
  picks (`OwedIsChanged`).  `HostingInv` is carried along, and a user's current connection is one of his own.
* `SignalingInv`: for every call, `Shape` relates its status, the devices that ring or show it, its two sockets, its grace and its log, whose
  only gap is a ring that the caller's drop ended; with it `BusyIsExact`.  That the last device to drop ends the ring needs both: the devices still ringing are open ones of the callee, and
  the busy map names the call for the user whose device dropped.
* `MoneyInv`: memory and files agree between any two writes, a request that was credited is
  `PAID`, the ledger is never ahead of the wallet, and the stage of a running approval says which
  of its writes are done.  A crash is harmless because the status is written before
  the wallet: what was credited can no longer be approved.  It needs the disk: with `DiskMayFail = TRUE` TLC refutes `CreditedOnce`,
  because a failed write is logged and swallowed (`writeQueue.js:77`) while
  the approval goes on.
* `WheelInv`: the snapshot is that of the round on the table, and without the production wallet nothing is awaited, so a
  round is settled in one step.  `WinsAreFunded` is the arithmetic of that step: each win is rounded down after it was scaled to
  the pool, so together they do not exceed it.
* `PayoutInv` adds that a withdrawal belongs to a user; the step lemma proves besides that its
  user, amount and account never change, and that a decided one does not change at all; a KYC record is verified
  once and for good, so the account stays the verified one.  `LedgerInv` adds that only finitely many were requested;
  each decision moves one amount between the sum of the undecided and the sum of the paid.
* `WalletInv`: a transaction is followed statement by statement.  For every account, what an open transaction has
  changed plus what its remaining statements will still change is what its rows note plus what they will still note;
  so at COMMIT, when nothing is left of either, the change is what the new rows book.  Its rows are invisible to others until then:
  a transaction that has inserted rows is the only one of its key, whose rows are not in the ledger, because the payer's row comes first and
  is unique; so no key is booked twice.  Two transactions never hold the same balance row, so the balance a transaction commits onto is the one it locked.
* `QueueInv`: age and remaining delay of a pending entry stay within the ceiling; the entry holds
  what is in memory and is as old as the oldest change it carries; without an entry the file is
  up to date unless its write failed; neither copy is older than the generation before the last
  write, and not both are unreadable; while the server is up the file is not ahead of memory.
* `LoginInv`: the file of the codes may lag behind memory, but never holds a code that was used; the counter of the live code
  misses at most the guesses each crash gave back; the newest usable code of a number is in memory and in the file; and from the moment
  a token is issued, it is in memory and in its file, and so is its account.
* `PresenceInv`: no two sockets of a user have the same generation, none a higher one than his connection, and his current socket
  has just that one.  A timer carries the generation of the socket that armed it, which spoke for the user and is closed; if that is still the
  user's generation, that socket is his current one (`TimerCurrent`).  That is why a timer frees only seats of closed sockets.  Unless the user is `parted`,
  his current socket is closed or forgotten only when all his sockets are (`Generations`), which is all the sweep needs: the map of pending
  disconnects, which stale timers clear too early, is not even used.  Users in `late` are excepted.
* `SalaryInv` says of every gift whether the next payment still counts it: a gift after the last cycle reset has been paid for
  by crashed payments only; one before it once more than that, and is never counted again.  `WalletRecInv` adds, for every
  account, how many grants a crash kept from being recorded and which pending payouts it was sent; a week that is paid for has a salary that no
  longer changes, and an agency once founded keeps its owner, so each payment goes to one wallet for good.
* `ApprovalInv`: types, with the number of times an effect was applied against the number of times the owner forced
  the request back; the sum of all users' diamonds, in which each step changes one term on either side; and for each user the registry entries that
  are open, of which there is one exactly if his profile says so and nothing has parted the two.

Sums.  `SumFunctionOnSet` of the community modules is a recursion over the subsets of a set which picks elements by `CHOOSE`.  `Sums`
proves that the order does not matter, what a sum gains with an element, loses with one and how it changes with one
term, and that sums of smaller terms are smaller.  Induction theorems with an operator parameter cannot be used; instead
each induction takes a smallest counterexample among the subsets (`SmallestSubset`), from the well-foundedness of strict
inclusion on a finite set.

Only model-checked: everything under fairness (`AbandonedCallsEnd`, `SearchEnds`, `TheGoneLeave`, `EveryCallEnds`, `EveryStakeIsDrawn`),
because liveness and ENABLED are out of the prover's reach.  The theorem about the wheel's Diamonds is, like the property, about balances in
`users.json`; with the production wallet a round can be paid twice (section 6).

## 6. Where the code disagrees with what it says

The models contain the behaviour described here; the properties are stated so that they say what does hold, and
no run claims the contrary.  Calls:

* `callHosting.js:481`: while one party's grace runs, the other's drop is
  ignored; the first resumes and minutes are billed although the other is gone (against 483, "pause billing during grace").
* `randomCall.js:160`: a cancel while a host is being rung does not end that call
  (RANDOM_CALL_IMPLEMENTATION.md:84-87).
* `callSignaling.js:444`: a party that dropped second is never
  waited for nor re-pointed, and the call stays up (41-45).
* Resuming a paid call arms a full interval (`callHosting.js:502`), so the cadence the header
  promises (21-24) is stretched by every drop.
* Closing any tab ends a ringing hosted call (`callHosting.js:460`), while `server.js:8017-8020`
  says a socket that is not attached to the call is a no-op.
* `randomCall.js:170` leaves the call running although 166-169 take it to be
  cleaned up already.
* `callSignaling.js:418`: the drop of the caller's tab ends a ringing call without an entry in the call history, alone of all endings (`LoggedOnce`
  states the exception); the drop of a superseded tab does so too, which 401-403 exclude; `150` logs an outcome (`ended`) that `125`
  does not list; devices keep ringing after `call:end` (155, against 237-238).

Money:

* `rechargeService.js:279`: a UTR in an order under review can be used again
  in a direct request, and both are paid (docs/PAYMENT_RECHARGE_SYSTEM.md:54-56).
* A request can be approved without a UTR (`rechargeService.js:491` against 24-26), and
  a crash between 505 and the ledger write leaves a credit the ledger does not know
  (487-489); both are in the model, the second within what `CreditedOnce` allows.
* `approvalEngine.js:230`: the owner can reject or review an approved request and have its effect applied again, although 197-199 and
  262-275 take approval to be final.  A stale appeal that is granted lifts the flag of a newer ban (`banManagement.js:353-371`); temporary
  bans never expire; the older ban endpoint does not look at the registry; the transaction log has the full amount where the ceiling clamps.
* `server.js:2961`: after a replayed wallet answer the balance in memory is not a number, though `wallet/index.js:132` calls it a
  "safe no-op replay"; a gift restores its snapshot on errors whose transaction may have happened; the answers of two calls may be applied
  out of order.  With the production wallet on, calls, recharges, withdrawals, approvals, salaries and the socket's send-gift
  (7132) change memory only.
* `server.js:6522`: the tick does not wait for the resolution of a round, which is then paid twice with the production wallet (6399: "atomically
  for the whole round"); late bets land in a later round.  A room closed by its host drops the stakes until a restart; a crash between the
  debounced `users.json` and `fruit_wheel_rounds.json` can refund twice or not at all (6215-6216).
* `agencyCommission.js`: gifts of the current week sent before a payout's reset are never paid for; a host's payment that died stays "pending" and its period can be paid again
  (`hostSalary.js:15`, "idempotent"); periods with other bounds are other keys; an accepted invitation leaves the host in the list of his former agency
  as well; a host who changes agency loses his unpaid diamonds.
* `agencyApproval.js:128-146`: an approved request makes its user the owner of a new agency whatever agency he is in by then (the direct route refuses him,
  `server.js:5338`).  A listed host stays in the list of his former agency, his gifts count for the new one, in whose list he is not, so he himself is
  no longer paid for them (`hostSalary.js:148-161`, `272-276`); `MembersAreListed` states the owner as the exception.

Rooms, logins and files:

* A late identification re-binds presence to a socket that is gone (`server.js:6664`), and a room closed during a user's grace period leaves him
  online for ever: `late` in `RoomPresence`.  A stale timer deletes the entry of a newer disconnect (8045); a kick clears `currentRoom`
  even of another room.  Seats are not persisted though `room-recovery.js` says so in its header.
* `room-recovery.js:68-75` says a seat is stale "only if there's no live socket for that user", but asks `socketsByUserId`, which holds one
  socket, while `server.js:8012-8020` supports several.  When the newer of two tabs closes, its presence timer forgets the user, and the next sweep clears the
  seat of the tab that is still connected.  `PROJECT.json` has it as a finding; `OnlyTheGoneAreSwept` excepts those users by name (`parted`), and
  without the exception TLC refutes it.  A timer of theirs also takes them off a room's list (`NewSessionIsSpared` has the same exception there).
* With the production wallet on (without it they answer), two login routes fail after the token was issued (`server.js:2509`, `2561`: undefined names); a failed session
  answers 500 although code, account and token exist; a logout and an account deletion are saved with a delay, so a crash brings them back;
  a ban does not revoke tokens as `userAuth.js:229` suggests; a restart gives back attempts and clears lockouts.
* `server.js:766`: a recovery cut off after the rename is not resumed; the next boot
  starts empty with a good backup on disk (775-777).  Runs and theorems assume recoveries that succeed.
* `writeQueue.js:69` copies the current file to `.bak` without looking at it, so
  "last known-good" (60-66) is as good as the file was.
* The `SIGTERM` listener of `writeQueue.js:129-130` is registered first and exits, so those of
  `server.js:8209-8210` (fruit wheel rounds, production core) never run.

## 7. Not modelled, and what comes next

Two small abstractions: the wheel's wins are divided exactly where `server.js:6407-6413` floors a product with a floating-point quotient, which can
cost a winner one Diamond more but creates none; and `elapsed` of a paid call is its connected time, while the limit on a call's length
(`callHosting.js:275`) reads the wall clock, which runs on in a pause: the code ends such calls no later than the model.

Contents of messages, media, formatting, audit logs, listings, rate limits that only
refuse, and the rules that validate a form are left out of the modelled components.  Components
that are not modelled are listed with the reason in `PROJECT.json`: a third of the code are the two browser clients
(`public/app.js`, `admin/app.js`, `public/vapi-support.js`), which the server sees as the source of its events; most of the rest of
`server.js` is routes that read, validate and format, or change one field of one record in one synchronous handler, where a
model would restate the assignment.  That is why the mapped lines are a small part of the repository although every
component with state that several actors contend for is modelled, but for three.

Left in the plan:

1. `RoomRpc` on top of `RoomPresence`: two instances with a copy of a room, join requests that time out and are performed all the same, the
   owner's sweep that does not know the users of the other instance.
2. `DbMirror` on top of `WriteQueue`: the order in which upserts of one key land, and
   hydration of missing files at boot; `PayoutFiles`: the payout ledgers through the write queue and a crash.
3. Diamond centers (`diamondCenter.js`) and couples (`friendshipCp.js`): one synchronous handler each, worth modelling with the wallet.
4. Abstract specifications for the wallet (`WalletLedger` as a ledger of atomic calls) and for the approvals (a request decided once), with the
   step-by-step refinement, on the invariants that are proved.
