---------------------------- MODULE CallHosting ----------------------------
(***************************************************************************)
(* Paid calls to approved hosts (callHosting.js): ringing, acceptance, the *)
(* per-minute billing interval, the disconnect grace period and the busy   *)
(* map, together with the slice of server.js that feeds it (which socket   *)
(* is a user's current one, and the disconnect handler).                   *)
(*                                                                         *)
(* Node runs every handler and every timer callback to completion, so each *)
(* is one action.  Time is counted in half minutes of connected time, the  *)
(* coarsest grain that can tell "a new 60 s interval was armed" from "the  *)
(* old one went on".                                                       *)
(***************************************************************************)
EXTENDS Naturals, FiniteSets, Functions

CONSTANTS
    User,        \* account ids
    Socket,      \* socket.io connection ids
    Owner,       \* the user each connection authenticates as
    CallId,      \* fresh ids for calls; each is used at most once
    RateConfigs, \* the rate settings an admin may save
    MaxDiamonds, \* bound on a wallet
    MaxHalf,     \* bound on the connected time of a call, in half minutes
    None         \* JavaScript null / a missing map entry

HalvesPerMinute == 2   \* BILL_INTERVAL_MS

RateConfig == [enabled: BOOLEAN, perMinute: Nat \ {0}, minBalance: Nat,
               maxHalf: Nat \ {0}, maxDaily: Nat \cup {None}]

ASSUME HostingAssumption ==
    /\ Owner \in [Socket -> User]
    /\ RateConfigs \subseteq RateConfig
    /\ RateConfigs # {}
    /\ MaxDiamonds \in Nat
    /\ MaxHalf \in Nat
    /\ None \notin User \cup Socket \cup CallId \cup Nat

VARIABLES
    live,      \* sockets currently connected
    primary,   \* socketsByUserId: the user's current socket, possibly dead
    accounts,  \* users findUserByUserId still finds
    approved,  \* hosts whose record has status "approved"
    rates,     \* getRates()
    diamonds,  \* user.diamonds
    usage,     \* user.callHostingDailyUsage[today]
    revenue,   \* revenue.total
    call,      \* every call record ever made, by id
    busy,      \* userCallState
    history    \* the completed-call log

hostingVars == <<live, primary, accounts, approved, rates, diamonds, usage,
                 revenue, call, busy, history>>

wallet == <<diamonds, usage, revenue>>
admin  == <<accounts, approved, rates>>

-----------------------------------------------------------------------------
(* Call records                                                            *)

CallRecord ==
    [status: {"unused", "ringing", "connected", "over"},
     caller: User \cup {None},
     host: User \cup {None},
     callerSocket: Socket \cup {None},
     hostSocket: Socket \cup {None},
     rate: Nat,            \* rateSnapshot.diamondsPerMinute
     minutes: Nat,         \* diamondsCharged / rate
     elapsed: Nat,         \* half minutes since connectedAt
     due: Nat,             \* half minutes until the interval fires
     billTimer: BOOLEAN,   \* the interval is armed
     grace: User \cup {None}]

LogEntry == [call: CallId, status: {"completed", "missed", "rejected"},
             minutes: Nat]

Unused == [status |-> "unused", caller |-> None, host |-> None,
           callerSocket |-> None, hostSocket |-> None, rate |-> 0,
           minutes |-> 0, elapsed |-> 0, due |-> 0, billTimer |-> FALSE,
           grace |-> None]

Ringing(c) == call[c].status = "ringing"
Connected(c) == call[c].status = "connected"
Active(c) == Ringing(c) \/ Connected(c)         \* activeCalls.has(c)
Party(c) == {call[c].caller, call[c].host}
SocketOf(c, u) == IF u = call[c].caller THEN call[c].callerSocket
                                        ELSE call[c].hostSocket
Present(u) == \E s \in live : Owner[s] = u      \* u has some open tab
Reachable(u) == primary[u] \in live             \* socketFor(u) is not null

-----------------------------------------------------------------------------
(* The shared endings                                                      *)

\* What clearCall leaves of a record: its timers are gone.
Cleared(r) == [r EXCEPT !.status = "over", !.billTimer = FALSE,
                        !.grace = None, !.callerSocket = None,
                        !.hostSocket = None, !.elapsed = 0, !.due = 0]

\* Mutant: only the caller is taken out of userCallState.
FreeCallerOnly(c) == busy' = [busy EXCEPT ![call[c].caller] = None]

FreeParties(c) == busy' = [u \in User |-> IF u \in Party(c) THEN None
                                                            ELSE busy[u]]

Log(c, outcome) ==
    history' = history \cup {[call |-> c, status |-> outcome,
                              minutes |-> call[c].minutes]}

\* logCompletedCall followed by clearCall.
Finish(c, outcome) ==
    /\ call' = [call EXCEPT ![c] = Cleared(@)]
    /\ FreeParties(c)
    /\ Log(c, outcome)

\* Mutant: the outcome ignores that the call had been connected.
EndCallAsMissed(c) == Finish(c, "missed")

\* endCall
EndCall(c) == Finish(c, IF Connected(c) THEN "completed" ELSE "missed")

-----------------------------------------------------------------------------
(* Billing                                                                 *)

\* The conditions under which billOneMinute ends the call instead.
CannotBill(c) ==
    LET r == call[c] IN
    \/ ~rates.enabled
    \/ r.elapsed >= rates.maxHalf
    \/ rates.maxDaily # None /\ usage[r.caller] >= rates.maxDaily
    \/ r.caller \notin accounts
    \/ diamonds[r.caller] < r.rate

\* clampDiamondBalance (its ceiling is out of a debit's reach).
Debited(balance, amount) == IF balance < amount THEN 0 ELSE balance - amount

\* One minute moves from the caller's wallet to the company ledger.
Charge(c) ==
    LET u == call[c].caller
        amount == call[c].rate
    IN /\ diamonds' = [diamonds EXCEPT ![u] = Debited(@, amount)]
       /\ usage' = [usage EXCEPT ![u] = @ + 1]
       /\ revenue' = revenue + amount

-----------------------------------------------------------------------------
(* Handlers of the participants                                            *)

\* attemptInvite: s is the caller's connection, h the host asked for.
Invite(c, s, h) ==
    LET u == Owner[s] IN
    /\ call[c].status = "unused"
    /\ s \in live
    /\ u # h
    /\ busy[u] = None
    /\ busy[h] = None
    /\ h \in approved
    /\ rates.enabled
    /\ u \in accounts
    /\ diamonds[u] >= rates.minBalance
    /\ Reachable(h)
    /\ call' = [call EXCEPT ![c] =
                  [Unused EXCEPT !.status = "ringing", !.caller = u,
                                 !.host = h, !.callerSocket = s,
                                 !.hostSocket = primary[h],
                                 !.rate = rates.perMinute]]
    /\ busy' = [busy EXCEPT ![u] = c, ![h] = c]
    /\ UNCHANGED <<live, primary, admin, wallet, history>>

\* hostcall:accept when the first minute can be paid.
AcceptPaid(c) ==
    /\ Ringing(c)
    /\ Present(call[c].host)
    /\ ~CannotBill(c)
    /\ call' = [call EXCEPT ![c].status = "connected", ![c].minutes = 1,
                            ![c].billTimer = TRUE,
                            ![c].due = HalvesPerMinute]
    /\ Charge(c)
    /\ UNCHANGED <<live, primary, admin, busy, history>>

\* hostcall:accept when it cannot: billOneMinute ends the call, and the
\* handler then still arms an interval on the record it has just discarded.
AcceptUnpaid(c) ==
    /\ Ringing(c)
    /\ Present(call[c].host)
    /\ CannotBill(c)
    /\ call' = [call EXCEPT ![c] = [Cleared(@) EXCEPT !.billTimer = TRUE]]
    /\ FreeParties(c)
    /\ Log(c, "completed")
    /\ UNCHANGED <<live, primary, admin, wallet>>

\* hostcall:reject
Reject(c) ==
    /\ Ringing(c)
    /\ Present(call[c].host)
    /\ Finish(c, "rejected")
    /\ UNCHANGED <<live, primary, admin, wallet>>

\* hostcall:end, from any connection of either party.
EndByParticipant(c) ==
    /\ Active(c)
    /\ \E u \in Party(c) : Present(u)
    /\ EndCall(c)
    /\ UNCHANGED <<live, primary, admin, wallet>>

-----------------------------------------------------------------------------
(* Timers                                                                  *)

RingTimeout(c) ==
    /\ Ringing(c)
    /\ Finish(c, "missed")
    /\ UNCHANGED <<live, primary, admin, wallet>>

\* Half a minute of an uninterrupted connection goes by.
Elapse(c) ==
    /\ Connected(c)
    /\ call[c].billTimer
    /\ call[c].due > 0
    /\ call[c].elapsed < MaxHalf
    /\ call' = [call EXCEPT ![c].elapsed = @ + 1, ![c].due = @ - 1]
    /\ UNCHANGED <<live, primary, admin, wallet, busy, history>>

Billable(c) == Connected(c) /\ call[c].billTimer /\ call[c].due = 0

\* The interval fires: billOneMinute.
BillTick(c) ==
    /\ Billable(c)
    /\ IF CannotBill(c)
       THEN EndCall(c) /\ UNCHANGED wallet
       ELSE /\ call' = [call EXCEPT ![c].minutes = @ + 1,
                                    ![c].due = HalvesPerMinute]
            /\ Charge(c)
            /\ UNCHANGED <<busy, history>>
    /\ UNCHANGED <<live, primary, admin>>

GraceExpire(c) ==
    /\ Connected(c)
    /\ call[c].grace # None
    /\ EndCall(c)
    /\ UNCHANGED <<live, primary, admin, wallet>>

-----------------------------------------------------------------------------
(* Connections                                                             *)

\* Mutant: the interval is not cleared.
PausedStillBilling(r, u) == [r EXCEPT !.grace = u]

\* Mutant: the interval is cleared and the grace timer forgotten.
PausedForGood(r, u) == [r EXCEPT !.billTimer = FALSE, !.due = 0]

\* The record while u is away: billing stopped, the 15 s grace running.
Paused(r, u) == [r EXCEPT !.billTimer = FALSE, !.due = 0, !.grace = u]

\* handleDisconnect for the call the user is in.
DropParty(s) ==
    LET u == Owner[s]
        c == busy[u]
    IN IF c # None /\ Ringing(c) THEN Finish(c, "missed")
       ELSE /\ UNCHANGED <<busy, history>>
            /\ IF c # None /\ s = SocketOf(c, u) /\ call[c].grace = None
               THEN call' = [call EXCEPT ![c] = Paused(@, u)]
               ELSE UNCHANGED call

\* The disconnect event of a connection.
Disconnect(s) ==
    /\ s \in live
    /\ live' = live \ {s}
    /\ DropParty(s)
    /\ UNCHANGED <<primary, admin, wallet>>

\* A connection id that nothing in the server still refers to.
Fresh(s) ==
    /\ s \notin live
    /\ \A u \in User : primary[u] # s
    /\ \A c \in CallId : s \notin {call[c].callerSocket, call[c].hostSocket}

\* Mutant: resuming bills at once instead of arming a full interval.
ReattachedAndBilled(r, u, s) ==
    [r EXCEPT !.grace = None, !.billTimer = TRUE, !.due = 0,
              !.callerSocket = IF u = r.caller THEN s ELSE @,
              !.hostSocket = IF u = r.caller THEN @ ELSE s]

\* The record after u came back on connection s: a new 60 s interval.
Reattached(r, u, s) ==
    [r EXCEPT !.grace = None, !.billTimer = TRUE, !.due = HalvesPerMinute,
              !.callerSocket = IF u = r.caller THEN s ELSE @,
              !.hostSocket = IF u = r.caller THEN @ ELSE s]

\* resumeCall: only the user whose grace is running is attached again.
Resume(s) ==
    LET u == Owner[s]
        c == busy[u]
    IN IF c # None /\ call[c].grace = u
       THEN call' = [call EXCEPT ![c] = Reattached(@, u, s)]
       ELSE UNCHANGED call

\* identify / join-room, on a new connection or again on an open one.
Identify(s) ==
    /\ s \in live \/ Fresh(s)
    /\ live' = live \cup {s}
    /\ primary' = [primary EXCEPT ![Owner[s]] = s]
    /\ Resume(s)
    /\ UNCHANGED <<admin, wallet, busy, history>>

-----------------------------------------------------------------------------
(* Administration and the rest of the server                               *)

\* setHostStatus(u, "approved")
ApproveHost(u) ==
    /\ u \in accounts
    /\ approved' = approved \cup {u}
    /\ UNCHANGED <<live, primary, accounts, rates, wallet, call, busy, history>>

\* setHostStatus(u, "rejected" | "suspended" | "disabled" | "removed"): the
\* call the user is in ends, whichever side of it the user is on.
RevokeHost(u) ==
    /\ u \in accounts
    /\ approved' = approved \ {u}
    /\ IF busy[u] # None THEN EndCall(busy[u])
                         ELSE UNCHANGED <<call, busy, history>>
    /\ UNCHANGED <<live, primary, accounts, rates, wallet>>

\* PUT /api/admin/call-hosting/rates
SetRates(r) ==
    /\ rates' = r
    /\ UNCHANGED <<live, primary, accounts, approved, wallet, call, busy,
                   history>>

\* DELETE /api/account leaves the calls of the account alone.
DeleteAccount(u) ==
    /\ accounts' = accounts \ {u}
    /\ UNCHANGED <<live, primary, approved, rates, wallet, call, busy, history>>

\* Gifts, recharges and games move the wallet between two handlers.
OtherWalletChange(u, d) ==
    /\ diamonds' = [diamonds EXCEPT ![u] = d]
    /\ UNCHANGED <<live, primary, admin, usage, revenue, call, busy, history>>

\* todayKey() changes at midnight.
NewDay ==
    /\ usage' = [u \in User |-> 0]
    /\ UNCHANGED <<live, primary, admin, diamonds, revenue, call, busy, history>>

-----------------------------------------------------------------------------

HostingInit ==
    /\ live = {}
    /\ primary = [u \in User |-> None]
    /\ accounts = User
    /\ approved = {}
    /\ rates \in RateConfigs
    /\ diamonds \in [User -> {MaxDiamonds}]
    /\ usage = [u \in User |-> 0]
    /\ revenue = 0
    /\ call = [c \in CallId |-> Unused]
    /\ busy = [u \in User |-> None]
    /\ history = {}

CallStep(c) ==
    \/ AcceptPaid(c) \/ AcceptUnpaid(c) \/ Reject(c) \/ EndByParticipant(c)
    \/ RingTimeout(c) \/ Elapse(c) \/ BillTick(c) \/ GraceExpire(c)

UserStep(u) ==
    \/ ApproveHost(u) \/ RevokeHost(u) \/ DeleteAccount(u)
    \/ \E d \in 0..MaxDiamonds : OtherWalletChange(u, d)

HostingNext ==
    \/ \E c \in CallId, s \in Socket, h \in User : Invite(c, s, h)
    \/ \E c \in CallId : CallStep(c)
    \/ \E s \in Socket : Disconnect(s) \/ Identify(s)
    \/ \E u \in User : UserStep(u)
    \/ \E r \in RateConfigs : SetRates(r)
    \/ NewDay

HostingSpec == HostingInit /\ [][HostingNext]_hostingVars

\* Node fires every timer that stays armed.
TimerFairness ==
    \A c \in CallId : /\ WF_hostingVars(RingTimeout(c))
                      /\ WF_hostingVars(GraceExpire(c))
                      /\ WF_hostingVars(BillTick(c))

HostingFairSpec == HostingSpec /\ TimerFairness
-----------------------------------------------------------------------------
(* Properties                                                              *)

\* Every variable of the module has its shape.
TypeOK ==
    /\ live \subseteq Socket
    /\ primary \in [User -> Socket \cup {None}]
    /\ accounts \subseteq User
    /\ approved \subseteq User
    /\ rates \in RateConfigs
    /\ diamonds \in [User -> Nat]
    /\ usage \in [User -> Nat]
    /\ revenue \in Nat
    /\ call \in [CallId -> CallRecord]
    /\ busy \in [User -> CallId \cup {None}]
    /\ history \subseteq LogEntry

\* userCallState and activeCalls never disagree: a user is marked busy with
\* exactly the one active call that names the user, so nobody is in two
\* calls and nobody stays busy after a call is cleared.
BusyConsistent ==
    \A u \in User, c \in CallId :
        busy[u] = c <=> Active(c) /\ u \in Party(c)

\* The grace period and the billing interval of an active call exclude each
\* other, and a connected call always has one of them: it is neither billed
\* while handleDisconnect has paused it nor left with no timer at all.
PausedOrBilled ==
    \A c \in CallId : Connected(c) =>
        /\ call[c].billTimer <=> call[c].grace = None
        /\ call[c].grace # None => call[c].grace \in Party(c)

\* Every call that is over was logged once, with the minutes it was really
\* charged, and as "completed" if it was charged at all; no call is logged
\* before it is over.  The company's revenue is the sum of what the calls were
\* charged: no minute reaches it without a call, none is lost with one.
LoggedOnceAsCharged ==
    /\ \A c \in CallId :
         LET entries == {e \in history : e.call = c} IN
         /\ entries # {} <=> call[c].status = "over"
         /\ \A e \in entries : /\ e.minutes = call[c].minutes
                                /\ e.minutes > 0 => e.status = "completed"
         /\ Cardinality(entries) <= 1
    /\ revenue = SumFunctionOnSet([c \in CallId |-> call[c].rate * call[c].minutes],
                                  {c \in CallId : call[c].status # "unused"})

\* A caller never pays for a minute that has not begun: whatever order
\* ticks, drops and resumes come in, prepaid minutes stay within one of the
\* connected time, pauses left out (the wall clock that the limit on a call's
\* length reads runs on in them).
NeverOverbilled ==
    \A c \in CallId : Connected(c) =>
        HalvesPerMinute * call[c].minutes <= call[c].elapsed + HalvesPerMinute

\* When every connection has gone for good, every call is over in the end:
\* each drop is either seen by a timer or outlived by one.
AbandonedCallsEnd ==
    <>[](live = {}) => <>[](\A c \in CallId : ~Active(c))
=============================================================================
