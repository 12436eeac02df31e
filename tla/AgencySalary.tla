---------------------------- MODULE AgencySalary ----------------------------
(***************************************************************************)
(* Hosts, agencies and their salaries (agencyHost.js, agencyCommission.js, *)
(* hostSalary.js, and agencyApproval.js for the agencies it opens).  A     *)
(* gift sent in a user's room counts for the agency he is in at that       *)
(* moment.  An admin pays the agency's owner a commission on a closed      *)
(* week, and a host a reward for the highest target he reached in a        *)
(* period; both pay beans, then move a "cycle reset" marker before which   *)
(* gifts count no more.                                                    *)
(*                                                                         *)
(* Every handler runs to its end undisturbed, and its files are written    *)
(* with immediate = TRUE, one after the other: memory and disk agree       *)
(* between handlers, and the process may die between two of the writes.    *)
(* "done" is the number of files a payment had written; less than Writes   *)
(* means it died there, restarted and read the files (reconcile...).       *)
(*                                                                         *)
(* All gifts have the size Gift.  Weekly targets, countries, cash          *)
(* estimates, the audit log and the PDF are left out.  users.json and      *)
(* agencies.json are taken to be flushed when the process dies (WriteQueue *)
(* has the case where they are not).  Any account may own several agencies *)
(* and be a host of another one's.                                         *)
(***************************************************************************)
EXTENDS Integers, Sequences, FiniteSets, FiniteSetsExt, Functions

CONSTANTS
    Account, Agencies,
    Drawn,         \* bound: who is invited, applies and is assigned
    Rooms,         \* bound: whose rooms gifts are sent in
    Week,          \* length of a period of an agency
    Windows,       \* starts of the weeks an admin asks for
    Bounds,        \* <<first, last>>: periods a host's salary is asked for
    Gift,          \* diamonds of a gift
    Policies,      \* commission policies: [min diamonds -> percent]
    Levels,        \* reward of a host: [target diamonds -> beans]
    Grant,         \* beans of a manual payment
    MaxNow,        \* bound: the clock
    MaxGifts,      \* bound: gifts
    MaxInvites,    \* bound: invitations and applications pending
    MaxPayouts,    \* bound: host payouts and manual ones
    MaxDeaths,     \* bound: crashes inside a payment
    Scopes         \* bound: which salaries a behaviour pays, and whether it has
                   \* invitations and new rooms

NoAgency == "none"
NoOwner == "none"
Never == -1
Writes == 4

\* What normalizePolicy lets through, in whole percents: a tier for every
\* achievement.
Policy(p) ==
    /\ IsFiniteSet(DOMAIN p) /\ 0 \in DOMAIN p
    /\ \A m \in DOMAIN p : m \in Nat /\ p[m] \in 0..100

ASSUME SalaryAssumption ==
    /\ IsFiniteSet(Agencies) /\ IsFiniteSet(Windows)
    /\ NoAgency \notin Agencies /\ NoOwner \notin Account
    /\ Drawn \subseteq Account /\ Rooms \subseteq Account
    /\ Gift \in Nat /\ Grant \in Nat
    /\ \A p \in Policies : Policy(p)
    /\ IsFiniteSet(DOMAIN Levels)
    /\ \A t \in DOMAIN Levels : t \in Nat /\ Levels[t] \in Nat

VARIABLES
    now,
    agencyOf,      \* user.agencyId
    isHost,        \* users with user.isHost
    ownerOf,       \* agency.ownerUserId; NoOwner: not an agency yet
    hostIds,       \* agency.hostIds
    invites,       \* agency_invites.json and agency_applications.json, pending
    gifts,         \* gift_history.json
    policy,        \* agency_commission_policy.json
    periods,       \* agency_salary_periods.json
    resets,        \* agency_salary_cycle_resets.json
    payouts,       \* host_salary_payouts.json
    hostResets,    \* host_salary_cycle_resets.json
    beans,         \* user.beans
    deaths, scope

membership == <<agencyOf, isHost, ownerOf, hostIds, invites>>
agencyPay == <<periods, resets, policy>>
hostPay == <<payouts, hostResets>>
vars == <<now, membership, gifts, agencyPay, hostPay, beans, deaths, scope>>

Die(done) == deaths' = IF done = Writes THEN deaths ELSE deaths + 1
MayDie(done) == done \in 0..Writes /\ (done < Writes => deaths < MaxDeaths)

-----------------------------------------------------------------------------
(* Agencies and their members.                                             *)

Founded(a) == ownerOf[a] # NoOwner

others == <<now, gifts, agencyPay, hostPay, beans, deaths>>

Founds(u, a) ==
    /\ ~Founded(a)
    /\ ownerOf' = [ownerOf EXCEPT ![a] = u]
    /\ hostIds' = [hostIds EXCEPT ![a] = {}]
    /\ agencyOf' = [agencyOf EXCEPT ![u] = a]
    /\ UNCHANGED <<isHost, invites, others>>

\* POST /api/admin/agency/create.
CreateAgency(u, a) == agencyOf[u] = NoAgency /\ Founds(u, a)

\* A request for a new agency is approved (module Approval): the owner may by
\* now be in another agency, and neither the request nor its approval asks.
ApproveFounding(u, a) == Founds(u, a)

\* POST /api/room/create: whoever has a room is a host, of an agency or not.
CreateRoom(u) ==
    /\ u \notin isHost /\ isHost' = isHost \cup {u}
    /\ UNCHANGED <<agencyOf, ownerOf, hostIds, invites, others>>

Invite(h, a) ==
    /\ Founded(a) /\ h \notin hostIds[a] /\ Cardinality(invites) < MaxInvites
    /\ invites' = invites \cup {[host |-> h, agency |-> a, by |-> "agency"]}
    /\ UNCHANGED <<agencyOf, isHost, ownerOf, hostIds, others>>

Apply(h, a) ==
    /\ Founded(a) /\ agencyOf[h] = NoAgency /\ Cardinality(invites) < MaxInvites
    /\ invites' = invites \cup {[host |-> h, agency |-> a, by |-> "host"]}
    /\ UNCHANGED <<agencyOf, isHost, ownerOf, hostIds, others>>

Joins(h, a) ==
    /\ agencyOf' = [agencyOf EXCEPT ![h] = a]
    /\ isHost' = isHost \cup {h}
    /\ hostIds' = [hostIds EXCEPT ![a] = @ \cup {h}]
    /\ UNCHANGED <<ownerOf, others>>

\* Whatever agency the host is in by now.
AcceptInvite(i) ==
    /\ i.by = "agency"
    /\ Joins(i.host, i.agency)
    /\ invites' = invites \ {i}

\* The applicant may have joined another agency since.
AcceptApplication(i) ==
    /\ i.by = "host" /\ agencyOf[i.host] \in {NoAgency, i.agency}
    /\ Joins(i.host, i.agency)
    /\ invites' = invites \ {i}

Decline(i) ==
    /\ invites' = invites \ {i}
    /\ UNCHANGED <<agencyOf, isHost, ownerOf, hostIds, others>>

\* POST /api/admin/agency/assign-host.
AssignHost(h, a) ==
    /\ Founded(a) /\ agencyOf[h] \in {NoAgency, a}
    /\ Joins(h, a)
    /\ UNCHANGED invites

\* Mutant: the user keeps the agency he was removed from.
LeaveListed(h, a) ==
    /\ hostIds' = [hostIds EXCEPT ![a] = @ \ {h}]
    /\ UNCHANGED <<agencyOf, isHost>>

Leaves(h, a) ==
    /\ hostIds' = [hostIds EXCEPT ![a] = @ \ {h}]
    /\ IF agencyOf[h] = a
       THEN agencyOf' = [agencyOf EXCEPT ![h] = NoAgency] /\ isHost' = isHost \ {h}
       ELSE UNCHANGED <<agencyOf, isHost>>

\* By the owner of the agency or by an admin; never the owner himself.
RemoveHost(h, a) ==
    /\ h \in hostIds[a] /\ ownerOf[a] # h
    /\ Leaves(h, a)
    /\ UNCHANGED <<ownerOf, invites, others>>

-----------------------------------------------------------------------------
(* Gifts and time.                                                         *)

\* Gifts in the room of a user without agency are in neither index.  An owner's
\* own room counts for his agency too.
RecordGift(u) ==
    /\ agencyOf[u] # NoAgency /\ Cardinality(gifts) < MaxGifts
    /\ gifts' = gifts \cup {[id |-> Cardinality(gifts) + 1, host |-> u,
                             agency |-> agencyOf[u], at |-> now]}
    /\ UNCHANGED <<now, membership, agencyPay, hostPay, beans, deaths>>

Pass ==
    /\ now < MaxNow /\ now' = now + 1
    /\ UNCHANGED <<membership, gifts, agencyPay, hostPay, beans, deaths>>

-----------------------------------------------------------------------------
(* An agency's commission.                                                 *)

Counted(a, w) ==
    {g \in gifts : g.agency = a /\ g.at \in w..(w + Week - 1) /\ g.at > resets[a]}

Achieved(a, w) == Gift * Cardinality(Counted(a, w))

CalculateCommission(achieved) ==
    LET tier == Max({m \in DOMAIN policy : m <= achieved})
    IN  (achieved * policy[tier]) \div 100

\* A week without a record, or whose record is not paid: what that one shows
\* is calculated again before it is used.
Pending == [status |-> "pending", salary |-> 0, counted |-> {}]

\* Mutant: a paid record is calculated again like any other.
RecalculateAlways(a, w) == Pending

CalculateRecord(a, w) ==
    IF periods[a][w].status = "paid" THEN periods[a][w] ELSE Pending

SetRecord(a, w, r) == periods' = [periods EXCEPT ![a] = [@ EXCEPT ![w] = r]]

\* The list, the preview and a new weekly target: every record shown is
\* calculated again and saved.
Preview(a, w) ==
    /\ Founded(a)
    /\ SetRecord(a, w, CalculateRecord(a, w))
    /\ UNCHANGED <<now, membership, gifts, policy, resets, hostPay, beans, deaths>>

UpdatePolicy(p) ==
    /\ policy' = p
    /\ UNCHANGED <<now, membership, gifts, periods, resets, hostPay, beans, deaths>>

\* Mutant: the marker in users.json is not looked at.
ReconcileBlind(r, credited) == Pending

\* reconcileProcessingRecords at boot: the payout marker that travels with the
\* beans tells whether they were credited.
Reconcile(r, credited) ==
    IF credited THEN r ELSE Pending

\* Mutant: the reset marker is not moved.
ResetForgotten(a, done) == UNCHANGED resets

ResetCycle(a, done) ==
    resets' = IF done >= 3 THEN [resets EXCEPT ![a] = now] ELSE resets

\* payOne: the processing record, the beans with their marker, the cycle reset
\* and the paid record are written in this order.
PayAgency(a, w, done) ==
    LET r == [status |-> "paid", counted |-> Counted(a, w),
              salary |-> CalculateCommission(Achieved(a, w))]
    IN  /\ MayDie(done)
        /\ Founded(a) /\ periods[a][w].status # "paid"
        /\ now > w + Week - 1
        /\ Achieved(a, w) > 0 /\ r.salary > 0
        /\ SetRecord(a, w, IF done = Writes THEN r ELSE Reconcile(r, done >= 2))
        /\ beans' = IF done >= 2 THEN [beans EXCEPT ![ownerOf[a]] = @ + r.salary] ELSE beans
        /\ ResetCycle(a, done)
        /\ Die(done)
        /\ UNCHANGED <<now, membership, gifts, policy, hostPay>>

-----------------------------------------------------------------------------
(* A host's salary, and beans given by hand.                               *)

HostCounted(h, b) ==
    {g \in gifts : /\ g.host = h /\ g.agency = agencyOf[h]
                   /\ g.at \in b[1]..b[2] /\ g.at > hostResets[h][agencyOf[h]]}

TiersReached(h, b) ==
    {t \in DOMAIN Levels : t <= Gift * Cardinality(HostCounted(h, b))}

Payable(h) ==
    h \in isHost /\ agencyOf[h] # NoAgency /\ h \in hostIds[agencyOf[h]]

AlreadyPaid(h, b) ==
    \E i \in DOMAIN payouts :
        /\ payouts[i].user = h /\ payouts[i].agency = agencyOf[h]
        /\ payouts[i].bounds = b /\ payouts[i].status = "completed"

ResetHost(h) ==
    hostResets' = [hostResets EXCEPT ![h] = [@ EXCEPT ![agencyOf[h]] = now]]

\* send-all pays every host of a country in turn; here one of them: the
\* pending entry, the beans, the cycle reset and the completed entry are
\* written in this order.
PayHost(h, b, done) ==
    LET paid == Levels[Max(TiersReached(h, b))]
        entry == [user |-> h, agency |-> agencyOf[h], bounds |-> b, beans |-> paid,
                  counted |-> HostCounted(h, b),
                  status |-> IF done = Writes THEN "completed" ELSE "pending"]
    IN  /\ MayDie(done) /\ Len(payouts) < MaxPayouts
        /\ Payable(h) /\ TiersReached(h, b) # {} /\ ~AlreadyPaid(h, b)
        /\ payouts' = IF done >= 1 THEN Append(payouts, entry) ELSE payouts
        /\ beans' = IF done >= 2 THEN [beans EXCEPT ![h] = @ + paid] ELSE beans
        /\ IF done >= 3 THEN ResetHost(h) ELSE UNCHANGED hostResets
        /\ Die(done)
        /\ UNCHANGED <<now, membership, gifts, agencyPay>>

GrantEntry(who, a) ==
    [user |-> who, agency |-> a, bounds |-> <<>>, beans |-> Grant,
     counted |-> {}, status |-> "completed"]

\* manual-host: beans, reset, entry.  The diamonds the reset discards are not
\* paid for.
GrantHost(h, done) ==
    /\ MayDie(done) /\ done # 0 /\ Len(payouts) < MaxPayouts
    /\ Payable(h)
    /\ beans' = IF done >= 2 THEN [beans EXCEPT ![h] = @ + Grant] ELSE beans
    /\ IF done >= 3 THEN ResetHost(h) ELSE UNCHANGED hostResets
    /\ payouts' = IF done = Writes THEN Append(payouts, GrantEntry(h, agencyOf[h]))
                  ELSE payouts
    /\ Die(done)
    /\ UNCHANGED <<now, membership, gifts, agencyPay>>

\* manual-agency: beans of the owner, entry.
GrantAgency(a, done) ==
    /\ MayDie(done) /\ done \in {2, Writes} /\ Len(payouts) < MaxPayouts
    /\ Founded(a)
    /\ beans' = [beans EXCEPT ![ownerOf[a]] = @ + Grant]
    /\ payouts' = IF done = Writes THEN Append(payouts, GrantEntry(ownerOf[a], a))
                  ELSE payouts
    /\ Die(done)
    /\ UNCHANGED <<now, membership, gifts, agencyPay, hostResets>>

-----------------------------------------------------------------------------
Init ==
    /\ now = 0 /\ deaths = 0 /\ scope \in Scopes
    /\ agencyOf = [u \in Account |-> NoAgency]
    /\ isHost = {}
    /\ ownerOf = [a \in Agencies |-> NoOwner]
    /\ hostIds = [a \in Agencies |-> {}]
    /\ invites = {} /\ gifts = {}
    /\ policy \in Policies
    /\ periods = [a \in Agencies |-> [w \in Windows |-> Pending]]
    /\ resets = [a \in Agencies |-> Never]
    /\ payouts = <<>>
    /\ hostResets = [u \in Account |-> [a \in Agencies |-> Never]]
    /\ beans = [u \in Account |-> 0]

Membership ==
    \/ "rooms" \in scope /\ \E u \in Account : CreateRoom(u)
    \/ \E u \in Account, a \in Agencies : CreateAgency(u, a) \/ ApproveFounding(u, a)
    \/ \E h \in Drawn, a \in Agencies : AssignHost(h, a) \/ RemoveHost(h, a)
    \/ "invites" \in scope /\ \E h \in Drawn, a \in Agencies : Invite(h, a) \/ Apply(h, a)
    \/ \E i \in invites : AcceptInvite(i) \/ AcceptApplication(i) \/ Decline(i)

PaysAgency(a, done) ==
    GrantAgency(a, done) \/ \E w \in Windows : PayAgency(a, w, done)

PaysHost(h, done) ==
    GrantHost(h, done) \/ \E b \in Bounds : PayHost(h, b, done)

Payments ==
    \E done \in 0..Writes :
        \/ "agencies" \in scope /\ \E a \in Agencies : PaysAgency(a, done)
        \/ "hosts" \in scope /\ \E h \in Account : PaysHost(h, done)

Next ==
    /\ \/ Membership \/ Payments \/ Pass
       \/ \E u \in Rooms : RecordGift(u)
       \/ \E a \in Agencies, w \in Windows : Preview(a, w)
       \/ \E p \in Policies : UpdatePolicy(p)
    /\ UNCHANGED scope

Spec == Init /\ [][Next]_vars

-----------------------------------------------------------------------------
(* Properties.                                                             *)

Paid == {aw \in Agencies \X Windows : periods[aw[1]][aw[2]].status = "paid"}

Earned(u) ==
    SumFunctionOnSet([aw \in Agencies \X Windows |-> periods[aw[1]][aw[2]].salary],
                     {aw \in Paid : ownerOf[aw[1]] = u})

Entries(u, status) ==
    {i \in DOMAIN payouts : payouts[i].user = u /\ payouts[i].status = status}

Recorded(entries) ==
    SumFunctionOnSet([i \in DOMAIN payouts |-> payouts[i].beans], entries)

\* A wallet holds exactly the commissions recorded as paid to its owner's
\* agencies and the payouts recorded as completed, through any crash: what
\* startup makes of a commission that was under way agrees with the wallet.
\* Besides these it may hold payouts a crash left pending in the records, which
\* nothing settles, and grants whose entry a crash kept from being written.
SalariesAreRecorded ==
    \A u \in Account :
        \E sent \in SUBSET Entries(u, "pending"), k \in 0..deaths :
            beans[u] = Earned(u) + Recorded(Entries(u, "completed") \cup sent) + k * Grant

Claims(g) == Cardinality({aw \in Paid : g \in periods[aw[1]][aw[2]].counted})

HostClaims(g) == Cardinality({i \in DOMAIN payouts : g \in payouts[i].counted})

\* A gift is paid for once to the agency and once to the host, however the
\* weeks and the periods asked for overlap; each crash inside a payment may
\* cost one more.
GiftsArePaidOnce ==
    \A g \in gifts : Claims(g) <= 1 + deaths /\ HostClaims(g) <= 1 + deaths

\* "A paid period is a historical accounting snapshot": no preview, change of
\* policy, later gift or restart changes it.
PaidIsHistory ==
    [][\A aw \in Paid : periods'[aw[1]][aw[2]] = periods[aw[1]][aw[2]]]_vars

\* Whoever gifts count for an agency for is a listed host of it or its owner: a
\* host who is not listed could never be paid, nor removed, nor join another
\* agency by application.  The owner is the exception, and an approved request
\* makes a listed host of another agency one: his new agency's list is empty,
\* so his gifts count for it while he himself is not paid for them.
MembersAreListed ==
    \A u \in Account : agencyOf[u] # NoAgency =>
        \/ u \in isHost /\ u \in hostIds[agencyOf[u]]
        \/ u = ownerOf[agencyOf[u]]
=============================================================================
