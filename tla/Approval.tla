------------------------------- MODULE Approval -------------------------------
(***************************************************************************)
(* The approval workflow of the admin panel (approvalEngine.js, and        *)
(* agencyApproval.js which hand-writes the same machine), the effects its  *)
(* domains apply on approval, and the registries those effects open: VIP   *)
(* memberships, diamond sellers and bans.  Handlers never yield, so each   *)
(* is one step.                                                            *)
(***************************************************************************)
EXTENDS Integers, Sequences, FiniteSets, FiniteSetsExt, Functions

CONSTANTS
    User, Request, Admin,
    Owner,        \* the admin whose role is OWNER
    Can,          \* permissions of each admin
    Sees,         \* countries of each admin
    CountryOf,    \* country of each user
    Domain,       \* the domains in play
    Rates,        \* commission rates, in percent
    SaleAmount,   \* Diamonds of a sale
    Start,        \* Diamonds of a new user
    Ceiling,      \* DIAMOND_BALANCE_CEILING
    MaxTimes,     \* bound on the approvals of all requests
    MaxSales,     \* bound on the sales of one seller
    None

Status == {"pending", "review", "approved", "rejected"}

Requests == [domain: Domain, user: User, status: Status]   \* of every file

ASSUME ApprovalAssumption ==
    /\ Owner \in Admin /\ IsFiniteSet(User)
    /\ Rates \subseteq 0 .. 30
    /\ {SaleAmount, Start, Ceiling, MaxTimes, MaxSales} \subseteq Nat
    /\ Start <= Ceiling
    /\ None \notin Nat /\ None \notin Requests

VARIABLES
    req,       \* the requests, of every domain's file
    users,     \* the fields of users.json an approval writes
    rows,      \* registry entries, in order of creation
    applied,   \* HISTORY: times the effect of a request was applied
    forced,    \* HISTORY: times the owner moved a request out of "approved"
    clamped,   \* HISTORY: Diamonds the ceiling took from a credit
    diverged   \* HISTORY: pairs of a registry and a user whose entries were
               \* touched by an owner's override or from outside of it

approvalVars == <<req, users, rows, applied, forced, clamped, diverged>>

\* actorCanAccessCountry and the permission check of a route.
MayAct(a, perms, u) ==
    /\ perms \cap Can[a] # {}
    /\ CountryOf[u] \in Sees[a]

\* "Owner may force any transition from any status".
From(a, status, expected) == status \in expected \/ a = Owner

Credit(u, amount) ==
    LET total == users[u].diamonds + amount IN
    /\ users' = [users EXCEPT ![u].diamonds = Min({total, Ceiling})]
    /\ clamped' = [clamped EXCEPT ![u] = @ + (total - Min({total, Ceiling}))]

-----------------------------------------------------------------------------
(* What approval does in each domain                                       *)

\* "none" where the registry gives the field no meaning.
NewRow(r, rate) ==
    rows' = Append(rows, [kind |-> req[r].domain, by |-> r,
                          user |-> req[r].user, status |-> "active",
                          appeal |-> "none", rate |-> rate, sold |-> 0])

ApproveRecharge(r) ==
    /\ req[r].domain = "recharge"
    /\ Credit(req[r].user, 1)
    /\ UNCHANGED rows

\* Mutant: a balance that no longer suffices is set to zero.
WithdrawClamped(r) ==
    /\ req[r].domain = "withdraw"
    /\ users' = [users EXCEPT ![req[r].user].diamonds = Max({0, @ - 1})]
    /\ UNCHANGED <<rows, clamped>>

ApproveWithdraw(r) ==
    /\ req[r].domain = "withdraw"
    /\ users[req[r].user].diamonds >= 1
    /\ users' = [users EXCEPT ![req[r].user].diamonds = @ - 1]
    /\ UNCHANGED <<rows, clamped>>

\* Every approval opens a new agency and points the owner at it.
ApproveAgency(r) ==
    /\ req[r].domain = "agency"
    /\ users' = [users EXCEPT ![req[r].user].agency = Len(rows) + 1]
    /\ NewRow(r, 0)
    /\ UNCHANGED clamped

\* Every approval publishes one more gift in the catalog.
ApproveGift(r) ==
    /\ req[r].domain = "gifts"
    /\ NewRow(r, 0)
    /\ UNCHANGED <<users, clamped>>

\* The entry of the same frame is replaced.
ApproveFrame(r) ==
    /\ req[r].domain = "frames"
    /\ users' = [users EXCEPT ![req[r].user].frame = TRUE]
    /\ UNCHANGED <<rows, clamped>>

ApproveNameEffect(r) ==
    /\ req[r].domain = "namefx"
    /\ users' = [users EXCEPT ![req[r].user].nameEffect = TRUE]
    /\ UNCHANGED <<rows, clamped>>

ApproveVip(r) ==
    /\ req[r].domain = "vip"
    /\ ~users[req[r].user].vip
    /\ NewRow(r, 0)
    /\ users' = [users EXCEPT ![req[r].user].vip = TRUE]
    /\ UNCHANGED clamped

\* Mutant: only the submission asks whether the user already is a seller.
SellerUnchecked(r) ==
    /\ req[r].domain = "seller"
    /\ \E rate \in Rates : NewRow(r, rate)
    /\ users' = [users EXCEPT ![req[r].user].seller = Len(rows) + 1]
    /\ UNCHANGED clamped

ApproveSeller(r) ==
    /\ req[r].domain = "seller"
    /\ users[req[r].user].seller = None
    /\ \E rate \in Rates : NewRow(r, rate)
    /\ users' = [users EXCEPT ![req[r].user].seller = Len(rows) + 1]
    /\ UNCHANGED clamped

ApproveBan(r) ==
    /\ req[r].domain = "ban"
    /\ ~users[req[r].user].banned
    /\ NewRow(r, 0)
    /\ users' = [users EXCEPT ![req[r].user].banned = TRUE]
    /\ UNCHANGED clamped

OnApprove(r) ==
    \/ ApproveRecharge(r) \/ ApproveWithdraw(r)
    \/ ApproveGift(r) \/ ApproveFrame(r) \/ ApproveNameEffect(r)
    \/ ApproveVip(r) \/ ApproveSeller(r) \/ ApproveBan(r)

-----------------------------------------------------------------------------
(* The workflow                                                            *)

\* validateSubmit of each domain.
ValidSubmit(d, u) ==
    CASE d = "vip" -> ~users[u].vip
      [] d = "seller" -> users[u].seller = None
      [] d = "ban" -> ~users[u].banned
      [] OTHER -> TRUE

Submit(a, r, d, u) ==
    /\ MayAct(a, {"submit"}, u)
    /\ req[r] = None
    /\ ValidSubmit(d, u)
    /\ req' = [req EXCEPT ![r] = [domain |-> d, user |-> u, status |-> "pending"]]
    /\ UNCHANGED <<users, rows, applied, forced, clamped, diverged>>

\* A request changes status; leaving "approved" is the owner's doing.
MoveTo(r, status) ==
    /\ req' = [req EXCEPT ![r].status = status]
    /\ forced' = [forced EXCEPT ![r] = @ + IF req[r].status = "approved"
                                           THEN 1 ELSE 0]

ToReview(a, r) ==
    /\ MayAct(a, {"review"}, req[r].user)
    /\ From(a, req[r].status, {"pending"})
    /\ MoveTo(r, "review")
    /\ UNCHANGED <<users, rows, applied, clamped, diverged>>

ToRejected(a, r) ==
    /\ MayAct(a, {"review", "approve"}, req[r].user)
    /\ From(a, req[r].status, {"pending", "review"})
    /\ MoveTo(r, "rejected")
    /\ UNCHANGED <<users, rows, applied, clamped, diverged>>

ToPending(a, r) ==
    /\ MayAct(a, {"submit", "review", "approve"}, req[r].user)
    /\ From(a, req[r].status, {"rejected"})
    /\ MoveTo(r, "pending")
    /\ UNCHANGED <<users, rows, applied, clamped, diverged>>

ToApproved(a, r) ==
    /\ MayAct(a, {"approve"}, req[r].user)
    /\ From(a, req[r].status, {"pending", "review"})
    /\ SumFunctionOnSet(applied, Request) < MaxTimes
    /\ MoveTo(r, "approved")
    /\ applied' = [applied EXCEPT ![r] = @ + 1]
    /\ UNCHANGED diverged

Review(a, r) == req[r].domain # "agency" /\ ToReview(a, r)

\* Approved is final for approve and reopen, of anyone; not for review and
\* reject, of the owner.
Approve(a, r) ==
    /\ req[r].domain # "agency"
    /\ req[r].status # "approved"
    /\ OnApprove(r)
    /\ ToApproved(a, r)

\* Mutant: reject has no guard on the status.
RejectAny(a, r) ==
    /\ req[r].domain # "agency"
    /\ MayAct(a, {"review", "approve"}, req[r].user)
    /\ req' = [req EXCEPT ![r].status = "rejected"]
    /\ UNCHANGED <<users, rows, applied, forced, clamped, diverged>>

Reject(a, r) == req[r].domain # "agency" /\ ToRejected(a, r)

Reopen(a, r) ==
    /\ req[r].domain # "agency"
    /\ req[r].status # "approved"
    /\ ToPending(a, r)

AgencyReview(a, r) == req[r].domain = "agency" /\ ToReview(a, r)
AgencyApprove(a, r) == ApproveAgency(r) /\ ToApproved(a, r)
AgencyReject(a, r) == req[r].domain = "agency" /\ ToRejected(a, r)
AgencyReopen(a, r) == req[r].domain = "agency" /\ ToPending(a, r)

Decide(a, r) ==
    \/ Review(a, r) \/ Approve(a, r) \/ Reject(a, r) \/ Reopen(a, r)
    \/ AgencyReview(a, r) \/ AgencyApprove(a, r)
    \/ AgencyReject(a, r) \/ AgencyReopen(a, r)

-----------------------------------------------------------------------------
(* VIP memberships                                                         *)

\* An entry is set to a status: the owner may do so from any.
SetRow(a, i, perm, kind, expected, status) ==
    /\ rows[i].kind = kind
    /\ MayAct(a, {perm}, rows[i].user)
    /\ From(a, rows[i].status, expected)
    /\ rows' = [rows EXCEPT ![i].status = status]
    /\ diverged' = diverged \cup
                     (IF rows[i].status \in expected THEN {}
                      ELSE {<<kind, rows[i].user>>})
    /\ UNCHANGED <<req, applied, forced, clamped>>

\* applyToUser
RenewVip(a, i) ==
    /\ SetRow(a, i, "approve", "vip", {"active"}, "active")
    /\ users' = [users EXCEPT ![rows[i].user].vip = TRUE]

ExpireVip(a, i) ==
    /\ SetRow(a, i, "approve", "vip", {"active"}, "expired")
    /\ users' = [users EXCEPT ![rows[i].user].vip = FALSE]

\* The sweep that finds the membership's time is up.
SweepVip(i) ==
    /\ rows[i].kind = "vip" /\ rows[i].status = "active"
    /\ rows' = [rows EXCEPT ![i].status = "expired"]
    /\ users' = [users EXCEPT ![rows[i].user].vip = FALSE]
    /\ UNCHANGED <<req, applied, forced, clamped, diverged>>

-----------------------------------------------------------------------------
(* Diamond sellers                                                         *)

SuspendSeller(a, i) ==
    /\ SetRow(a, i, "suspend", "seller", {"active"}, "suspended")
    /\ UNCHANGED users

RestoreSeller(a, i) ==
    /\ SetRow(a, i, "suspend", "seller", {"suspended"}, "active")
    /\ UNCHANGED users

SetCommission(a, i, rate) ==
    /\ rows[i].kind = "seller"
    /\ MayAct(a, {"approve"}, rows[i].user)
    /\ rows' = [rows EXCEPT ![i].rate = rate]
    /\ UNCHANGED <<req, users, applied, forced, clamped, diverged>>

\* The seller's commission is rounded down; a seller may buy from himself.
Sell(a, i, buyer) ==
    LET seller == rows[i].user
        total == users[buyer].diamonds + SaleAmount
        paid == Min({total, Ceiling})
    IN
    /\ rows[i].kind = "seller"
    /\ MayAct(a, {"submit"}, seller)
    /\ From(a, rows[i].status, {"active"})
    /\ rows[i].sold < MaxSales * SaleAmount
    /\ users' = [u \in User |->
                   [users[u] EXCEPT
                      !.diamonds = IF u = buyer THEN paid ELSE @,
                      !.beans = IF u = seller
                                THEN @ + ((SaleAmount * rows[i].rate) \div 100)
                                ELSE @]]
    /\ clamped' = [clamped EXCEPT ![buyer] = @ + (total - paid)]
    /\ rows' = [rows EXCEPT ![i].sold = @ + SaleAmount]
    /\ UNCHANGED <<req, applied, forced, diverged>>

-----------------------------------------------------------------------------
(* Bans and appeals                                                        *)

SetBanned(u, banned) == users' = [users EXCEPT ![u].banned = banned]

RestoreBan(a, i) ==
    /\ SetRow(a, i, "approve", "ban", {"active"}, "restored")
    /\ SetBanned(rows[i].user, FALSE)

ReopenBan(a, i) ==
    /\ ~users[rows[i].user].banned
    /\ SetRow(a, i, "approve", "ban", {"restored"}, "active")
    /\ SetBanned(rows[i].user, TRUE)

SetAppeal(a, i, perm, expected, appeal) ==
    /\ rows[i].kind = "ban"
    /\ MayAct(a, {perm}, rows[i].user)
    /\ From(a, rows[i].appeal, expected)
    /\ rows' = [rows EXCEPT ![i].appeal = appeal]
    /\ UNCHANGED <<req, users, applied, forced, clamped, diverged>>

AppealBan(i) ==
    /\ rows[i].kind = "ban"
    /\ rows[i].status = "active"
    /\ rows[i].appeal \notin {"pending", "under_review"}
    /\ rows' = [rows EXCEPT ![i].appeal = "pending"]
    /\ UNCHANGED <<req, users, applied, forced, clamped, diverged>>

ReviewAppeal(a, i) == SetAppeal(a, i, "review", {"pending"}, "under_review")

RejectAppeal(a, i) ==
    SetAppeal(a, i, "decide", {"pending", "under_review"}, "rejected")

\* Asks for the state of the appeal, not for the state of the ban: a ban
\* restored meanwhile is restored again, with the user's flag.
GrantAppeal(a, i) ==
    /\ rows[i].kind = "ban"
    /\ MayAct(a, {"decide"}, rows[i].user)
    /\ From(a, rows[i].appeal, {"pending", "under_review"})
    /\ rows' = [rows EXCEPT ![i].appeal = "restored", ![i].status = "restored"]
    /\ SetBanned(rows[i].user, FALSE)
    /\ diverged' = diverged \cup (IF rows[i].status = "active" THEN {}
                                  ELSE {<<"ban", rows[i].user>>})
    /\ UNCHANGED <<req, applied, forced, clamped>>

\* The older endpoint of the user list knows nothing of the registry.
ToggleBan(a, u) ==
    /\ MayAct(a, {"ban"}, u)
    /\ \E banned \in BOOLEAN : SetBanned(u, banned)
    /\ diverged' = diverged \cup {<<"ban", u>>}
    /\ UNCHANGED <<req, rows, applied, forced, clamped>>

-----------------------------------------------------------------------------
ApprovalInit ==
    /\ req = [r \in Request |-> None]
    /\ users = [u \in User |-> [diamonds |-> Start, beans |-> 0,
                                agency |-> None, frame |-> FALSE,
                                nameEffect |-> FALSE, vip |-> FALSE,
                                seller |-> None, banned |-> FALSE]]
    /\ rows = <<>>
    /\ applied = [r \in Request |-> 0]
    /\ forced = [r \in Request |-> 0]
    /\ clamped = [u \in User |-> 0]
    /\ diverged = {}

RowStep(a, i) ==
    \/ RenewVip(a, i) \/ ExpireVip(a, i) \/ SweepVip(i)
    \/ SuspendSeller(a, i) \/ RestoreSeller(a, i)
    \/ \E rate \in Rates : SetCommission(a, i, rate)
    \/ \E buyer \in User : Sell(a, i, buyer)
    \/ RestoreBan(a, i) \/ ReopenBan(a, i)
    \/ AppealBan(i) \/ ReviewAppeal(a, i)
    \/ RejectAppeal(a, i) \/ GrantAppeal(a, i)

ApprovalNext ==
    \E a \in Admin :
        \/ \E r \in Request, d \in Domain, u \in User : Submit(a, r, d, u)
        \/ \E r \in Request : req[r] # None /\ Decide(a, r)
        \/ \E i \in DOMAIN rows : RowStep(a, i)
        \/ \E u \in User : ToggleBan(a, u)

ApprovalSpec == ApprovalInit /\ [][ApprovalNext]_approvalVars

-----------------------------------------------------------------------------
(* Properties                                                              *)

Applications(d) ==
    SumFunctionOnSet(applied, {r \in Request : req[r] # None /\ req[r].domain = d})

\* Diamonds the users hold, with those the ceiling took, and Diamonds sold.
Held == SumFunctionOnSet([u \in User |-> users[u].diamonds + clamped[u]], User)
Sold == SumFunctionOnSet([i \in DOMAIN rows |-> rows[i].sold], DOMAIN rows)

Opened(u, kind, states) ==
    {i \in DOMAIN rows : rows[i].user = u /\ rows[i].kind = kind
                            /\ rows[i].status \in states}

\* No sequence of reviews, rejections, reopenings and approvals by any admins
\* applies the effect of a request again, unless the owner moved it out of
\* "approved" in between: staff alone can not pay a request twice.
AppliedAgainOnlyByOwner ==
    \A r \in Request : applied[r] <= 1 + forced[r]

\* The Diamonds of all users are what approvals and sales moved, less what the
\* ceiling cut off: no decision is forgotten, paid twice or paid in part.
DiamondsAreDecided ==
    Held + Applications("withdraw")
      = Start * Cardinality(User) + Applications("recharge") + Sold

\* However many requests for one user are open at once: his profile points at
\* his one seller entry, whatever the owner forces; he shows VIP exactly while
\* one membership is in force, and is banned exactly while one ban is, unless
\* the owner overrode a status, the older endpoint set the flag, or an appeal
\* was granted for a ban already lifted.
OneRecordPerUser ==
    \A u \in User :
        /\ Opened(u, "seller", {"active", "suspended"}) =
             IF users[u].seller = None THEN {} ELSE {users[u].seller}
        /\ <<"vip", u>> \notin diverged =>
             Cardinality(Opened(u, "vip", {"active"})) =
               IF users[u].vip THEN 1 ELSE 0
        /\ <<"ban", u>> \notin diverged =>
             Cardinality(Opened(u, "ban", {"active"})) =
               IF users[u].banned THEN 1 ELSE 0
=============================================================================
