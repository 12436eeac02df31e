----------------------- MODULE Administration_proofs -----------------------
(***************************************************************************)
(* Theorems about what admins decide and pay: agencies and salaries, and   *)
(* the approval workflow.                                                  *)
(***************************************************************************)
EXTENDS AgencySalary, Approval, Sums

-----------------------------------------------------------------------------
(***************************************************************************)
(* Agencies and salaries, for any users, agencies, weeks, periods, policies *)
(* and number of crashes.                                                  *)
(*                                                                         *)
(* GiftsArePaidOnce is not inductive: it has to say of every gift whether  *)
(* the next payment still counts it.  A gift after the last cycle reset    *)
(* has been paid for by crashed payments only; a gift before it once more  *)
(* than that, and is never counted again.                                  *)
(***************************************************************************)

\* Members and owners, the lists of the agencies and the pending invitations.
\* MembersAreListed is not inductive: a new agency starts with an empty list, so
\* nobody may be in an agency, or invited to it, before it is founded.
Members ==
    /\ agencyOf \in [Account -> Agencies \cup {NoAgency}]
    /\ ownerOf \in [Agencies -> Account \cup {NoOwner}]
    /\ hostIds \in [Agencies -> SUBSET Account]
    /\ invites \subseteq [host: Account, agency: Agencies, by: {"agency", "host"}]
    /\ \A u \in Account : agencyOf[u] # NoAgency => Founded(agencyOf[u])
    /\ \A i \in invites : Founded(i.agency)
    /\ MembersAreListed

\* Every gift was sent by now, in the room of a member of an agency.
GiftTyped(g) ==
    g.host \in Account /\ g.agency \in Agencies /\ g.at \in Int /\ g.at <= now

Clocked ==
    /\ now \in Int /\ deaths \in Nat
    /\ \A g \in gifts : GiftTyped(g)

\* The paid weeks that count a gift, and whether a week may still count it.
ClaimSet(g) ==
    {aw \in Paid : g \in periods[aw[1]][aw[2]].counted}

Countable(g) == g.at > resets[g.agency]

AgencyPaid ==
    /\ periods = [a \in Agencies |-> [w \in Windows |-> periods[a][w]]]
    /\ resets \in [Agencies -> Int]
    /\ \A a \in Agencies, w \in Windows : periods[a][w].counted \subseteq gifts
    /\ \A g \in gifts : /\ Claims(g) <= 1 + deaths
                        /\ Countable(g) => Claims(g) <= deaths

\* The same for the payments of a host.
HostClaimSet(g) == {i \in DOMAIN payouts : g \in payouts[i].counted}

HostCountable(g) == g.at > hostResets[g.host][g.agency]

HostPaid ==
    /\ \E S : payouts \in Seq(S)
    /\ hostResets \in [Account -> [Agencies -> Int]]
    /\ \A i \in DOMAIN payouts : payouts[i].counted \subseteq gifts
    /\ \A g \in gifts : /\ HostClaims(g) <= 1 + deaths
                        /\ HostCountable(g) => HostClaims(g) <= deaths

SalaryInv == Members /\ Clocked /\ AgencyPaid /\ HostPaid

-----------------------------------------------------------------------------
\* Sets that grow by one element at most.
LEMMA OneMore ==
    ASSUME NEW C, IsFiniteSet(C), NEW x, NEW D, D \subseteq C \cup {x}
    PROVE  /\ IsFiniteSet(D) /\ Cardinality(D) \in Nat
           /\ Cardinality(D) <= Cardinality(C) + 1
<1>1. /\ IsFiniteSet(C \cup {x})
      /\ Cardinality(C \cup {x}) = IF x \in C THEN Cardinality(C) ELSE Cardinality(C) + 1
  BY FS_AddElement
<1>2. IsFiniteSet(D) /\ Cardinality(D) <= Cardinality(C \cup {x})
  BY <1>1, FS_Subset
<1>3. Cardinality(D) \in Nat /\ Cardinality(C) \in Nat /\ Cardinality(C \cup {x}) \in Nat
  BY <1>1, <1>2, FS_CardinalityType
<1> QED BY <1>1, <1>2, <1>3

LEMMA NoMore ==
    ASSUME NEW C, IsFiniteSet(C), NEW D, D \subseteq C
    PROVE  /\ Cardinality(D) \in Nat /\ Cardinality(C) \in Nat
           /\ Cardinality(D) <= Cardinality(C)
BY FS_Subset, FS_CardinalityType

\* The claims on a gift are finitely many.
LEMMA ClaimsFinite == \A g : IsFiniteSet(ClaimSet(g))
<1>1. IsFiniteSet(Agencies \X Windows)
  BY SalaryAssumption, FS_Product
<1> QED BY <1>1, FS_Subset DEF Paid, ClaimSet

LEMMA HostClaimsFinite ==
    ASSUME NEW S, payouts \in Seq(S) PROVE \A g : IsFiniteSet(HostClaimSet(g))
<1>1. IsFiniteSet(1..Len(payouts))
  BY FS_Interval
<1>2. DOMAIN payouts = 1..Len(payouts)
  OBVIOUS
<1> QED BY <1>1, <1>2, FS_Subset DEF HostClaimSet

\* Nobody is in an agency, and nothing was paid.
LEMMA SalaryInitInv == Init => SalaryInv
<1> SUFFICES ASSUME Init PROVE SalaryInv
  OBVIOUS
<1>1. Members
  BY SalaryAssumption DEF Init, Members, MembersAreListed, Founded
<1>2. Clocked
  BY DEF Init, Clocked
<1>3. AgencyPaid
  BY DEF Init, AgencyPaid, Never, Pending
<1>4. HostPaid
  <2>1. payouts \in Seq({})
    BY DEF Init
  <2> QED BY <2>1 DEF Init, HostPaid, Never
<1> QED BY <1>1, <1>2, <1>3, <1>4 DEF SalaryInv

-----------------------------------------------------------------------------
(* Membership.                                                             *)

\* They touch neither gifts nor money.
LEMMA MembershipFrame == Membership => UNCHANGED others
BY DEF Membership, Founds, CreateAgency, ApproveFounding, CreateRoom, Invite, Apply,
       Joins, AssignHost, RemoveHost, AcceptInvite, AcceptApplication, Decline

\* A host who joins is put in the list of his new agency.
LEMMA JoinsKeeps ==
    ASSUME Members, NEW h \in Account, NEW a \in Agencies, Founded(a), Joins(h, a),
           invites' \subseteq invites
    PROVE  Members'
<1>1. /\ agencyOf' = [agencyOf EXCEPT ![h] = a] /\ ownerOf' = ownerOf
      /\ isHost' = isHost \cup {h} /\ hostIds' = [hostIds EXCEPT ![a] = @ \cup {h}]
  BY DEF Joins
<1>2. ASSUME NEW u \in Account, agencyOf'[u] # NoAgency
      PROVE  /\ Founded(agencyOf'[u])
             /\ \/ u \in isHost' /\ u \in hostIds'[agencyOf'[u]]
                \/ u = ownerOf'[agencyOf'[u]]
  <2>1. CASE u = h
    BY <1>1, <2>1 DEF Members
  <2>2. CASE u # h
    BY <1>1, <1>2, <2>2 DEF Members, MembersAreListed
  <2> QED BY <2>1, <2>2
<1>3. \A i \in invites' : Founded(i.agency)
  BY DEF Members
<1> QED BY <1>1, <1>2, <1>3 DEF Members, MembersAreListed, Founded

\* A founder is the owner of the agency he is in; nobody was in it before.
LEMMA FoundsKeeps ==
    ASSUME Members, NEW v \in Account, NEW a \in Agencies, Founds(v, a)
    PROVE  Members'
<1>1. /\ agencyOf' = [agencyOf EXCEPT ![v] = a] /\ ownerOf[a] = NoOwner
      /\ ownerOf' = [ownerOf EXCEPT ![a] = v] /\ hostIds' = [hostIds EXCEPT ![a] = {}]
      /\ UNCHANGED <<isHost, invites>>
  BY DEF Founds, Founded
<1>2. v # NoOwner /\ a # NoAgency
  BY SalaryAssumption
<1>3. ASSUME NEW u \in Account, agencyOf'[u] # NoAgency
      PROVE  /\ ownerOf'[agencyOf'[u]] # NoOwner
             /\ \/ u \in isHost' /\ u \in hostIds'[agencyOf'[u]]
                \/ u = ownerOf'[agencyOf'[u]]
  <2>1. CASE u = v
    BY <1>1, <1>2, <2>1 DEF Members
  <2>2. CASE u # v
    <3>1. agencyOf'[u] = agencyOf[u] /\ agencyOf[u] \in Agencies /\ agencyOf[u] # a
      BY <1>1, <1>3, <2>2 DEF Members, Founded
    <3> QED BY <1>1, <1>3, <3>1 DEF Members, MembersAreListed, Founded
  <2> QED BY <2>1, <2>2
<1>4. ASSUME NEW i \in invites PROVE ownerOf'[i.agency] # NoOwner
  <2>1. i.agency \in Agencies /\ ownerOf[i.agency] # NoOwner
    BY DEF Members, Founded
  <2> QED BY <1>1, <1>2, <2>1 DEF Members
<1>5. /\ agencyOf' \in [Account -> Agencies \cup {NoAgency}]
      /\ ownerOf' \in [Agencies -> Account \cup {NoOwner}]
      /\ hostIds' \in [Agencies -> SUBSET Account]
  BY <1>1 DEF Members
<1> QED BY <1>1, <1>3, <1>4, <1>5 DEF Members, MembersAreListed, Founded

LEMMA LeavesKeeps ==
    ASSUME Members, NEW h \in Account, NEW a \in Agencies, RemoveHost(h, a)
    PROVE  Members'
<1>1. /\ ownerOf[a] # h /\ UNCHANGED <<ownerOf, invites>>
      /\ hostIds' = [hostIds EXCEPT ![a] = @ \ {h}]
      /\ IF agencyOf[h] = a
         THEN agencyOf' = [agencyOf EXCEPT ![h] = NoAgency] /\ isHost' = isHost \ {h}
         ELSE UNCHANGED <<agencyOf, isHost>>
  BY DEF RemoveHost, Leaves
<1>2. ASSUME NEW u \in Account, agencyOf'[u] # NoAgency
      PROVE  /\ agencyOf'[u] = agencyOf[u]
             /\ \/ u \in isHost' /\ u \in hostIds'[agencyOf'[u]]
                \/ u = ownerOf'[agencyOf'[u]]
  <2>1. agencyOf'[u] = agencyOf[u] /\ agencyOf[u] \in Agencies
    BY <1>1, <1>2 DEF Members
  <2>2. \/ u \in isHost /\ u \in hostIds[agencyOf[u]]
        \/ u = ownerOf[agencyOf[u]]
    BY <1>2, <2>1 DEF Members, MembersAreListed
  <2>3. u = h => agencyOf[h] # a
    BY <1>1, <1>2 DEF Members
  <2> QED BY <1>1, <2>1, <2>2, <2>3 DEF Members
<1>3. agencyOf' \in [Account -> Agencies \cup {NoAgency}]
  BY <1>1 DEF Members
<1>4. hostIds' \in [Agencies -> SUBSET Account]
  BY <1>1 DEF Members
<1> QED BY <1>1, <1>2, <1>3, <1>4 DEF Members, MembersAreListed, Founded

LEMMA MembersKept ==
    ASSUME Members, [Next]_vars PROVE Members'
<1>1. CASE UNCHANGED membership
  BY <1>1 DEF Members, MembersAreListed, Founded, membership
<1>2. ASSUME NEW h \in Account, NEW a \in Agencies, Invite(h, a) \/ Apply(h, a)
      PROVE  Members'
  <2>1. PICK by \in {"agency", "host"} :
           invites' = invites \cup {[host |-> h, agency |-> a, by |-> by]}
    BY <1>2 DEF Invite, Apply
  <2>2. Founded(a) /\ UNCHANGED <<agencyOf, isHost, ownerOf, hostIds>>
    BY <1>2 DEF Invite, Apply
  <2>3. \A i \in invites' : Founded(i.agency)
    BY <2>1, <2>2 DEF Members
  <2> QED BY <2>1, <2>2, <2>3 DEF Members, MembersAreListed, Founded
<1>3. ASSUME NEW h \in Account, NEW a \in Agencies, AssignHost(h, a)
      PROVE  Members'
  BY <1>3, JoinsKeeps DEF AssignHost
<1>4. ASSUME NEW i \in invites, AcceptInvite(i) \/ AcceptApplication(i)
      PROVE  Members'
  <2>1. /\ i.host \in Account /\ i.agency \in Agencies /\ Founded(i.agency)
        /\ invites' \subseteq invites
    BY <1>4 DEF Members, AcceptInvite, AcceptApplication
  <2> QED BY <1>4, <2>1, JoinsKeeps DEF AcceptInvite, AcceptApplication
<1>5. ASSUME NEW i \in invites, Decline(i) PROVE Members'
  BY <1>5 DEF Members, MembersAreListed, Founded, Decline
<1>6. ASSUME NEW u \in Account, CreateRoom(u) PROVE Members'
  BY <1>6 DEF Members, MembersAreListed, Founded, CreateRoom
<1>7. ASSUME NEW u \in Account, NEW a \in Agencies,
             CreateAgency(u, a) \/ ApproveFounding(u, a)
      PROVE  Members'
  BY <1>7, FoundsKeeps DEF CreateAgency, ApproveFounding
<1>8. Membership => Members'
  <2>1. Drawn \subseteq Account
    BY SalaryAssumption
  <2> QED BY <1>2, <1>3, <1>4, <1>5, <1>6, <1>7, <2>1, LeavesKeeps DEF Membership
<1>9. Payments => UNCHANGED membership
  BY DEF Payments, PaysAgency, PaysHost, GrantAgency, GrantHost, PayAgency, PayHost
<1>10. ASSUME NEW h, RecordGift(h) PROVE UNCHANGED membership
  BY <1>10 DEF RecordGift
<1>11. ASSUME NEW a, NEW w, Preview(a, w) PROVE UNCHANGED membership
  BY <1>11 DEF Preview
<1>12. ASSUME NEW p, UpdatePolicy(p) PROVE UNCHANGED membership
  BY <1>12 DEF UpdatePolicy
<1>13. Pass \/ UNCHANGED vars => UNCHANGED membership
  BY DEF Pass, vars
<1> QED BY <1>1, <1>8, <1>9, <1>10, <1>11, <1>12, <1>13 DEF Next

-----------------------------------------------------------------------------
(* The clock and the gifts.                                                *)

\* Steps that send no gift; a payment counts its death.
LEMMA GiftsKept ==
    ASSUME [Next]_vars PROVE UNCHANGED gifts \/ \E u \in Account : RecordGift(u)
BY MembershipFrame, SalaryAssumption
   DEF Next, vars, others, Payments, PaysAgency, PaysHost,
       GrantAgency, GrantHost, PayAgency, PayHost, Preview, UpdatePolicy, Pass

LEMMA Dying ==
    ASSUME Clocked, [Next]_vars PROVE deaths' \in Nat /\ deaths' >= deaths
<1>1. ASSUME NEW done \in 0..Writes, Die(done)
      PROVE  deaths' \in Nat /\ deaths' >= deaths
  BY <1>1 DEF Die, Clocked
<1>2. Payments => deaths' \in Nat /\ deaths' >= deaths
  BY <1>1 DEF Payments, PaysAgency, PaysHost, GrantAgency, GrantHost, PayAgency, PayHost
<1> QED BY <1>2, MembershipFrame
        DEF Clocked, Next, vars, others, Preview, UpdatePolicy, Pass, RecordGift

LEMMA Ticking ==
    ASSUME Clocked, [Next]_vars PROVE now' \in Int /\ now' >= now
<1>1. Payments => now' = now
  BY DEF Payments, PaysAgency, PaysHost, GrantAgency, GrantHost, PayAgency, PayHost
<1> QED BY <1>1, MembershipFrame
        DEF Clocked, Next, vars, others, Preview, UpdatePolicy, Pass, RecordGift

LEMMA ClockKept ==
    ASSUME Members, Clocked, [Next]_vars PROVE Clocked'
<1>1. ASSUME NEW g \in gifts PROVE GiftTyped(g)'
  BY Ticking DEF Clocked, GiftTyped
<1>2. ASSUME NEW u \in Account, RecordGift(u), NEW g \in gifts' PROVE GiftTyped(g)'
  BY <1>1, <1>2 DEF RecordGift, Members, Clocked, GiftTyped
<1> QED BY <1>1, <1>2, Ticking, Dying, GiftsKept DEF Clocked

-----------------------------------------------------------------------------
(* The commission of an agency.                                            *)

\* Steps of others.
LEMMA AgencyFrame ==
    ASSUME Clocked, AgencyPaid, UNCHANGED <<periods, resets, gifts>>,
           deaths' \in Nat, deaths' >= deaths
    PROVE  AgencyPaid'
<1>1. ASSUME NEW g \in gifts
      PROVE  /\ Claims(g)' = Claims(g) /\ Claims(g) \in Nat
             /\ Countable(g)' <=> Countable(g)
  BY ClaimsFinite, FS_CardinalityType DEF Claims, ClaimSet, Paid, Countable
<1> QED BY <1>1 DEF AgencyPaid, Clocked

\* A new gift is in no paid week.
LEMMA GiftUnpaid ==
    ASSUME Clocked, AgencyPaid, NEW h \in Account, RecordGift(h)
    PROVE  AgencyPaid'
<1>1. UNCHANGED <<periods, resets, deaths>> /\ gifts \subseteq gifts'
  BY DEF RecordGift, agencyPay
<1>2. ASSUME NEW g \in gifts'
      PROVE  Claims(g)' <= 1 + deaths /\ (Countable(g)' => Claims(g)' <= deaths)
  <2>1. CASE g \in gifts
    BY <1>1, <2>1 DEF AgencyPaid, Claims, Paid, Countable
  <2>2. CASE g \notin gifts
    <3>1. ClaimSet(g) = {}
      BY <2>2 DEF AgencyPaid, Paid, ClaimSet
    <3>2. Claims(g)' = 0
      BY <1>1, <3>1, FS_EmptySet DEF Claims, ClaimSet, Paid
    <3> QED BY <3>2 DEF Clocked
  <2> QED BY <2>1, <2>2
<1> QED BY <1>1, <1>2 DEF AgencyPaid

\* A record shown again: a paid one stays, another claims nothing.
LEMMA PreviewKeeps ==
    ASSUME Clocked, AgencyPaid, NEW a \in Agencies, NEW w \in Windows,
           Preview(a, w)
    PROVE  AgencyPaid'
<1>0. UNCHANGED <<resets, gifts, deaths>>
  BY DEF Preview, hostPay
<1>1. /\ periods' = [b \in Agencies |-> [v \in Windows |-> periods'[b][v]]]
      /\ \A b \in Agencies, v \in Windows :
            \/ periods'[b][v] = periods[b][v]
            \/ periods'[b][v] = Pending
  BY DEF Preview, SetRecord, CalculateRecord, AgencyPaid
<1>2. ASSUME NEW g \in gifts
      PROVE  Claims(g)' <= Claims(g) /\ Claims(g)' \in Nat /\ Claims(g) \in Nat
  <2>1. ClaimSet(g)' \subseteq ClaimSet(g)
    BY <1>1 DEF Paid, ClaimSet, Pending
  <2> QED BY <2>1, ClaimsFinite, NoMore DEF Claims, ClaimSet, Paid
<1>3. ASSUME NEW g \in gifts
      PROVE  Claims(g)' <= 1 + deaths /\ (Countable(g)' => Claims(g)' <= deaths)
  BY <1>0, <1>2 DEF AgencyPaid, Countable, Clocked
<1>4. \A b \in Agencies, v \in Windows : periods'[b][v].counted \subseteq gifts
  <2>1. Pending.counted = {}
    BY DEF Pending
  <2>2. \A b \in Agencies, v \in Windows : periods[b][v].counted \subseteq gifts
    BY DEF AgencyPaid
  <2> QED BY <1>1, <2>1, <2>2
<1> QED BY <1>0, <1>1, <1>3, <1>4 DEF AgencyPaid

\* A payment claims countable gifts once, and none of them can be counted
\* again, unless it died.
LEMMA PayAgencyKeeps ==
    ASSUME Clocked, AgencyPaid, NEW a \in Agencies, NEW w \in Windows,
           NEW done \in 0..Writes, PayAgency(a, w, done)
    PROVE  AgencyPaid'
<1> PICK r : /\ r.counted = Counted(a, w)
             /\ SetRecord(a, w, IF done = Writes THEN r ELSE Reconcile(r, done >= 2))
  <2> DEFINE q == [status |-> "paid", counted |-> Counted(a, w),
                   salary |-> CalculateCommission(Achieved(a, w))]
  <2>1. SetRecord(a, w, IF done = Writes THEN q ELSE Reconcile(q, done >= 2))
    BY DEF PayAgency
  <2>2. q.counted = Counted(a, w)
    OBVIOUS
  <2> QED BY <2>1, <2>2
<1>0. /\ UNCHANGED gifts /\ done \in Nat
      /\ deaths' = (IF done = Writes THEN deaths ELSE deaths + 1)
      /\ ResetCycle(a, done)
  BY DEF PayAgency, Die
<1>1. /\ periods' = [b \in Agencies |-> [v \in Windows |-> periods'[b][v]]]
      /\ \A b \in Agencies, v \in Windows : <<b, v>> # <<a, w>> =>
            periods'[b][v] = periods[b][v]
      /\ periods'[a][w] \in {r, Pending}
      /\ done < 2 => periods'[a][w] = Pending
  <2> DEFINE q == IF done = Writes THEN r ELSE Reconcile(r, done >= 2)
  <2>1. q \in {r, Pending} /\ (done < 2 => q = Pending)
    BY <1>0 DEF Reconcile, Writes
  <2>2. periods' = [periods EXCEPT ![a] = [@ EXCEPT ![w] = q]]
    BY DEF SetRecord
  <2>3. periods = [b \in Agencies |-> [v \in Windows |-> periods[b][v]]]
    BY DEF AgencyPaid
  <2> HIDE DEF q
  <2>4. /\ DOMAIN periods' = Agencies /\ DOMAIN periods = Agencies
        /\ \A b \in Agencies : b # a => periods'[b] = periods[b]
        /\ periods'[a] = [periods[a] EXCEPT ![w] = q]
    BY <2>2, <2>3
  <2>5. \A b \in Agencies : periods[b] = [v \in Windows |-> periods[b][v]]
    BY <2>3
  <2>6. /\ periods'[a] = [v \in Windows |-> periods'[a][v]] /\ periods'[a][w] = q
        /\ \A v \in Windows : v # w => periods'[a][v] = periods[a][v]
    BY <2>4, <2>5
  <2>7. \A b \in Agencies : periods'[b] = [v \in Windows |-> periods'[b][v]]
    BY <2>4, <2>5, <2>6
  <2>8. periods' = [b \in Agencies |-> periods'[b]]
    BY <2>2, <2>3
  <2>9. periods' = [b \in Agencies |-> [v \in Windows |-> periods'[b][v]]]
    BY <2>7, <2>8
  <2> QED BY <2>1, <2>4, <2>6, <2>9
<1>2. ASSUME NEW g \in gifts
      PROVE  /\ Claims(g) \in Nat /\ Claims(g)' \in Nat
             /\ Claims(g)' <= Claims(g) + 1
             /\ g \notin Counted(a, w) \/ done < 2 => Claims(g)' <= Claims(g)
  <2>1. ClaimSet(g)' \subseteq ClaimSet(g) \cup {<<a, w>>}
    BY <1>1 DEF Paid, ClaimSet
  <2>2. g \notin Counted(a, w) \/ done < 2 => ClaimSet(g)' \subseteq ClaimSet(g)
    BY <1>1 DEF Paid, ClaimSet, Pending
  <2>3. /\ Claims(g) = Cardinality(ClaimSet(g))
        /\ Claims(g)' = Cardinality(ClaimSet(g)')
    BY DEF Claims, ClaimSet
  <2>4. IsFiniteSet(ClaimSet(g)) /\ Cardinality(ClaimSet(g)) \in Nat
    BY ClaimsFinite, FS_CardinalityType
  <2>5. /\ Cardinality(ClaimSet(g)') \in Nat
        /\ Cardinality(ClaimSet(g)') <= Cardinality(ClaimSet(g)) + 1
    BY <2>1, <2>4, OneMore
  <2>6. g \notin Counted(a, w) \/ done < 2 =>
            Cardinality(ClaimSet(g)') <= Cardinality(ClaimSet(g))
    BY <2>2, <2>4, NoMore
  <2> QED BY <2>3, <2>4, <2>5, <2>6
<1>3. ASSUME NEW g \in gifts
      PROVE  /\ g \in Counted(a, w) => g.agency = a /\ Countable(g)
             /\ Countable(g)' => Countable(g)
             /\ done >= 3 /\ g.agency = a => ~Countable(g)'
  BY <1>0 DEF Counted, Countable, ResetCycle, AgencyPaid, Clocked, GiftTyped
<1>4. ASSUME NEW g \in gifts
      PROVE  Claims(g)' <= 1 + deaths' /\ (Countable(g)' => Claims(g)' <= deaths')
  <2>1. Claims(g) <= 1 + deaths /\ (Countable(g) => Claims(g) <= deaths)
    BY DEF AgencyPaid
  <2>2. deaths \in Nat
    BY DEF Clocked
  <2>3. CASE g \in Counted(a, w)
    BY <1>0, <1>2, <1>3, <2>1, <2>2, <2>3 DEF Writes
  <2>4. CASE g \notin Counted(a, w)
    BY <1>0, <1>2, <1>3, <2>1, <2>2, <2>4
  <2> QED BY <2>3, <2>4
<1>5. resets' \in [Agencies -> Int]
  BY <1>0 DEF ResetCycle, AgencyPaid, Clocked
<1>6. ASSUME NEW b \in Agencies, NEW v \in Windows
      PROVE  periods'[b][v].counted \subseteq gifts'
  <2>1. Counted(a, w) \subseteq gifts
    BY DEF Counted
  <2> QED BY <1>0, <1>1, <2>1 DEF AgencyPaid, Pending
<1> QED BY <1>0, <1>1, <1>4, <1>5, <1>6 DEF AgencyPaid

LEMMA AgencyKept ==
    ASSUME Clocked, AgencyPaid, [Next]_vars PROVE AgencyPaid'
<1>1. CASE UNCHANGED <<periods, resets, gifts>>
  BY <1>1, Dying, AgencyFrame
<1>2. ASSUME NEW h \in Account, NEW done, PaysHost(h, done)
      PROVE  UNCHANGED <<periods, resets, gifts>>
  BY <1>2 DEF PaysHost, GrantHost, PayHost, agencyPay
<1>3. ASSUME NEW a \in Agencies, NEW done \in 0..Writes, PaysAgency(a, done)
      PROVE  AgencyPaid'
  <2>1. CASE GrantAgency(a, done)
    BY <1>1, <2>1 DEF GrantAgency, agencyPay
  <2> QED BY <1>3, <2>1, PayAgencyKeeps DEF PaysAgency
<1>4. Membership \/ Pass \/ UNCHANGED vars => UNCHANGED <<periods, resets, gifts>>
  BY MembershipFrame DEF others, Pass, vars, agencyPay
<1>5. ASSUME NEW p, UpdatePolicy(p) PROVE UNCHANGED <<periods, resets, gifts>>
  BY <1>5 DEF UpdatePolicy
<1> QED BY <1>1, <1>2, <1>3, <1>4, <1>5, GiftUnpaid, PreviewKeeps, SalaryAssumption
        DEF Next, Payments

-----------------------------------------------------------------------------
(* The salary of a host.                                                   *)

LEMMA HostFrame ==
    ASSUME Clocked, HostPaid, UNCHANGED <<hostPay, gifts>>,
           deaths' \in Nat, deaths' >= deaths
    PROVE  HostPaid'
<1>1. ASSUME NEW g \in gifts
      PROVE  /\ HostClaims(g)' = HostClaims(g) /\ HostClaims(g) \in Nat
             /\ HostCountable(g)' <=> HostCountable(g)
  BY HostClaimsFinite, FS_CardinalityType
  DEF HostPaid, HostClaims, HostClaimSet, HostCountable, hostPay
<1> QED BY <1>1 DEF HostPaid, Clocked, hostPay

\* A new gift is in no payment.
LEMMA GiftUnpaidToHost ==
    ASSUME Clocked, HostPaid, NEW h \in Account, RecordGift(h)
    PROVE  HostPaid'
<1>1. UNCHANGED <<payouts, hostResets, deaths>> /\ gifts \subseteq gifts'
  BY DEF RecordGift, hostPay
<1>2. ASSUME NEW g \in gifts'
      PROVE  HostClaims(g)' <= 1 + deaths /\ (HostCountable(g)' => HostClaims(g)' <= deaths)
  <2>1. CASE g \in gifts
    BY <1>1, <2>1 DEF HostPaid, HostClaims, HostCountable
  <2>2. CASE g \notin gifts
    <3>1. HostClaimSet(g) = {}
      BY <2>2 DEF HostPaid, HostClaimSet
    <3>2. HostClaims(g)' = 0
      BY <1>1, <3>1, FS_EmptySet DEF HostClaims, HostClaimSet
    <3> QED BY <3>2 DEF Clocked
  <2> QED BY <2>1, <2>2
<1> QED BY <1>1, <1>2 DEF HostPaid

\* One more entry of the payments, which counts the gifts G.
LEMMA EntryAdded ==
    ASSUME HostPaid, NEW e, payouts' = Append(payouts, e)
    PROVE  /\ \E S : payouts' \in Seq(S)
           /\ \A g : /\ HostClaims(g) \in Nat /\ HostClaims(g)' \in Nat
                     /\ HostClaims(g)' <= HostClaims(g) + 1
                     /\ g \notin e.counted => HostClaims(g)' <= HostClaims(g)
           /\ \A i \in DOMAIN payouts' : payouts'[i] = e \/ (i \in DOMAIN payouts /\ payouts'[i] = payouts[i])
<1> PICK S : payouts \in Seq(S)
  BY DEF HostPaid
<1> DEFINE n == Len(payouts)
<1>1. n \in Nat /\ DOMAIN payouts = 1..n /\ payouts \in [1..n -> S]
  OBVIOUS
<1>2. payouts \in Seq(S \cup {e})
  BY <1>1
<1>3. /\ payouts' \in Seq(S \cup {e}) /\ DOMAIN payouts' = 1..(n + 1)
      /\ payouts'[n + 1] = e /\ \A i \in 1..n : payouts'[i] = payouts[i]
  BY <1>2
<1>4. ASSUME NEW i \in DOMAIN payouts'
      PROVE  payouts'[i] = e \/ (i \in DOMAIN payouts /\ payouts'[i] = payouts[i])
  <2>1. i \in 1..(n + 1)
    BY <1>3
  <2>2. i = n + 1 \/ i \in 1..n
    BY <1>1, <2>1
  <2> HIDE DEF n
  <2> QED BY <1>1, <1>3, <2>2
<1>5. ASSUME NEW g
      PROVE  /\ HostClaims(g) \in Nat /\ HostClaims(g)' \in Nat
             /\ HostClaims(g)' <= HostClaims(g) + 1
             /\ g \notin e.counted => HostClaims(g)' <= HostClaims(g)
  <2>1. HostClaimSet(g)' \subseteq HostClaimSet(g) \cup {n + 1}
    BY <1>1, <1>3 DEF HostClaimSet
  <2>2. g \notin e.counted => HostClaimSet(g)' \subseteq HostClaimSet(g)
    BY <1>1, <1>3 DEF HostClaimSet
  <2>3. IsFiniteSet(HostClaimSet(g))
    BY HostClaimsFinite
  <2>4. /\ HostClaims(g) = Cardinality(HostClaimSet(g))
        /\ HostClaims(g)' = Cardinality(HostClaimSet(g)')
    BY DEF HostClaims, HostClaimSet
  <2>5. Cardinality(HostClaimSet(g)) \in Nat
    BY <2>3, FS_CardinalityType
  <2>6. /\ Cardinality(HostClaimSet(g)') \in Nat
        /\ Cardinality(HostClaimSet(g)') <= Cardinality(HostClaimSet(g)) + 1
    BY <2>1, <2>3, OneMore
  <2>7. g \notin e.counted =>
            Cardinality(HostClaimSet(g)') <= Cardinality(HostClaimSet(g))
    BY <2>2, <2>3, NoMore
  <2> HIDE DEF n
  <2> QED BY <2>4, <2>5, <2>6, <2>7
<1> QED BY <1>3, <1>4, <1>5

\* A cycle reset moves the marker of one host in one agency to now.
LEMMA ResetTyped ==
    ASSUME Clocked, HostPaid, NEW h \in Account, agencyOf[h] \in Agencies, ResetHost(h)
    PROVE  /\ hostResets' \in [Account -> [Agencies -> Int]]
           /\ \A g \in gifts : HostCountable(g)' => HostCountable(g)
<1> DEFINE row == [hostResets[h] EXCEPT ![agencyOf[h]] = now]
<1>1. row \in [Agencies -> Int]
  BY DEF HostPaid, Clocked
<1>2. hostResets' = [hostResets EXCEPT ![h] = row]
  BY DEF ResetHost
<1>3. ASSUME NEW g \in gifts, g.host = h
      PROVE  row[g.agency] = hostResets[h][g.agency] \/ row[g.agency] >= g.at
  BY DEF HostPaid, Clocked, GiftTyped
<1> HIDE DEF row
<1>4. hostResets' \in [Account -> [Agencies -> Int]]
  BY <1>1, <1>2 DEF HostPaid
<1>5. ASSUME NEW g \in gifts PROVE HostCountable(g)' => HostCountable(g)
  <2>1. /\ g.host \in Account /\ g.agency \in Agencies /\ g.at \in Int
        /\ row[g.agency] \in Int /\ hostResets[g.host][g.agency] \in Int
    BY <1>1 DEF HostPaid, Clocked, GiftTyped
  <2>2. hostResets'[g.host] = IF g.host = h THEN row ELSE hostResets[g.host]
    BY <1>2, <2>1 DEF HostPaid
  <2> QED BY <1>3, <2>1, <2>2 DEF HostCountable
<1> QED BY <1>4, <1>5

\* A host's salary counts gifts once, and its reset keeps any later period
\* from counting them, unless the payment died before.
LEMMA PayHostKeeps ==
    ASSUME Members, Clocked, HostPaid, NEW h \in Account, NEW b,
           NEW done \in 0..Writes, PayHost(h, b, done)
    PROVE  HostPaid'
<1> DEFINE a == agencyOf[h]
<1> PICK e : /\ e.counted = HostCounted(h, b)
             /\ payouts' = IF done >= 1 THEN Append(payouts, e) ELSE payouts
  <2> DEFINE q == [user |-> h, agency |-> agencyOf[h], bounds |-> b,
                   beans |-> Levels[Max(TiersReached(h, b))],
                   counted |-> HostCounted(h, b),
                   status |-> IF done = Writes THEN "completed" ELSE "pending"]
  <2>1. payouts' = IF done >= 1 THEN Append(payouts, q) ELSE payouts
    BY DEF PayHost
  <2>2. q.counted = HostCounted(h, b)
    OBVIOUS
  <2> QED BY <2>1, <2>2
<1>0. /\ UNCHANGED gifts /\ done \in Nat /\ a \in Agencies
      /\ deaths' = (IF done = Writes THEN deaths ELSE deaths + 1)
      /\ IF done >= 3 THEN ResetHost(h) ELSE UNCHANGED hostResets
  BY DEF PayHost, Die, Payable, Members
<1>1. CASE done = 0
  BY <1>0, <1>1, HostFrame DEF Clocked, hostPay, Writes
<1>2. CASE done # 0
  <2>1. payouts' = Append(payouts, e)
    BY <1>0, <1>2
  <2>2. hostResets' \in [Account -> [Agencies -> Int]]
    BY <1>0, ResetTyped DEF HostPaid
  <2>3. ASSUME NEW g \in gifts
        PROVE  /\ g \in e.counted =>
                     g.host = h /\ g.agency = a /\ HostCountable(g)
               /\ HostCountable(g)' => HostCountable(g)
               /\ done >= 3 /\ g.host = h /\ g.agency = a => ~HostCountable(g)'
    BY <1>0 DEF HostCounted, HostCountable, ResetHost, HostPaid, Clocked, GiftTyped
  <2>4. ASSUME NEW g \in gifts
        PROVE  /\ HostClaims(g)' <= 1 + deaths'
               /\ HostCountable(g)' => HostClaims(g)' <= deaths'
    <3>1. /\ HostClaims(g) <= 1 + deaths
          /\ HostCountable(g) => HostClaims(g) <= deaths
          /\ deaths \in Nat
      BY DEF HostPaid, Clocked
    <3>2. /\ HostClaims(g) \in Nat /\ HostClaims(g)' \in Nat
          /\ HostClaims(g)' <= HostClaims(g) + 1
          /\ g \notin e.counted => HostClaims(g)' <= HostClaims(g)
      BY <2>1, EntryAdded
    <3> QED BY <1>0, <2>3, <3>1, <3>2 DEF Writes
  <2>5. e.counted \subseteq gifts
    BY DEF HostCounted
  <2>6. \A i \in DOMAIN payouts' : payouts'[i].counted \subseteq gifts'
    BY <1>0, <2>1, <2>5, EntryAdded DEF HostPaid
  <2> QED BY <1>0, <2>1, <2>2, <2>4, <2>6, EntryAdded DEF HostPaid
<1> QED BY <1>1, <1>2

\* Beans given by hand claim no gift; given to a host they discard some.
LEMMA GrantKeeps ==
    ASSUME Clocked, HostPaid, UNCHANGED gifts, deaths' \in Nat, deaths' >= deaths,
           \/ UNCHANGED payouts
           \/ \E who, a : payouts' = Append(payouts, GrantEntry(who, a)),
           \/ UNCHANGED hostResets
           \/ \E h \in Account : agencyOf[h] \in Agencies /\ ResetHost(h)
    PROVE  HostPaid'
<1>1. /\ hostResets' \in [Account -> [Agencies -> Int]]
      /\ \A g \in gifts : HostCountable(g)' => HostCountable(g)
  <2>1. CASE UNCHANGED hostResets
    BY <2>1 DEF HostPaid, HostCountable
  <2> QED BY <2>1, ResetTyped
<1>2. CASE UNCHANGED payouts
  <2>1. ASSUME NEW g \in gifts
        PROVE  HostClaims(g)' = HostClaims(g) /\ HostClaims(g) \in Nat
    BY <1>2, HostClaimsFinite, FS_CardinalityType
    DEF HostPaid, HostClaims, HostClaimSet
  <2> QED BY <1>1, <1>2, <2>1 DEF HostPaid, Clocked
<1>3. ASSUME NEW who, NEW a, payouts' = Append(payouts, GrantEntry(who, a))
      PROVE  HostPaid'
  <2> DEFINE e == GrantEntry(who, a)
  <2>1. e.counted = {}
    BY DEF GrantEntry
  <2> HIDE DEF e
  <2>2. payouts' = Append(payouts, e)
    BY <1>3 DEF e
  <2>3. ASSUME NEW g \in gifts
        PROVE  /\ HostClaims(g)' <= HostClaims(g)
               /\ HostClaims(g) \in Nat /\ HostClaims(g)' \in Nat
    BY <2>1, <2>2, EntryAdded
  <2>4. ASSUME NEW g \in gifts
        PROVE  /\ HostClaims(g)' <= 1 + deaths'
               /\ HostCountable(g)' => HostClaims(g)' <= deaths'
    BY <1>1, <2>3 DEF HostPaid, Clocked
  <2>5. \A i \in DOMAIN payouts' : payouts'[i].counted \subseteq gifts'
    BY <2>1, <2>2, EntryAdded DEF HostPaid
  <2> QED BY <1>1, <2>2, <2>4, <2>5, EntryAdded DEF HostPaid
<1> QED BY <1>2, <1>3

LEMMA HostKept ==
    ASSUME Members, Clocked, HostPaid, [Next]_vars PROVE HostPaid'
<1>1. CASE UNCHANGED <<hostPay, gifts>>
  BY <1>1, Dying, HostFrame
<1>2. ASSUME NEW a \in Agencies, NEW done \in 0..Writes, GrantAgency(a, done)
      PROVE  HostPaid'
  <2>1. /\ UNCHANGED <<gifts, hostResets>>
        /\ \/ UNCHANGED payouts
           \/ \E who, b : payouts' = Append(payouts, GrantEntry(who, b))
    BY <1>2 DEF GrantAgency
  <2> QED BY <2>1, Dying, GrantKeeps
<1>3. ASSUME NEW a \in Agencies, NEW w \in Windows, NEW done, PayAgency(a, w, done)
      PROVE  UNCHANGED <<hostPay, gifts>>
  BY <1>3 DEF PayAgency
<1>4. ASSUME NEW h \in Account, NEW done \in 0..Writes, GrantHost(h, done)
      PROVE  HostPaid'
  <2>1. agencyOf[h] \in Agencies /\ UNCHANGED gifts
    BY <1>4 DEF GrantHost, Payable, Members
  <2>2. UNCHANGED hostResets \/ ResetHost(h)
    BY <1>4 DEF GrantHost
  <2>3. \/ UNCHANGED payouts
        \/ \E who, b : payouts' = Append(payouts, GrantEntry(who, b))
    BY <1>4 DEF GrantHost
  <2> QED BY <2>1, <2>2, <2>3, Dying, GrantKeeps
<1>5. Membership \/ Pass \/ UNCHANGED vars => UNCHANGED <<hostPay, gifts>>
  BY MembershipFrame DEF others, Pass, vars
<1>6. ASSUME NEW p, UpdatePolicy(p) PROVE UNCHANGED <<hostPay, gifts>>
  BY <1>6 DEF UpdatePolicy
<1>7. ASSUME NEW a, NEW w, Preview(a, w) PROVE UNCHANGED <<hostPay, gifts>>
  BY <1>7 DEF Preview
<1> QED BY <1>1, <1>2, <1>3, <1>4, <1>5, <1>6, <1>7, GiftUnpaidToHost, PayHostKeeps,
        SalaryAssumption
        DEF Next, Payments, PaysAgency, PaysHost

LEMMA SalaryStepInv == SalaryInv /\ [Next]_vars => SalaryInv'
BY MembersKept, ClockKept, AgencyKept, HostKept DEF SalaryInv

-----------------------------------------------------------------------------
(* The wallets.                                                            *)

SalaryOf == [aw \in Agencies \X Windows |-> periods[aw[1]][aw[2]].salary]
BeansOf == [i \in DOMAIN payouts |-> payouts[i].beans]
OwnedPaid(u) == {aw \in Paid : ownerOf[aw[1]] = u}

\* The wallet holds the recorded commissions and payouts, of those left pending
\* the ones in sent, and k grants whose entry a crash kept from being written.
Balanced(u) ==
    \E sent \in SUBSET Entries(u, "pending"), k \in 0..deaths :
        beans[u] = Earned(u) + Recorded(Entries(u, "completed") \cup sent) + k * Grant

\* An agency that is not founded has no owner to pay.
WalletInv ==
    /\ beans \in [Account -> Int]
    /\ policy \in Policies
    /\ IsFiniteSet(gifts)
    /\ \A a \in Agencies, w \in Windows : periods[a][w].salary \in Int
    /\ \A i \in DOMAIN payouts : payouts[i].beans \in Int
    /\ \A aw \in Paid : Founded(aw[1])
    /\ \A u \in Account : Balanced(u)

WalletRecInv == SalaryInv /\ WalletInv

\* A finite set of integers has a greatest one.
LEMMA MaxIsMember ==
    ASSUME NEW S, IsFiniteSet(S), S # {}, S \subseteq Int
    PROVE  Max(S) \in S
<1> DEFINE Topped(T) == \E x \in T : \A y \in T : x >= y
<1> DEFINE B == {T \in SUBSET S : T # {} /\ ~Topped(T)}
<1> SUFFICES ASSUME B # {} PROVE FALSE
  <2>1. B = {} => Topped(S)
    OBVIOUS
  <2> QED BY <2>1 DEF Max
<1>1. B \subseteq SUBSET S
  OBVIOUS
<1>2. PICK T \in B : \A U \in SUBSET T : U # T => U \notin B
  <2> HIDE DEF B
  <2> QED BY <1>1, SmallestSubset
<1>3. PICK x \in T : TRUE
  OBVIOUS
<1>4. CASE T = {x}
  BY <1>3, <1>4
<1>5. CASE T # {x}
  <2>1. T \ {x} # {} /\ Topped(T \ {x})
    <3>1. T \ {x} \in SUBSET T /\ T \ {x} # T /\ T \ {x} # {}
      BY <1>3, <1>5
    <3>2. T \ {x} \notin B
      BY <1>2, <3>1
    <3> HIDE DEF Topped
    <3> QED BY <3>1, <3>2
  <2>2. PICK y \in T \ {x} : \A z \in T \ {x} : y >= z
    BY <2>1
  <2>3. x \in Int /\ y \in Int /\ y \in T /\ T \subseteq Int
    OBVIOUS
  <2>4. CASE x >= y
    <3>1. \A z \in T : x >= z
      BY <2>2, <2>3, <2>4
    <3> QED BY <3>1
  <2>5. CASE ~(x >= y)
    <3>1. \A z \in T : y >= z
      BY <2>2, <2>3, <2>5
    <3> QED BY <2>3, <3>1
  <2> QED BY <2>4, <2>5
<1> QED BY <1>4, <1>5

\* A commission is a number of beans.
LEMMA CommissionTyped ==
    ASSUME WalletInv, NEW a, NEW w
    PROVE  CalculateCommission(Achieved(a, w)) \in Int
<1> DEFINE n == Cardinality(Counted(a, w))
           achieved == Gift * n
           S == {m \in DOMAIN policy : m <= achieved}
<1>1. n \in Nat
  BY FS_Subset, FS_CardinalityType DEF WalletInv, Counted
<1>2. \A x, y \in Nat : x * y \in Nat
  OBVIOUS
<1>3. achieved \in Nat
  BY <1>1, <1>2, SalaryAssumption
<1>4. Policy(policy)
  BY SalaryAssumption DEF WalletInv
<1> HIDE DEF n, achieved
<1>5. IsFiniteSet(S) /\ 0 \in S /\ S \subseteq Int
  BY <1>3, <1>4, FS_Subset DEF Policy
<1>6. Max(S) \in S
  <2> HIDE DEF S
  <2> QED BY <1>5, MaxIsMember
<1>7. policy[Max(S)] \in Nat
  BY <1>4, <1>6 DEF Policy
<1> DEFINE product == achieved * policy[Max(S)]
<1>8. product \in Nat
  BY <1>2, <1>3, <1>7
<1>9. CalculateCommission(Achieved(a, w)) = product \div 100
  BY DEF CalculateCommission, Achieved, achieved, n
<1> HIDE DEF product
<1> QED BY <1>8, <1>9

\* The best reward a host reached is a number of beans.
LEMMA RewardTyped ==
    ASSUME NEW h, NEW b, TiersReached(h, b) # {}
    PROVE  Levels[Max(TiersReached(h, b))] \in Int
<1> DEFINE S == TiersReached(h, b)
<1>1. IsFiniteSet(S) /\ S \subseteq DOMAIN Levels /\ S \subseteq Int
  BY SalaryAssumption, FS_Subset DEF TiersReached
<1> HIDE DEF S
<1>2. Max(S) \in S
  BY <1>1, MaxIsMember DEF S
<1> QED BY <1>1, <1>2, SalaryAssumption DEF S

LEMMA PaidFinite == \A u : IsFiniteSet(OwnedPaid(u))
<1>1. IsFiniteSet(Agencies \X Windows)
  BY SalaryAssumption, FS_Product
<1> QED BY <1>1, FS_Subset DEF OwnedPaid, Paid

LEMMA EntriesFinite ==
    ASSUME HostPaid, NEW I, I \subseteq DOMAIN payouts PROVE IsFiniteSet(I)
<1> PICK S : payouts \in Seq(S)
  BY DEF HostPaid
<1>1. DOMAIN payouts = 1..Len(payouts) /\ IsFiniteSet(1..Len(payouts))
  BY FS_Interval
<1> QED BY <1>1, FS_Subset

LEMMA EarnedTyped == ASSUME WalletInv, NEW u PROVE Earned(u) \in Int
<1>1. \A aw \in OwnedPaid(u) : SalaryOf[aw] \in Int
  BY DEF WalletInv, OwnedPaid, Paid, SalaryOf
<1> QED BY <1>1, PaidFinite, SumIsInt DEF Earned, OwnedPaid, SalaryOf

LEMMA RecordedTyped ==
    ASSUME WalletInv, HostPaid, NEW I, I \subseteq DOMAIN payouts
    PROVE  Recorded(I) \in Int
<1>1. \A i \in I : BeansOf[i] \in Int
  BY DEF WalletInv, BeansOf
<1> QED BY <1>1, EntriesFinite, SumIsInt DEF Recorded, BeansOf

\* Weeks that stay paid with the same salary and owner, and no other.
LEMMA EarnedSame ==
    ASSUME WalletInv, Paid' = Paid,
           \A aw \in Paid : /\ periods'[aw[1]][aw[2]] = periods[aw[1]][aw[2]]
                            /\ ownerOf'[aw[1]] = ownerOf[aw[1]],
           NEW u
    PROVE  Earned(u)' = Earned(u)
<1>1. OwnedPaid(u)' = OwnedPaid(u)
  BY DEF OwnedPaid
<1>2. \A aw \in OwnedPaid(u) : SalaryOf[aw] \in Int /\ SalaryOf'[aw] = SalaryOf[aw]
  BY DEF WalletInv, OwnedPaid, Paid, SalaryOf
<1>3. SumFunctionOnSet(SalaryOf', OwnedPaid(u)) = SumFunctionOnSet(SalaryOf, OwnedPaid(u))
  BY <1>2, PaidFinite, SumSame
<1> QED BY <1>1, <1>3 DEF Earned, OwnedPaid, SalaryOf

\* A week that becomes paid adds its salary for the owner.
LEMMA EarnedAdds ==
    ASSUME WalletInv, UNCHANGED ownerOf, NEW a \in Agencies, NEW w \in Windows,
           <<a, w>> \notin Paid, Paid' = Paid \cup {<<a, w>>},
           periods'[a][w].salary \in Int,
           \A aw \in Paid : periods'[aw[1]][aw[2]] = periods[aw[1]][aw[2]],
           NEW u
    PROVE  Earned(u)' = Earned(u) + IF u = ownerOf[a] THEN periods'[a][w].salary ELSE 0
<1> DEFINE s == periods'[a][w].salary
           P == OwnedPaid(u)
<1>1. P' = (IF u = ownerOf[a] THEN P \cup {<<a, w>>} ELSE P) /\ <<a, w>> \notin P
  BY DEF OwnedPaid
<1>2. \A aw \in P : SalaryOf[aw] \in Int /\ SalaryOf'[aw] = SalaryOf[aw]
  BY DEF WalletInv, OwnedPaid, Paid, SalaryOf
<1>3. IsFiniteSet(P)
  BY PaidFinite
<1>4. SalaryOf'[<<a, w>>] = s /\ s \in Int
  BY DEF SalaryOf
<1>5. Earned(u) = SumFunctionOnSet(SalaryOf, P) /\ Earned(u)' = SumFunctionOnSet(SalaryOf', P')
  BY DEF Earned, OwnedPaid, SalaryOf
<1> HIDE DEF s, P
<1>6. SumFunctionOnSet(SalaryOf', P) = SumFunctionOnSet(SalaryOf, P)
  BY <1>2, <1>3, SumSame
<1>7. SumFunctionOnSet(SalaryOf', P) \in Int
  BY <1>2, <1>3, SumIsInt
<1>8. SumFunctionOnSet(SalaryOf', P \cup {<<a, w>>}) = SumFunctionOnSet(SalaryOf', P) + s
  <2>1. \A aw \in P : SalaryOf'[aw] \in Int
    BY <1>2
  <2> QED BY <1>1, <1>3, <1>4, <2>1, SumAdds
<1> QED BY <1>1, <1>4, <1>5, <1>6, <1>7, <1>8 DEF s

\* A new entry changes what no set of older ones is worth, and adds its beans.
LEMMA EntryCounts ==
    ASSUME WalletInv, HostPaid, NEW e, e.beans \in Int, payouts' = Append(payouts, e),
           NEW n, n = Len(payouts) + 1
    PROVE  /\ \A u, status :
                 Entries(u, status)' =
                    IF e.user = u /\ e.status = status
                    THEN Entries(u, status) \cup {n}
                    ELSE Entries(u, status)
           /\ n \notin DOMAIN payouts
           /\ \A i \in DOMAIN payouts' : payouts'[i].beans \in Int
           /\ \A I \in SUBSET DOMAIN payouts :
                 /\ Recorded(I)' = Recorded(I)
                 /\ Recorded(I \cup {n})' = Recorded(I) + e.beans
<1> PICK S : payouts \in Seq(S)
  BY DEF HostPaid
<1>1. /\ n \in Nat /\ DOMAIN payouts = 1..(n - 1) /\ n \notin 1..(n - 1)
      /\ 1..n = 1..(n - 1) \cup {n}
  OBVIOUS
<1>2. /\ DOMAIN payouts' = 1..n
      /\ payouts'[n] = e /\ \A i \in 1..(n - 1) : payouts'[i] = payouts[i]
  <2>1. payouts \in Seq(S \cup {e})
    BY <1>1
  <2> QED BY <2>1
<1>3. ASSUME NEW u, NEW status
      PROVE  Entries(u, status)' = IF e.user = u /\ e.status = status
                                   THEN Entries(u, status) \cup {n}
                                   ELSE Entries(u, status)
  <2>1. Entries(u, status)' =
          {i \in 1..n : payouts'[i].user = u /\ payouts'[i].status = status}
    BY <1>2 DEF Entries
  <2>2. Entries(u, status) =
          {i \in 1..(n - 1) : payouts[i].user = u /\ payouts[i].status = status}
    BY <1>1 DEF Entries
  <2> QED BY <1>1, <1>2, <2>1, <2>2
<1>4. \A i \in DOMAIN payouts' : payouts'[i].beans \in Int
  BY <1>1, <1>2 DEF WalletInv
<1>5. ASSUME NEW I \in SUBSET DOMAIN payouts
      PROVE  /\ Recorded(I)' = Recorded(I)
             /\ Recorded(I \cup {n})' = Recorded(I) + e.beans
  <2>1. \A i \in I : BeansOf[i] \in Int /\ BeansOf'[i] = BeansOf[i]
    BY <1>1, <1>2 DEF WalletInv, BeansOf
  <2>2. BeansOf'[n] = e.beans
    BY <1>1, <1>2 DEF BeansOf
  <2>3. IsFiniteSet(I) /\ n \notin I
    BY <1>1, EntriesFinite
  <2>4. SumFunctionOnSet(BeansOf', I) = SumFunctionOnSet(BeansOf, I)
    BY <2>1, <2>3, SumSame
  <2>5. SumFunctionOnSet(BeansOf', I \cup {n}) =
          SumFunctionOnSet(BeansOf', I) + e.beans
    <3>1. \A i \in I : BeansOf'[i] \in Int
      BY <2>1
    <3> QED BY <2>2, <2>3, <3>1, SumAdds
  <2> QED BY <2>4, <2>5 DEF Recorded, BeansOf
<1> QED BY <1>1, <1>3, <1>4, <1>5

\* Steps of others; a new agency has no paid week.
LEMMA WalletFrame ==
    ASSUME WalletInv, SalaryInv, UNCHANGED <<beans, payouts>>,
           deaths' \in Nat, deaths' >= deaths,
           policy' \in Policies, IsFiniteSet(gifts'),
           Paid' = Paid,
           \A aw \in Paid : /\ periods'[aw[1]][aw[2]] = periods[aw[1]][aw[2]]
                            /\ ownerOf'[aw[1]] = ownerOf[aw[1]],
           \A a \in Agencies, w \in Windows : periods'[a][w].salary \in Int
    PROVE  WalletInv'
<1>1. ASSUME NEW u \in Account PROVE Balanced(u)'
  <2>1. PICK sent \in SUBSET Entries(u, "pending"), k \in 0..deaths :
           beans[u] = Earned(u) + Recorded(Entries(u, "completed") \cup sent) + k * Grant
    BY DEF WalletInv, Balanced
  <2>2. Earned(u)' = Earned(u)
    BY EarnedSame
  <2>3. k \in 0..deaths'
    BY DEF SalaryInv, Clocked
  <2>4. /\ Entries(u, "pending")' = Entries(u, "pending")
        /\ Recorded(Entries(u, "completed") \cup sent)' =
             Recorded(Entries(u, "completed") \cup sent)
    BY DEF Entries, Recorded
  <2>5. beans'[u] = Earned(u)' + Recorded(Entries(u, "completed") \cup sent)' + k * Grant
    BY <2>1, <2>2, <2>4
  <2> QED BY <2>3, <2>4, <2>5 DEF Balanced
<1>2. \A aw \in Paid' : Founded(aw[1])'
  BY DEF WalletInv, Founded
<1> QED BY <1>1, <1>2 DEF WalletInv

\* A record is shown again.
LEMMA PreviewBalance ==
    ASSUME WalletInv, SalaryInv, NEW a \in Agencies, NEW w \in Windows, Preview(a, w)
    PROVE  WalletInv'
<1>1. UNCHANGED <<beans, payouts, policy, gifts, deaths, ownerOf>>
  BY DEF Preview, hostPay, membership
<1>2. \A b \in Agencies, v \in Windows :
         \/ periods'[b][v] = periods[b][v]
         \/ periods[b][v].status # "paid" /\ periods'[b][v] = Pending
  BY DEF Preview, SetRecord, CalculateRecord, SalaryInv, AgencyPaid
<1>3. Pending.status # "paid" /\ Pending.salary \in Int
  BY DEF Pending
<1>4. Paid' = Paid /\ \A aw \in Paid : periods'[aw[1]][aw[2]] = periods[aw[1]][aw[2]]
  BY <1>2, <1>3 DEF Paid
<1>5. \A b \in Agencies, v \in Windows : periods'[b][v].salary \in Int
  BY <1>2, <1>3 DEF WalletInv
<1>6. deaths' \in Nat /\ deaths' >= deaths
  BY <1>1 DEF SalaryInv, Clocked
<1>7. policy' \in Policies /\ IsFiniteSet(gifts')
  BY <1>1 DEF WalletInv
<1> QED BY <1>1, <1>4, <1>5, <1>6, <1>7, WalletFrame

\* The commission reaches the wallet with the record, or neither does.
LEMMA PayAgencyBalance ==
    ASSUME WalletInv, SalaryInv, NEW a \in Agencies, NEW w \in Windows,
           NEW done \in 0..Writes, PayAgency(a, w, done)
    PROVE  WalletInv'
<1> DEFINE s == CalculateCommission(Achieved(a, w))
           r == [status |-> "paid", counted |-> Counted(a, w), salary |-> s]
           q == IF done = Writes THEN r ELSE Reconcile(r, done >= 2)
<1>1. /\ UNCHANGED <<payouts, policy, gifts, ownerOf>> /\ periods[a][w].status # "paid"
      /\ Founded(a)
  BY DEF PayAgency, hostPay, membership
<1>2. deaths' \in Nat /\ deaths' >= deaths
  BY DEF PayAgency, Die, SalaryInv, Clocked
<1>3. /\ periods' = [periods EXCEPT ![a] = [@ EXCEPT ![w] = q]]
      /\ beans' = IF done >= 2 THEN [beans EXCEPT ![ownerOf[a]] = @ + s] ELSE beans
  BY DEF PayAgency, SetRecord
<1>4. s \in Int
  BY CommissionTyped
<1> HIDE DEF s
<1>5. /\ r.status = "paid" /\ r.salary = s
      /\ q = IF done >= 2 THEN r ELSE Pending
      /\ Pending.status # "paid" /\ Pending.salary = 0
  BY DEF Reconcile, Writes, Pending
<1> HIDE DEF q, r
<1>6. /\ periods'[a][w] = q
      /\ \A b \in Agencies, v \in Windows :
            b # a \/ v # w => periods'[b][v] = periods[b][v]
  BY <1>3 DEF SalaryInv, AgencyPaid
<1>7. /\ <<a, w>> \notin Paid
      /\ \A aw \in Paid : periods'[aw[1]][aw[2]] = periods[aw[1]][aw[2]]
  BY <1>1, <1>6 DEF Paid
<1>8. \A b \in Agencies, v \in Windows : periods'[b][v].salary \in Int
  BY <1>4, <1>5, <1>6 DEF WalletInv
<1>9. policy' \in Policies /\ IsFiniteSet(gifts')
  BY <1>1 DEF WalletInv
<1>10. CASE done < 2
  <2>1. Paid' = Paid
    BY <1>1, <1>5, <1>6, <1>10 DEF Paid
  <2>2. UNCHANGED beans
    BY <1>3, <1>10
  <2> QED BY <1>1, <1>2, <1>7, <1>8, <1>9, <2>1, <2>2, WalletFrame
<1>11. CASE done >= 2
  <2>1. Paid' = Paid \cup {<<a, w>>}
    <3>1. \A b \in Agencies, v \in Windows :
             periods'[b][v].status = "paid" <=>
                periods[b][v].status = "paid" \/ (b = a /\ v = w)
      BY <1>5, <1>6, <1>11
    <3> QED BY <3>1 DEF Paid
  <2>2. periods'[a][w].salary = s
    BY <1>5, <1>6, <1>11
  <2>3. ownerOf[a] \in Account
    BY <1>1 DEF SalaryInv, Members, Founded
  <2>4. beans' = [beans EXCEPT ![ownerOf[a]] = @ + s]
    BY <1>3, <1>11
  <2>5. beans' \in [Account -> Int]
    BY <1>4, <2>3, <2>4 DEF WalletInv
  <2>6. ASSUME NEW u \in Account PROVE Balanced(u)'
    <3> DEFINE more == IF u = ownerOf[a] THEN s ELSE 0
    <3>1. PICK sent \in SUBSET Entries(u, "pending"), k \in 0..deaths :
             beans[u] = Earned(u) + Recorded(Entries(u, "completed") \cup sent) + k * Grant
      BY DEF WalletInv, Balanced
    <3>2. Earned(u)' = Earned(u) + more
      BY <1>1, <1>4, <1>7, <2>1, <2>2, EarnedAdds
    <3>3. beans[u] \in Int /\ beans'[u] = beans[u] + more
      BY <1>4, <2>3, <2>4 DEF WalletInv
    <3>4. /\ Entries(u, "pending")' = Entries(u, "pending")
          /\ Recorded(Entries(u, "completed") \cup sent)' =
               Recorded(Entries(u, "completed") \cup sent)
      BY <1>1 DEF Entries, Recorded
    <3>5. /\ Earned(u) \in Int /\ more \in Int
          /\ Recorded(Entries(u, "completed") \cup sent) \in Int
      BY <1>4, EarnedTyped, RecordedTyped DEF SalaryInv, Entries
    <3>6. k * Grant \in Int /\ k \in 0..deaths'
      BY <1>2, SalaryAssumption DEF SalaryInv, Clocked
    <3> HIDE DEF more
    <3>7. beans'[u] = Earned(u)' + Recorded(Entries(u, "completed") \cup sent)' + k * Grant
      BY <3>1, <3>2, <3>3, <3>4, <3>5, <3>6
    <3> QED BY <3>4, <3>6, <3>7 DEF Balanced
  <2>7. \A aw \in Paid' : Founded(aw[1])'
    BY <1>1, <2>1 DEF WalletInv, Founded
  <2> QED BY <1>1, <1>8, <1>9, <2>5, <2>6, <2>7 DEF WalletInv
<1> QED BY <1>10, <1>11

\* An entry with its beans, or without them while it is pending.
LEMMA EntryBalance ==
    ASSUME WalletInv, SalaryInv, UNCHANGED <<periods, policy, gifts, ownerOf>>,
           deaths' \in Nat, deaths' >= deaths,
           NEW v \in Account, NEW e, e.user = v, e.beans \in Int,
           e.status \in {"pending", "completed"}, payouts' = Append(payouts, e),
           \/ beans' = [beans EXCEPT ![v] = @ + e.beans]
           \/ e.status = "pending" /\ UNCHANGED beans
    PROVE  WalletInv'
<1> PICK n : n = Len(payouts) + 1
  OBVIOUS
<1>1. HostPaid
  BY DEF SalaryInv
<1>2. beans' \in [Account -> Int]
  BY DEF WalletInv
<1>3. ASSUME NEW u \in Account PROVE Balanced(u)'
  <2>1. PICK sent \in SUBSET Entries(u, "pending"), k \in 0..deaths :
           beans[u] = Earned(u) + Recorded(Entries(u, "completed") \cup sent) + k * Grant
    BY DEF WalletInv, Balanced
  <2> DEFINE credited == beans'[v] = beans[v] + e.beans /\ u = v
             sentNow == IF credited /\ e.status = "pending" THEN sent \cup {n} ELSE sent
  <2> PICK I : I = Entries(u, "completed") \cup sent
    OBVIOUS
  <2> PICK J : J = Entries(u, "completed")' \cup sentNow
    OBVIOUS
  <2>2. I \in SUBSET DOMAIN payouts
    BY DEF Entries
  <2>3. /\ n \notin DOMAIN payouts
        /\ Recorded(I)' = Recorded(I) /\ Recorded(I \cup {n})' = Recorded(I) + e.beans
    BY <1>1, <2>2, EntryCounts
  <2>4. /\ Entries(u, "completed")' = IF v = u /\ e.status = "completed"
                                      THEN Entries(u, "completed") \cup {n}
                                      ELSE Entries(u, "completed")
        /\ Entries(u, "pending")' = IF v = u /\ e.status = "pending"
                                    THEN Entries(u, "pending") \cup {n}
                                    ELSE Entries(u, "pending")
    BY <1>1, EntryCounts
  <2>5. Earned(u)' = Earned(u)
    BY EarnedSame DEF Paid
  <2>6. /\ Earned(u) \in Int /\ Recorded(I) \in Int
        /\ k * Grant \in Int /\ k \in 0..deaths' /\ beans[u] \in Int
    BY <1>1, <2>2, EarnedTyped, RecordedTyped, SalaryAssumption
    DEF WalletInv, SalaryInv, Clocked
  <2>7. \/ credited /\ beans'[u] = beans[u] + e.beans /\ J = I \cup {n}
        \/ ~credited /\ beans'[u] = beans[u] /\ J = I
    <3>1. CASE u # v
      BY <2>4, <3>1 DEF WalletInv
    <3>2. CASE u = v /\ credited
      BY <2>4, <3>2
    <3>3. CASE u = v /\ ~credited
      <4>1. beans' # [beans EXCEPT ![v] = @ + e.beans]
        BY <3>3 DEF WalletInv
      <4>2. e.status = "pending" /\ UNCHANGED beans
        BY <4>1
      <4> QED BY <2>4, <3>3, <4>2
    <3> QED BY <3>1, <3>2, <3>3
  <2>8. sentNow \in SUBSET Entries(u, "pending")'
    BY <2>4
  <2>9. beans'[u] = Earned(u)' + Recorded(J)' + k * Grant
    <3> HIDE DEF credited
    <3>1. beans[u] = Earned(u) + Recorded(I) + k * Grant
      BY <2>1
    <3>2. CASE credited
      <4>1. Recorded(J)' = Recorded(I) + e.beans
        BY <2>3, <2>7, <3>2
      <4> QED BY <2>5, <2>6, <2>7, <3>1, <3>2, <4>1
    <3>3. CASE ~credited
      <4>1. Recorded(J)' = Recorded(I)
        BY <2>3, <2>7, <3>3
      <4> QED BY <2>5, <2>6, <2>7, <3>1, <3>3, <4>1
    <3> QED BY <3>2, <3>3
  <2> HIDE DEF sentNow
  <2> QED BY <2>6, <2>8, <2>9 DEF Balanced
<1>4. \A i \in DOMAIN payouts' : payouts'[i].beans \in Int
  BY <1>1, EntryCounts
<1>5. \A aw \in Paid' : Founded(aw[1])'
  BY DEF WalletInv, Founded, Paid
<1> QED BY <1>2, <1>3, <1>4, <1>5 DEF WalletInv

\* A grant whose entry is not written counts as a crash.
LEMMA LostBalance ==
    ASSUME WalletInv, SalaryInv, UNCHANGED <<periods, policy, gifts, ownerOf, payouts>>,
           deaths' = deaths + 1, NEW v \in Account, beans' = [beans EXCEPT ![v] = @ + Grant]
    PROVE  WalletInv'
<1>1. deaths \in Nat /\ Grant \in Nat /\ HostPaid
  BY SalaryAssumption DEF SalaryInv, Clocked
<1>2. beans' \in [Account -> Int]
  BY <1>1 DEF WalletInv
<1>3. ASSUME NEW u \in Account PROVE Balanced(u)'
  <2>1. PICK sent \in SUBSET Entries(u, "pending"), k \in 0..deaths :
           beans[u] = Earned(u) + Recorded(Entries(u, "completed") \cup sent) + k * Grant
    BY DEF WalletInv, Balanced
  <2> PICK I : I = Entries(u, "completed") \cup sent
    OBVIOUS
  <2> DEFINE m == IF u = v THEN k + 1 ELSE k
  <2>2. Earned(u)' = Earned(u)
    BY EarnedSame DEF Paid
  <2>3. Entries(u, "pending")' = Entries(u, "pending") /\ Recorded(I)' = Recorded(I)
    BY DEF Entries, Recorded
  <2>4. Earned(u) \in Int /\ Recorded(I) \in Int /\ beans[u] \in Int
    BY <1>1, EarnedTyped, RecordedTyped DEF WalletInv, Entries
  <2>5. m \in 0..deaths' /\ k * Grant \in Int /\ m * Grant = k * Grant + IF u = v THEN Grant ELSE 0
    BY <1>1
  <2>6. beans'[u] = beans[u] + IF u = v THEN Grant ELSE 0
    BY <1>1 DEF WalletInv
  <2>7. beans[u] = Earned(u) + Recorded(I) + k * Grant
    BY <2>1
  <2>8. I = Entries(u, "completed")' \cup sent
    BY DEF Entries
  <2> HIDE DEF m
  <2>9. beans'[u] = Earned(u)' + Recorded(I)' + m * Grant
    BY <1>1, <2>2, <2>3, <2>4, <2>5, <2>6, <2>7
  <2> QED BY <2>3, <2>5, <2>8, <2>9 DEF Balanced
<1>4. \A i \in DOMAIN payouts' : payouts'[i].beans \in Int
  BY DEF WalletInv
<1>5. \A aw \in Paid' : Founded(aw[1])'
  BY DEF WalletInv, Founded, Paid
<1> QED BY <1>2, <1>3, <1>4, <1>5 DEF WalletInv

\* The salary of a host, from its pending entry to its completed one.
LEMMA PayHostBalance ==
    ASSUME WalletInv, SalaryInv, NEW h \in Account, NEW b, NEW done \in 0..Writes,
           PayHost(h, b, done)
    PROVE  WalletInv'
<1> DEFINE paid == Levels[Max(TiersReached(h, b))]
           e == [user |-> h, agency |-> agencyOf[h], bounds |-> b, beans |-> paid,
                 counted |-> HostCounted(h, b),
                 status |-> IF done = Writes THEN "completed" ELSE "pending"]
<1>1. /\ payouts' = IF done >= 1 THEN Append(payouts, e) ELSE payouts
      /\ beans' = IF done >= 2 THEN [beans EXCEPT ![h] = @ + paid] ELSE beans
      /\ UNCHANGED <<periods, policy, gifts, ownerOf>>
  BY DEF PayHost, agencyPay, membership
<1>2. deaths' \in Nat /\ deaths' >= deaths
  BY DEF PayHost, Die, SalaryInv, Clocked
<1>3. paid \in Int
  BY RewardTyped DEF PayHost
<1>4. /\ e.user = h /\ e.beans = paid
      /\ e.status = IF done = Writes THEN "completed" ELSE "pending"
  OBVIOUS
<1> HIDE DEF paid, e
<1>5. CASE done < 1
  <2>1. UNCHANGED <<beans, payouts>>
    BY <1>1, <1>5
  <2>2. Paid' = Paid
    BY <1>1 DEF Paid
  <2> QED BY <1>1, <1>2, <2>1, <2>2, WalletFrame DEF WalletInv
<1>6. CASE done >= 1
  <2>1. payouts' = Append(payouts, e) /\ e.status \in {"pending", "completed"}
    BY <1>1, <1>4, <1>6
  <2>2. \/ beans' = [beans EXCEPT ![h] = @ + e.beans]
        \/ e.status = "pending" /\ UNCHANGED beans
    BY <1>1, <1>4, <1>6 DEF Writes
  <2> QED BY <1>1, <1>2, <1>3, <1>4, <2>1, <2>2, EntryBalance
<1> QED BY <1>5, <1>6

\* Beans given by hand to v, with their entry for agency a.
LEMMA GrantBalance ==
    ASSUME WalletInv, SalaryInv, NEW v \in Account, NEW a, NEW done \in 0..Writes, Die(done),
           UNCHANGED <<periods, policy, gifts, ownerOf>>,
           beans' = IF done >= 2 THEN [beans EXCEPT ![v] = @ + Grant] ELSE beans,
           payouts' = IF done = Writes THEN Append(payouts, GrantEntry(v, a)) ELSE payouts
    PROVE  WalletInv'
<1>1. deaths' \in Nat /\ deaths' >= deaths /\ Grant \in Int
  BY SalaryAssumption DEF Die, SalaryInv, Clocked
<1>2. CASE done < 2
  <2>1. UNCHANGED <<beans, payouts>>
    BY <1>2 DEF Writes
  <2>2. Paid' = Paid
    BY DEF Paid
  <2> QED BY <1>1, <2>1, <2>2, WalletFrame DEF WalletInv
<1>3. CASE done >= 2 /\ done # Writes
  <2>1. UNCHANGED payouts /\ deaths' = deaths + 1 /\ beans' = [beans EXCEPT ![v] = @ + Grant]
    BY <1>3 DEF Die
  <2> QED BY <2>1, LostBalance
<1>4. CASE done = Writes
  <2> DEFINE e == GrantEntry(v, a)
  <2>1. e.user = v /\ e.beans = Grant /\ e.status = "completed"
    BY DEF GrantEntry
  <2> HIDE DEF e
  <2>2. payouts' = Append(payouts, e) /\ beans' = [beans EXCEPT ![v] = @ + e.beans]
    BY <1>4, <2>1 DEF Writes, e
  <2> QED BY <1>1, <2>1, <2>2, EntryBalance
<1> QED BY <1>2, <1>3, <1>4

LEMMA WalletInit == Init => WalletInv
<1> SUFFICES ASSUME Init PROVE WalletInv
  OBVIOUS
<1>1. Paid = {}
  BY DEF Init, Paid, Pending
<1>2. ASSUME NEW u \in Account PROVE Balanced(u)
  <2>1. Entries(u, "completed") = {}
    BY DEF Init, Entries
  <2>2. Earned(u) = 0 /\ Recorded(Entries(u, "completed") \cup {}) = 0
    BY <1>1, <2>1, SumOfNone DEF Earned, Recorded
  <2>3. beans[u] = 0 /\ 0 \in 0..deaths /\ 0 = 0 + 0 + 0 * Grant
    BY SalaryAssumption DEF Init
  <2> QED BY <2>2, <2>3 DEF Balanced
<1>3. IsFiniteSet(gifts)
  BY FS_EmptySet DEF Init
<1>4. \A a \in Agencies, w \in Windows : periods[a][w].salary \in Int
  BY DEF Init, Pending
<1> QED BY <1>1, <1>2, <1>3, <1>4 DEF Init, WalletInv

\* A new agency is nobody's income yet.
LEMMA MembershipBalance ==
    ASSUME WalletInv, SalaryInv, Membership PROVE WalletInv'
<1>1. UNCHANGED <<beans, periods, payouts, policy, gifts, deaths>>
  BY MembershipFrame DEF others, agencyPay, hostPay
<1>2. \A a \in Agencies : Founded(a) => ownerOf'[a] = ownerOf[a]
  <2>1. ASSUME NEW u \in Account, NEW a \in Agencies, Founds(u, a)
        PROVE  \A b \in Agencies : Founded(b) => ownerOf'[b] = ownerOf[b]
    BY <2>1 DEF Founds, SalaryInv, Members
  <2> QED BY <2>1 DEF Membership, CreateAgency, ApproveFounding, CreateRoom, Invite, Apply,
                      Joins, AssignHost, RemoveHost, AcceptInvite, AcceptApplication, Decline
<1>3. \A aw \in Paid : aw[1] \in Agencies /\ Founded(aw[1])
  BY DEF WalletInv, Paid
<1>4. Paid' = Paid
  BY <1>1 DEF Paid
<1>5. deaths' \in Nat /\ deaths' >= deaths
  BY <1>1 DEF SalaryInv, Clocked
<1> QED BY <1>1, <1>2, <1>3, <1>4, <1>5, WalletFrame DEF WalletInv

LEMMA WalletStep == SalaryInv /\ WalletInv /\ [Next]_vars => WalletInv'
<1> SUFFICES ASSUME SalaryInv, WalletInv, [Next]_vars PROVE WalletInv'
  OBVIOUS
<1>0. deaths' \in Nat /\ deaths' >= deaths
  BY Dying DEF SalaryInv
<1>1. ASSUME UNCHANGED <<beans, periods, payouts, ownerOf>>,
             policy' \in Policies, IsFiniteSet(gifts')
      PROVE  WalletInv'
  <2>1. Paid' = Paid
    BY <1>1 DEF Paid
  <2> QED BY <1>0, <1>1, <2>1, WalletFrame DEF WalletInv
<1>2. CASE Pass \/ UNCHANGED vars
  BY <1>1, <1>2 DEF Pass, vars, agencyPay, hostPay, membership, WalletInv
<1>3. ASSUME NEW u, RecordGift(u) PROVE WalletInv'
  <2>1. IsFiniteSet(gifts')
    BY <1>3, FS_AddElement DEF RecordGift, WalletInv
  <2> QED BY <1>1, <1>3, <2>1 DEF RecordGift, WalletInv, agencyPay, hostPay, membership
<1>4. ASSUME NEW p \in Policies, UpdatePolicy(p) PROVE WalletInv'
  BY <1>1, <1>4 DEF UpdatePolicy, WalletInv, hostPay, membership
<1>5. ASSUME NEW a \in Agencies, NEW done \in 0..Writes, GrantAgency(a, done)
      PROVE  WalletInv'
  <2>1. ownerOf[a] \in Account
    BY <1>5 DEF GrantAgency, Founded, SalaryInv, Members
  <2>2. /\ done >= 2 /\ Die(done) /\ UNCHANGED <<periods, policy, gifts, ownerOf>>
        /\ beans' = [beans EXCEPT ![ownerOf[a]] = @ + Grant]
        /\ payouts' = IF done = Writes THEN Append(payouts, GrantEntry(ownerOf[a], a))
                      ELSE payouts
    BY <1>5 DEF GrantAgency, Writes, agencyPay, membership
  <2> QED BY <2>1, <2>2, GrantBalance
<1>6. ASSUME NEW h \in Account, NEW done \in 0..Writes, GrantHost(h, done)
      PROVE  WalletInv'
  <2>1. /\ Die(done) /\ UNCHANGED <<periods, policy, gifts, ownerOf>>
        /\ beans' = IF done >= 2 THEN [beans EXCEPT ![h] = @ + Grant] ELSE beans
        /\ payouts' = IF done = Writes THEN Append(payouts, GrantEntry(h, agencyOf[h]))
                      ELSE payouts
    BY <1>6 DEF GrantHost, agencyPay, membership
  <2> QED BY <2>1, GrantBalance
<1>7. ASSUME Payments PROVE WalletInv'
  BY <1>5, <1>6, <1>7, PayAgencyBalance, PayHostBalance DEF Payments, PaysAgency, PaysHost
<1> QED BY <1>2, <1>3, <1>4, <1>7, PreviewBalance, MembershipBalance DEF Next

-----------------------------------------------------------------------------
\* The inductive invariant of agencies and salaries: members and owners of the
\* agencies and, for each gift, the payments that counted it and whether one
\* more may.
THEOREM SalaryInvariant == Spec => []SalaryInv
BY SalaryInitInv, SalaryStepInv, PTL DEF Spec

\* With it, the wallets: each holds what the records say.
THEOREM WalletInvariant == Spec => []WalletRecInv
<1>1. Init => WalletRecInv
  BY SalaryInitInv, WalletInit DEF WalletRecInv
<1>2. WalletRecInv /\ [Next]_vars => WalletRecInv'
  BY SalaryStepInv, WalletStep DEF WalletRecInv
<1> QED BY <1>1, <1>2, PTL DEF Spec

\* Through any crash and any order of payments, a wallet holds exactly the
\* commissions recorded as paid to its owner's agencies and the payouts recorded
\* as completed, but for payouts a crash left pending and grants whose entry was
\* not written yet (payOne, reconcileProcessingRecords, payoutAutomatic).
THEOREM SalariesAlwaysRecorded == Spec => []SalariesAreRecorded
<1>1. WalletRecInv => SalariesAreRecorded
  BY DEF WalletRecInv, WalletInv, Balanced, SalariesAreRecorded
<1> QED BY <1>1, WalletInvariant, PTL

\* However weeks and periods overlap, a gift is paid for once to the agency
\* and once to the host, and once more per crash inside a payment (payOne,
\* payoutAutomatic, with their cycle resets).
THEOREM GiftsAlwaysPaidOnce == Spec => []GiftsArePaidOnce
<1>1. SalaryInv => GiftsArePaidOnce
  BY DEF SalaryInv, AgencyPaid, HostPaid, GiftsArePaidOnce
<1> QED BY <1>1, SalaryInvariant, PTL

\* Whoever founds, invites, assigns and removes in whatever order, a member of
\* an agency is a listed host of it or its owner.
THEOREM MembersAlwaysListed == Spec => []MembersAreListed
<1>1. SalaryInv => MembersAreListed
  BY DEF SalaryInv, Members
<1> QED BY <1>1, SalaryInvariant, PTL

\* No step changes a week that was paid.
THEOREM PaidForGood == Spec => PaidIsHistory
<1>1. SalaryInv /\ [Next]_vars =>
        [\A aw \in Paid : periods'[aw[1]][aw[2]] = periods[aw[1]][aw[2]]]_vars
  <2> SUFFICES ASSUME SalaryInv, [Next]_vars, NEW aw \in Paid
               PROVE  periods'[aw[1]][aw[2]] = periods[aw[1]][aw[2]]
    OBVIOUS
  <2>1. CASE UNCHANGED periods
    BY <2>1
  <2>2. ASSUME NEW b \in Agencies, NEW v \in Windows, NEW r, SetRecord(b, v, r),
               r = periods[b][v] \/ periods[b][v].status # "paid"
        PROVE  periods'[aw[1]][aw[2]] = periods[aw[1]][aw[2]]
    BY <2>2 DEF SetRecord, Paid, SalaryInv, AgencyPaid
  <2>3. ASSUME NEW b \in Agencies, NEW v \in Windows, Preview(b, v)
        PROVE  periods'[aw[1]][aw[2]] = periods[aw[1]][aw[2]]
    BY <2>2, <2>3 DEF Preview, CalculateRecord
  <2>4. ASSUME NEW b \in Agencies, NEW v \in Windows, NEW done, PayAgency(b, v, done)
        PROVE  periods'[aw[1]][aw[2]] = periods[aw[1]][aw[2]]
    BY <2>2, <2>4 DEF PayAgency
  <2>5. Membership \/ Pass \/ UNCHANGED vars => UNCHANGED periods
    BY MembershipFrame DEF others, Pass, vars, agencyPay
  <2>6. ASSUME NEW h, NEW done, PaysHost(h, done) PROVE UNCHANGED periods
    BY <2>6 DEF PaysHost, GrantHost, PayHost, agencyPay
  <2>7. ASSUME NEW b, NEW done, GrantAgency(b, done) PROVE UNCHANGED periods
    BY <2>7 DEF GrantAgency, agencyPay
  <2>8. ASSUME NEW h, RecordGift(h) PROVE UNCHANGED periods
    BY <2>8 DEF RecordGift, agencyPay
  <2>9. ASSUME NEW p, UpdatePolicy(p) PROVE UNCHANGED periods
    BY <2>9 DEF UpdatePolicy
  <2> QED BY <2>1, <2>3, <2>4, <2>5, <2>6, <2>7, <2>8, <2>9
          DEF Next, Payments, PaysAgency
<1> QED BY <1>1, SalaryInvariant, PTL DEF Spec, PaidIsHistory

-----------------------------------------------------------------------------
(***************************************************************************)
(* The approval workflow, for any users, requests, admins, permissions and *)
(* amounts.                                                                *)
(***************************************************************************)

UserRec == [diamonds: Nat, beans: Int, agency: Nat \cup {None}, frame: BOOLEAN,
            nameEffect: BOOLEAN, vip: BOOLEAN, seller: Nat \cup {None},
            banned: BOOLEAN]

EntryStatus == {"active", "expired", "suspended", "restored"}
Appeal == {"none", "pending", "under_review", "rejected", "restored"}

RowRec == [kind: Domain, by: Request, user: User, status: EntryStatus,
           appeal: Appeal, rate: Nat, sold: Nat]

\* Every variable of Approval has its shape.
ApprovalTyped ==
    /\ req \in [Request -> {None} \cup Requests]
    /\ users \in [User -> UserRec]
    /\ rows \in Seq(RowRec)
    /\ applied \in [Request -> Nat]
    /\ forced \in [Request -> Nat]
    /\ clamped \in [User -> Nat]

-----------------------------------------------------------------------------
(* The registries.                                                         *)

LEMMA RowIndices ==
    ASSUME ApprovalTyped
    PROVE  /\ Len(rows) \in Nat /\ DOMAIN rows = 1..Len(rows)
           /\ \A i \in DOMAIN rows : rows[i] \in RowRec
BY DEF ApprovalTyped

\* A new entry, and an entry that changes.
LEMMA RowAppended ==
    ASSUME ApprovalTyped, NEW e \in RowRec, rows' = Append(rows, e)
    PROVE  /\ rows' \in Seq(RowRec)
           /\ DOMAIN rows' = DOMAIN rows \cup {Len(rows) + 1}
           /\ Len(rows) + 1 \notin DOMAIN rows
           /\ rows'[Len(rows) + 1] = e
           /\ \A i \in DOMAIN rows : rows'[i] = rows[i]
<1> DEFINE n == Len(rows)
<1>1. rows \in Seq(RowRec) /\ n \in Nat /\ DOMAIN rows = 1..n
  BY DEF ApprovalTyped
<1>2. /\ rows' \in Seq(RowRec) /\ DOMAIN rows' = 1..(n + 1)
      /\ rows'[n + 1] = e /\ \A i \in 1..n : rows'[i] = rows[i]
  BY <1>1
<1>3. 1..(n + 1) = 1..n \cup {n + 1} /\ n + 1 \notin 1..n
  BY <1>1
<1> QED BY <1>1, <1>2, <1>3

LEMMA RowReplaced ==
    ASSUME ApprovalTyped, NEW i \in DOMAIN rows, NEW e \in RowRec,
           rows' = [rows EXCEPT ![i] = e]
    PROVE  /\ rows' \in Seq(RowRec) /\ DOMAIN rows' = DOMAIN rows
           /\ rows'[i] = e
           /\ \A j \in DOMAIN rows \ {i} : rows'[j] = rows[j]
<1>1. rows \in Seq(RowRec) /\ Len(rows) \in Nat /\ DOMAIN rows = 1..Len(rows)
  BY DEF ApprovalTyped
<1> QED BY <1>1

\* The entry NewRow creates.
LEMMA NewRowTyped ==
    ASSUME ApprovalTyped, NEW r \in Request, req[r] # None,
           NEW rate \in Nat, NewRow(r, rate)
    PROVE  \E e \in RowRec : /\ rows' = Append(rows, e)
                             /\ e.kind = req[r].domain /\ e.user = req[r].user
                             /\ e.status = "active" /\ e.sold = 0
<1> DEFINE e == [kind |-> req[r].domain, by |-> r,
                 user |-> req[r].user, status |-> "active",
                 appeal |-> "none", rate |-> rate, sold |-> 0]
<1>1. req[r] \in Requests
  BY DEF ApprovalTyped
<1>2. /\ e \in RowRec
      /\ e.kind = req[r].domain /\ e.user = req[r].user
      /\ e.status = "active" /\ e.sold = 0
  BY <1>1 DEF RowRec, Requests, EntryStatus, Appeal
<1>3. rows' = Append(rows, e)
  BY DEF NewRow
<1> QED BY <1>2, <1>3

\* What becomes of an entry.
EntryStep(i) ==
    \E e \in RowRec : /\ rows' = [rows EXCEPT ![i] = e]
                      /\ e.kind = rows[i].kind /\ e.user = rows[i].user
                      /\ e.sold = rows[i].sold

LEMMA SetRowTyped ==
    ASSUME ApprovalTyped, NEW a, NEW i \in DOMAIN rows, NEW perm, NEW kind,
           NEW expected, NEW status \in EntryStatus, SetRow(a, i, perm, kind, expected, status)
    PROVE  EntryStep(i)
<1> DEFINE e == [rows[i] EXCEPT !.status = status]
<1>1. rows[i] \in RowRec
  BY RowIndices
<1>2. /\ e \in RowRec /\ e.kind = rows[i].kind /\ e.user = rows[i].user
      /\ e.sold = rows[i].sold
  BY <1>1 DEF RowRec
<1>3. rows' = [rows EXCEPT ![i] = e]
  BY DEF SetRow
<1> QED BY <1>2, <1>3 DEF EntryStep

\* Every step on an entry, but a sale.
LEMMA RowStepTyped ==
    ASSUME ApprovalTyped, NEW a, NEW i \in DOMAIN rows, RowStep(a, i)
    PROVE  /\ \/ EntryStep(i)
              \/ \E buyer \in User : Sell(a, i, buyer)
           /\ UNCHANGED <<req, applied, forced>>
<1>1. rows[i] \in RowRec
  BY RowIndices
<1>2. ASSUME RenewVip(a, i) \/ ExpireVip(a, i) \/ SuspendSeller(a, i)
             \/ RestoreSeller(a, i) \/ RestoreBan(a, i) \/ ReopenBan(a, i)
      PROVE  EntryStep(i) /\ UNCHANGED <<req, applied, forced>>
  <2>0. {"active", "expired", "suspended", "restored"} \subseteq EntryStatus
    BY DEF EntryStatus
  <2>1. CASE RenewVip(a, i)
    BY <2>0, <2>1, SetRowTyped DEF RenewVip, SetRow
  <2>2. CASE ExpireVip(a, i)
    BY <2>0, <2>2, SetRowTyped DEF ExpireVip, SetRow
  <2>3. CASE SuspendSeller(a, i)
    BY <2>0, <2>3, SetRowTyped DEF SuspendSeller, SetRow
  <2>4. CASE RestoreSeller(a, i)
    BY <2>0, <2>4, SetRowTyped DEF RestoreSeller, SetRow
  <2>5. CASE RestoreBan(a, i)
    BY <2>0, <2>5, SetRowTyped DEF RestoreBan, SetRow
  <2>6. CASE ReopenBan(a, i)
    BY <2>0, <2>6, SetRowTyped DEF ReopenBan, SetRow
  <2> QED BY <1>2, <2>1, <2>2, <2>3, <2>4, <2>5, <2>6
<1>3. ASSUME SweepVip(i) PROVE EntryStep(i) /\ UNCHANGED <<req, applied, forced>>
  <2> DEFINE e == [rows[i] EXCEPT !.status = "expired"]
  <2>1. /\ e \in RowRec /\ e.kind = rows[i].kind /\ e.user = rows[i].user
        /\ e.sold = rows[i].sold
    BY <1>1 DEF RowRec, EntryStatus, Appeal
  <2>2. rows' = [rows EXCEPT ![i] = e] /\ UNCHANGED <<req, applied, forced>>
    BY <1>3 DEF SweepVip
  <2> QED BY <2>1, <2>2 DEF EntryStep
<1>4. ASSUME NEW rate \in Rates, SetCommission(a, i, rate)
      PROVE  EntryStep(i) /\ UNCHANGED <<req, applied, forced>>
  <2> DEFINE e == [rows[i] EXCEPT !.rate = rate]
  <2>0. rate \in Nat
    BY ApprovalAssumption
  <2>1. /\ e \in RowRec /\ e.kind = rows[i].kind /\ e.user = rows[i].user
        /\ e.sold = rows[i].sold
    BY <1>1, <2>0 DEF RowRec
  <2>2. rows' = [rows EXCEPT ![i] = e] /\ UNCHANGED <<req, applied, forced>>
    BY <1>4 DEF SetCommission
  <2> QED BY <2>1, <2>2 DEF EntryStep
<1>5. ASSUME NEW appeal \in Appeal, UNCHANGED <<req, applied, forced>>,
             rows' = [rows EXCEPT ![i].appeal = appeal]
      PROVE  EntryStep(i)
  <2> DEFINE e == [rows[i] EXCEPT !.appeal = appeal]
  <2>1. /\ e \in RowRec /\ e.kind = rows[i].kind /\ e.user = rows[i].user
        /\ e.sold = rows[i].sold
    BY <1>1 DEF RowRec, EntryStatus, Appeal
  <2> QED BY <1>5, <2>1 DEF EntryStep
<1>6. ASSUME AppealBan(i) \/ ReviewAppeal(a, i) \/ RejectAppeal(a, i)
      PROVE  EntryStep(i) /\ UNCHANGED <<req, applied, forced>>
  BY <1>5, <1>6 DEF AppealBan, ReviewAppeal, RejectAppeal, SetAppeal, Appeal
<1>7. ASSUME GrantAppeal(a, i) PROVE EntryStep(i) /\ UNCHANGED <<req, applied, forced>>
  <2> DEFINE e == [rows[i] EXCEPT !.appeal = "restored", !.status = "restored"]
  <2>1. /\ e \in RowRec /\ e.kind = rows[i].kind /\ e.user = rows[i].user
        /\ e.sold = rows[i].sold
    BY <1>1 DEF RowRec, EntryStatus, Appeal
  <2>2. rows' = [rows EXCEPT ![i] = e] /\ UNCHANGED <<req, applied, forced>>
    BY <1>7 DEF GrantAppeal
  <2> QED BY <2>1, <2>2 DEF EntryStep
<1>8. ASSUME NEW buyer \in User, Sell(a, i, buyer)
      PROVE  UNCHANGED <<req, applied, forced>>
  BY <1>8 DEF Sell
<1> QED BY <1>2, <1>3, <1>4, <1>6, <1>7, <1>8 DEF RowStep

-----------------------------------------------------------------------------
(* The effects of an approval.                                             *)

LEMMA SmallerOfTwo ==
    ASSUME NEW x \in Int, NEW y \in Int
    PROVE  Min({x, y}) = IF x <= y THEN x ELSE y
<1> DEFINE m == IF x <= y THEN x ELSE y
<1>1. m \in {x, y} /\ \A z \in {x, y} : m <= z
  OBVIOUS
<1>2. \A w \in {x, y} : (\A z \in {x, y} : w <= z) => w = m
  OBVIOUS
<1> HIDE DEF m
<1>3. Min({x, y}) = m
  BY <1>1, <1>2 DEF Min
<1> QED BY <1>3 DEF m

Holding == [u \in User |-> users[u].diamonds + clamped[u]]

\* The profile of u changes to e and nobody else's.
LEMMA UserSet ==
    ASSUME ApprovalTyped, NEW u \in User, NEW e \in UserRec,
           users' = [users EXCEPT ![u] = e]
    PROVE  /\ users' \in [User -> UserRec] /\ users'[u] = e
           /\ \A v \in User \ {u} : users'[v] = users[v]
BY DEF ApprovalTyped

\* What the ceiling cuts off a credit is accounted for.
LEMMA CreditTyped ==
    ASSUME ApprovalTyped, NEW u \in User, Credit(u, 1)
    PROVE  /\ users' \in [User -> UserRec] /\ clamped' \in [User -> Nat]
           /\ \A v \in User \ {u} : users'[v] = users[v] /\ clamped'[v] = clamped[v]
           /\ Holding'[u] = Holding[u] + 1
           /\ users'[u].vip = users[u].vip /\ users'[u].seller = users[u].seller
           /\ users'[u].banned = users[u].banned
<1> DEFINE total == users[u].diamonds + 1
           m == Min({total, Ceiling})
           e == [users[u] EXCEPT !.diamonds = m]
<1>1. users[u] \in UserRec /\ users[u].diamonds \in Nat /\ clamped[u] \in Nat
  BY DEF ApprovalTyped, UserRec
<1>2. Ceiling \in Nat
  BY ApprovalAssumption
<1>3. users' = [users EXCEPT ![u] = e]
  BY DEF Credit
<1>4. clamped' = [clamped EXCEPT ![u] = @ + (total - m)]
  BY DEF Credit
<1>5. m = IF total <= Ceiling THEN total ELSE Ceiling
  BY <1>1, <1>2, SmallerOfTwo
<1>6. m \in Nat /\ m <= total
  BY <1>1, <1>2, <1>5
<1> HIDE DEF m
<1>7. /\ e \in UserRec /\ e.diamonds = m /\ e.vip = users[u].vip
      /\ e.seller = users[u].seller /\ e.banned = users[u].banned
  BY <1>1, <1>6 DEF UserRec
<1>8. /\ users' \in [User -> UserRec] /\ users'[u] = e
      /\ \A v \in User \ {u} : users'[v] = users[v]
  <2> HIDE DEF e
  <2> QED BY <1>3, <1>7, UserSet
<1>9. total - m \in Nat /\ clamped[u] + (total - m) \in Nat
  BY <1>1, <1>6
<1>10. /\ clamped' \in [User -> Nat] /\ clamped'[u] = clamped[u] + (total - m)
       /\ \A v \in User \ {u} : clamped'[v] = clamped[v]
  <2> HIDE DEF total
  <2> QED BY <1>4, <1>9 DEF ApprovalTyped
<1>11. Holding'[u] = m + (clamped[u] + (total - m))
  BY <1>7, <1>8, <1>10 DEF Holding
<1>12. Holding'[u] = Holding[u] + 1
  BY <1>1, <1>6, <1>11 DEF Holding
<1> HIDE DEF e
<1> QED BY <1>7, <1>8, <1>10, <1>12

\* What an approval does to the profile of the request's user.
Effect(r) ==
    LET u == req[r].user
        d == req[r].domain
    IN
    /\ users' \in [User -> UserRec] /\ clamped' \in [User -> Nat]
    /\ \A v \in User \ {u} : users'[v] = users[v] /\ clamped'[v] = clamped[v]
    /\ Holding'[u] = CASE d = "recharge" -> Holding[u] + 1
                       [] d = "withdraw" -> Holding[u] - 1
                       [] OTHER -> Holding[u]
    /\ IF d = "vip" THEN ~users[u].vip /\ users'[u].vip
                    ELSE users'[u].vip = users[u].vip
    /\ IF d = "seller" THEN /\ users[u].seller = None
                            /\ users'[u].seller = Len(rows) + 1
                       ELSE users'[u].seller = users[u].seller
    /\ IF d = "ban" THEN ~users[u].banned /\ users'[u].banned
                    ELSE users'[u].banned = users[u].banned

Opens(r) ==
    IF req[r].domain \in {"agency", "gifts", "vip", "seller", "ban"}
    THEN \E e \in RowRec : /\ rows' = Append(rows, e)
                           /\ e.kind = req[r].domain /\ e.user = req[r].user
                           /\ e.status = "active" /\ e.sold = 0
    ELSE UNCHANGED rows

LEMMA ProfileSet ==
    ASSUME ApprovalTyped, NEW r \in Request, req[r] # None,
           NEW e \in UserRec, users' = [users EXCEPT ![req[r].user] = e],
           UNCHANGED clamped,
           LET u == req[r].user
               d == req[r].domain
           IN /\ e.diamonds = IF d = "withdraw" THEN users[u].diamonds - 1
                                               ELSE users[u].diamonds
              /\ d # "recharge"
              /\ IF d = "vip" THEN ~users[u].vip /\ e.vip ELSE e.vip = users[u].vip
              /\ IF d = "seller" THEN users[u].seller = None /\ e.seller = Len(rows) + 1
                                 ELSE e.seller = users[u].seller
              /\ IF d = "ban" THEN ~users[u].banned /\ e.banned
                              ELSE e.banned = users[u].banned
    PROVE  Effect(r)
<1> DEFINE u == req[r].user
<1>1. u \in User
  BY DEF ApprovalTyped, Requests
<1>2. /\ users' \in [User -> UserRec] /\ users'[u] = e
      /\ \A v \in User \ {u} : users'[v] = users[v]
  BY <1>1, UserSet
<1>3. clamped \in [User -> Nat] /\ users[u].diamonds \in Nat
  BY <1>1 DEF ApprovalTyped, UserRec
<1>4. Holding'[u] = IF req[r].domain = "withdraw" THEN Holding[u] - 1 ELSE Holding[u]
  <2>1. Holding'[u] = e.diamonds + clamped[u]
    BY <1>2 DEF Holding
  <2>2. clamped[u] \in Nat
    BY <1>1, <1>3
  <2>3. e.diamonds = IF req[r].domain = "withdraw" THEN users[u].diamonds - 1
                                                   ELSE users[u].diamonds
    OBVIOUS
  <2>4. Holding[u] = users[u].diamonds + clamped[u]
    BY <1>1 DEF Holding
  <2> HIDE DEF u
  <2> QED BY <1>3, <2>1, <2>2, <2>3, <2>4
<1> QED BY <1>1, <1>2, <1>3, <1>4 DEF Effect

LEMMA EffectOfApproval ==
    ASSUME ApprovalTyped, NEW r \in Request, req[r] # None,
           OnApprove(r) \/ ApproveAgency(r)
    PROVE  Effect(r) /\ Opens(r)
<1> DEFINE u == req[r].user
<1>0. /\ req[r] \in Requests /\ u \in User /\ users[u] \in UserRec
      /\ 0 \in Nat /\ Rates \subseteq Nat /\ Len(rows) + 1 \in Nat
  BY ApprovalAssumption, RowIndices DEF ApprovalTyped, Requests
<1>1. CASE ApproveRecharge(r)
  <2>1. req[r].domain = "recharge" /\ Credit(u, 1) /\ UNCHANGED rows
    BY <1>1 DEF ApproveRecharge
  <2> QED BY <1>0, <2>1, CreditTyped DEF Effect, Opens
<1>2. CASE ApproveWithdraw(r)
  <2> DEFINE e == [users[u] EXCEPT !.diamonds = @ - 1]
  <2>1. /\ e \in UserRec /\ e.diamonds = users[u].diamonds - 1 /\ e.vip = users[u].vip
        /\ e.seller = users[u].seller /\ e.banned = users[u].banned
    BY <1>0, <1>2 DEF UserRec, ApproveWithdraw
  <2>2. /\ req[r].domain = "withdraw" /\ users' = [users EXCEPT ![u] = e]
        /\ UNCHANGED <<rows, clamped>>
    BY <1>2 DEF ApproveWithdraw
  <2> HIDE DEF e
  <2> QED BY <2>1, <2>2, ProfileSet DEF Opens
<1>3. CASE ApproveAgency(r)
  <2> DEFINE e == [users[u] EXCEPT !.agency = Len(rows) + 1]
  <2>1. /\ e \in UserRec /\ e.diamonds = users[u].diamonds /\ e.vip = users[u].vip
        /\ e.seller = users[u].seller /\ e.banned = users[u].banned
    BY <1>0 DEF UserRec
  <2>2. /\ req[r].domain = "agency" /\ users' = [users EXCEPT ![u] = e]
        /\ UNCHANGED clamped /\ NewRow(r, 0)
    BY <1>3 DEF ApproveAgency
  <2> HIDE DEF e
  <2>3. Effect(r)
    BY <2>1, <2>2, ProfileSet
  <2> QED BY <1>0, <2>2, <2>3, NewRowTyped DEF Opens
<1>4. CASE ApproveGift(r)
  <2>1. /\ req[r].domain = "gifts" /\ UNCHANGED <<users, clamped>> /\ NewRow(r, 0)
    BY <1>4 DEF ApproveGift
  <2>2. Holding'[u] = Holding[u]
    BY <2>1 DEF Holding
  <2>3. Effect(r)
    BY <2>1, <2>2 DEF Effect, ApprovalTyped
  <2> QED BY <1>0, <2>1, <2>3, NewRowTyped DEF Opens
<1>5. CASE ApproveFrame(r)
  <2> DEFINE e == [users[u] EXCEPT !.frame = TRUE]
  <2>1. /\ e \in UserRec /\ e.diamonds = users[u].diamonds /\ e.vip = users[u].vip
        /\ e.seller = users[u].seller /\ e.banned = users[u].banned
    BY <1>0 DEF UserRec
  <2>2. /\ req[r].domain = "frames" /\ users' = [users EXCEPT ![u] = e]
        /\ UNCHANGED <<clamped, rows>>
    BY <1>5 DEF ApproveFrame
  <2> HIDE DEF e
  <2> QED BY <2>1, <2>2, ProfileSet DEF Opens
<1>6. CASE ApproveNameEffect(r)
  <2> DEFINE e == [users[u] EXCEPT !.nameEffect = TRUE]
  <2>1. /\ e \in UserRec /\ e.diamonds = users[u].diamonds /\ e.vip = users[u].vip
        /\ e.seller = users[u].seller /\ e.banned = users[u].banned
    BY <1>0 DEF UserRec
  <2>2. /\ req[r].domain = "namefx" /\ users' = [users EXCEPT ![u] = e]
        /\ UNCHANGED <<clamped, rows>>
    BY <1>6 DEF ApproveNameEffect
  <2> HIDE DEF e
  <2> QED BY <2>1, <2>2, ProfileSet DEF Opens
<1>7. CASE ApproveVip(r)
  <2> DEFINE e == [users[u] EXCEPT !.vip = TRUE]
  <2>1. /\ e \in UserRec /\ e.diamonds = users[u].diamonds /\ e.vip
        /\ e.seller = users[u].seller /\ e.banned = users[u].banned
    BY <1>0 DEF UserRec
  <2>2. /\ req[r].domain = "vip" /\ users' = [users EXCEPT ![u] = e]
        /\ UNCHANGED clamped /\ NewRow(r, 0) /\ ~users[u].vip
    BY <1>7 DEF ApproveVip
  <2> HIDE DEF e
  <2>3. Effect(r)
    BY <2>1, <2>2, ProfileSet
  <2> QED BY <1>0, <2>2, <2>3, NewRowTyped DEF Opens
<1>8. CASE ApproveSeller(r)
  <2> DEFINE e == [users[u] EXCEPT !.seller = Len(rows) + 1]
  <2>1. /\ e \in UserRec /\ e.diamonds = users[u].diamonds /\ e.vip = users[u].vip
        /\ e.seller = Len(rows) + 1 /\ e.banned = users[u].banned
    BY <1>0 DEF UserRec
  <2>2. /\ req[r].domain = "seller" /\ users' = [users EXCEPT ![u] = e]
        /\ UNCHANGED clamped /\ users[u].seller = None
    BY <1>8 DEF ApproveSeller
  <2> HIDE DEF e
  <2>3. Effect(r)
    BY <2>1, <2>2, ProfileSet
  <2>4. PICK rate \in Nat : NewRow(r, rate)
    BY <1>0, <1>8 DEF ApproveSeller
  <2> QED BY <1>0, <2>2, <2>3, <2>4, NewRowTyped DEF Opens
<1>9. CASE ApproveBan(r)
  <2> DEFINE e == [users[u] EXCEPT !.banned = TRUE]
  <2>1. /\ e \in UserRec /\ e.diamonds = users[u].diamonds /\ e.banned
        /\ e.seller = users[u].seller /\ e.vip = users[u].vip
    BY <1>0 DEF UserRec
  <2>2. /\ req[r].domain = "ban" /\ users' = [users EXCEPT ![u] = e]
        /\ UNCHANGED clamped /\ NewRow(r, 0) /\ ~users[u].banned
    BY <1>9 DEF ApproveBan
  <2> HIDE DEF e
  <2>3. Effect(r)
    BY <2>1, <2>2, ProfileSet
  <2> QED BY <1>0, <2>2, <2>3, NewRowTyped DEF Opens
<1> QED BY <1>1, <1>2, <1>3, <1>4, <1>5, <1>6, <1>7, <1>8, <1>9 DEF OnApprove

-----------------------------------------------------------------------------
(* The shape of every step.                                                *)

\* A decision moves its request; only an approval does anything else.
LEMMA DecisionShape ==
    ASSUME ApprovalTyped, NEW a, NEW r \in Request, req[r] # None, Decide(a, r)
    PROVE  /\ UNCHANGED diverged
           /\ \E s \in Status :
                 /\ MoveTo(r, s)
                 /\ IF s = "approved"
                    THEN /\ applied' = [applied EXCEPT ![r] = @ + 1]
                         /\ Effect(r) /\ Opens(r)
                         /\ req[r].status = "approved" => req[r].domain = "agency"
                    ELSE UNCHANGED <<applied, users, rows, clamped>>
<1>0. {"pending", "review", "approved", "rejected"} = Status
  BY DEF Status
<1>1. ASSUME NEW s \in Status, s # "approved", MoveTo(r, s),
             UNCHANGED <<users, rows, applied, clamped, diverged>>
      PROVE  /\ UNCHANGED diverged
             /\ \E q \in Status :
                   /\ MoveTo(r, q)
                   /\ IF q = "approved"
                      THEN /\ applied' = [applied EXCEPT ![r] = @ + 1]
                           /\ Effect(r) /\ Opens(r)
                           /\ req[r].status = "approved" => req[r].domain = "agency"
                      ELSE UNCHANGED <<applied, users, rows, clamped>>
  BY <1>1
<1>2. CASE Review(a, r) \/ AgencyReview(a, r)
  BY <1>0, <1>1, <1>2 DEF Review, AgencyReview, ToReview
<1>3. CASE Reject(a, r) \/ AgencyReject(a, r)
  BY <1>0, <1>1, <1>3 DEF Reject, AgencyReject, ToRejected
<1>4. CASE Reopen(a, r) \/ AgencyReopen(a, r)
  BY <1>0, <1>1, <1>4 DEF Reopen, AgencyReopen, ToPending
<1>5. CASE Approve(a, r) \/ AgencyApprove(a, r)
  <2>1. Effect(r) /\ Opens(r)
    BY <1>5, EffectOfApproval DEF Approve, AgencyApprove
  <2>2. /\ MoveTo(r, "approved") /\ UNCHANGED diverged
        /\ applied' = [applied EXCEPT ![r] = @ + 1]
        /\ req[r].status = "approved" => req[r].domain = "agency"
    BY <1>5 DEF Approve, AgencyApprove, ApproveAgency, ToApproved
  <2> QED BY <1>0, <2>1, <2>2
<1> QED BY <1>2, <1>3, <1>4, <1>5 DEF Decide

LEMMA MoveTyped ==
    ASSUME ApprovalTyped, NEW r \in Request, req[r] # None, NEW s \in Status,
           MoveTo(r, s)
    PROVE  /\ req' \in [Request -> {None} \cup Requests]
           /\ req'[r] = [req[r] EXCEPT !.status = s]
           /\ req'[r].status = s /\ req'[r].domain = req[r].domain
           /\ req'[r].user = req[r].user
           /\ \A q \in Request \ {r} : req'[q] = req[q]
           /\ forced' \in [Request -> Nat]
           /\ forced'[r] = IF req[r].status = "approved" THEN forced[r] + 1 ELSE forced[r]
           /\ \A q \in Request \ {r} : forced'[q] = forced[q]
<1> DEFINE e == [req[r] EXCEPT !.status = s]
           n == IF req[r].status = "approved" THEN forced[r] + 1 ELSE forced[r]
<1>1. req[r] \in Requests /\ forced[r] \in Nat
  BY DEF ApprovalTyped
<1>2. /\ e \in Requests /\ e.status = s /\ e.domain = req[r].domain /\ e.user = req[r].user
  BY <1>1 DEF Requests
<1>3. req' = [req EXCEPT ![r] = e]
  BY DEF MoveTo
<1>4. n \in Nat /\ n = forced[r] + IF req[r].status = "approved" THEN 1 ELSE 0
  BY <1>1
<1>5. forced' = [forced EXCEPT ![r] = n]
  BY <1>4 DEF MoveTo
<1> HIDE DEF n
<1>6. /\ req' \in [Request -> {None} \cup Requests] /\ req'[r] = e
      /\ \A q \in Request \ {r} : req'[q] = req[q]
  <2> HIDE DEF e
  <2> QED BY <1>2, <1>3 DEF ApprovalTyped
<1>7. /\ forced' \in [Request -> Nat] /\ forced'[r] = n
      /\ \A q \in Request \ {r} : forced'[q] = forced[q]
  BY <1>4, <1>5 DEF ApprovalTyped
<1> QED BY <1>2, <1>6, <1>7 DEF n

\* A sale: the buyer's Diamonds and the entry's count grow by as much.
LEMMA SaleShape ==
    ASSUME ApprovalTyped, NEW a, NEW i \in DOMAIN rows, NEW buyer \in User,
           Sell(a, i, buyer)
    PROVE  /\ \E e \in RowRec :
                 /\ rows' = [rows EXCEPT ![i] = e]
                 /\ e.kind = rows[i].kind /\ e.user = rows[i].user
                 /\ e.status = rows[i].status
                 /\ e.sold = rows[i].sold + SaleAmount
           /\ users' \in [User -> UserRec] /\ clamped' \in [User -> Nat]
           /\ Holding'[buyer] = Holding[buyer] + SaleAmount
           /\ \A u \in User \ {buyer} : Holding'[u] = Holding[u]
           /\ \A u \in User : /\ users'[u].vip = users[u].vip
                              /\ users'[u].seller = users[u].seller
                              /\ users'[u].banned = users[u].banned
           /\ UNCHANGED <<req, applied, forced, diverged>>
<1> DEFINE seller == rows[i].user
           total == users[buyer].diamonds + SaleAmount
           paid == Min({total, Ceiling})
           share == (SaleAmount * rows[i].rate) \div 100
           e == [rows[i] EXCEPT !.sold = @ + SaleAmount]
           f(u) == [users[u] EXCEPT
                      !.diamonds = IF u = buyer THEN paid ELSE @,
                      !.beans = IF u = seller THEN @ + share ELSE @]
<1>1. /\ rows[i] \in RowRec /\ SaleAmount \in Nat /\ Ceiling \in Nat
      /\ \A u \in User : users[u] \in UserRec /\ clamped[u] \in Nat
  BY RowIndices, ApprovalAssumption DEF ApprovalTyped
<1>2. /\ e \in RowRec /\ e.kind = rows[i].kind /\ e.user = rows[i].user
      /\ e.status = rows[i].status /\ e.sold = rows[i].sold + SaleAmount
  BY <1>1 DEF RowRec
<1>3. rows' = [rows EXCEPT ![i] = e] /\ UNCHANGED <<req, applied, forced, diverged>>
  BY DEF Sell
<1>4. users' = [u \in User |-> f(u)]
  BY DEF Sell
<1>5. clamped' = [clamped EXCEPT ![buyer] = @ + (total - paid)]
  BY DEF Sell
<1>6. share \in Int
  <2>1. rows[i].rate \in Nat
    BY <1>1 DEF RowRec
  <2>2. \A x, y \in Nat : x * y \in Nat
    OBVIOUS
  <2> DEFINE product == SaleAmount * rows[i].rate
  <2>3. product \in Nat
    BY <1>1, <2>1, <2>2
  <2>4. share = product \div 100
    OBVIOUS
  <2> HIDE DEF product, share
  <2> QED BY <2>3, <2>4
<1>7. total \in Nat /\ paid \in Nat /\ paid <= total
  <2>1. total \in Nat
    BY <1>1 DEF UserRec
  <2> HIDE DEF total
  <2> QED BY <1>1, <2>1, SmallerOfTwo
<1> HIDE DEF share, paid, total, seller, e
<1>8. \A u \in User : /\ f(u) \in UserRec /\ f(u).vip = users[u].vip
                      /\ f(u).seller = users[u].seller /\ f(u).banned = users[u].banned
                      /\ f(u).diamonds = IF u = buyer THEN paid ELSE users[u].diamonds
  <2> SUFFICES ASSUME NEW u \in User
               PROVE  /\ f(u) \in UserRec /\ f(u).vip = users[u].vip
                      /\ f(u).seller = users[u].seller /\ f(u).banned = users[u].banned
                      /\ f(u).diamonds = IF u = buyer THEN paid ELSE users[u].diamonds
    OBVIOUS
  <2> DEFINE x == IF u = buyer THEN paid ELSE users[u].diamonds
             y == IF u = seller THEN users[u].beans + share ELSE users[u].beans
  <2>1. users[u] \in UserRec /\ users[u].diamonds \in Nat /\ users[u].beans \in Int
    BY <1>1 DEF UserRec
  <2>2. x \in Nat /\ y \in Int
    BY <1>6, <1>7, <2>1
  <2>3. f(u) = [users[u] EXCEPT !.diamonds = x, !.beans = y]
    OBVIOUS
  <2> HIDE DEF x, y, f
  <2>4. /\ f(u) \in UserRec /\ f(u).vip = users[u].vip /\ f(u).diamonds = x
        /\ f(u).seller = users[u].seller /\ f(u).banned = users[u].banned
    BY <2>1, <2>2, <2>3 DEF UserRec
  <2> QED BY <2>4 DEF x
<1> HIDE DEF f
<1>9. /\ users' \in [User -> UserRec]
      /\ \A u \in User : users'[u] = f(u)
  BY <1>4, <1>8
<1>10. total - paid \in Nat /\ clamped[buyer] + (total - paid) \in Nat
  BY <1>1, <1>7
<1>11. /\ clamped' \in [User -> Nat]
       /\ clamped'[buyer] = clamped[buyer] + (total - paid)
       /\ \A u \in User \ {buyer} : clamped'[u] = clamped[u]
  BY <1>5, <1>10 DEF ApprovalTyped
<1>12. Holding'[buyer] = paid + (clamped[buyer] + (total - paid))
  BY <1>8, <1>9, <1>11 DEF Holding
<1>13. Holding'[buyer] = clamped[buyer] + total
  BY <1>1, <1>7, <1>12
<1>14. Holding[buyer] = users[buyer].diamonds + clamped[buyer]
       /\ users[buyer].diamonds \in Nat
  BY <1>1 DEF Holding, UserRec
<1>15. Holding'[buyer] = Holding[buyer] + SaleAmount
  BY <1>1, <1>13, <1>14 DEF total
<1>16. \A u \in User \ {buyer} : Holding'[u] = Holding[u]
  BY <1>8, <1>9, <1>11 DEF Holding
<1> QED BY <1>2, <1>3, <1>8, <1>9, <1>11, <1>15, <1>16

\* Every other step on an entry: no Diamonds move, and the flag of its kind is
\* the only one that may change, of its user.
LEMMA EntryUsers ==
    ASSUME ApprovalTyped, NEW a, NEW i \in DOMAIN rows, RowStep(a, i),
           \A buyer \in User : ~Sell(a, i, buyer)
    PROVE  /\ users' \in [User -> UserRec] /\ UNCHANGED clamped
           /\ \A u \in User :
                 /\ users'[u].diamonds = users[u].diamonds
                 /\ users'[u].seller = users[u].seller
                 /\ rows[i].kind # "vip" \/ u # rows[i].user =>
                       users'[u].vip = users[u].vip
                 /\ rows[i].kind # "ban" \/ u # rows[i].user =>
                       users'[u].banned = users[u].banned
<1> DEFINE w == rows[i].user
<1>1. w \in User /\ users[w] \in UserRec
  BY RowIndices DEF ApprovalTyped, RowRec
<1>2. CASE UNCHANGED <<users, clamped>>
  BY <1>2 DEF ApprovalTyped
<1>3. ASSUME NEW x \in BOOLEAN, users' = [users EXCEPT ![w].vip = x],
             rows[i].kind = "vip", UNCHANGED clamped
      PROVE  /\ users' \in [User -> UserRec] /\ UNCHANGED clamped
             /\ \A u \in User :
                   /\ users'[u].diamonds = users[u].diamonds
                   /\ users'[u].seller = users[u].seller
                   /\ rows[i].kind # "vip" \/ u # rows[i].user =>
                         users'[u].vip = users[u].vip
                   /\ rows[i].kind # "ban" \/ u # rows[i].user =>
                         users'[u].banned = users[u].banned
  <2> DEFINE e == [users[w] EXCEPT !.vip = x]
  <2>1. /\ e \in UserRec /\ e.diamonds = users[w].diamonds
        /\ e.seller = users[w].seller /\ e.banned = users[w].banned
    BY <1>1 DEF UserRec
  <2>2. users' = [users EXCEPT ![w] = e]
    BY <1>3
  <2> HIDE DEF e
  <2>3. /\ users' \in [User -> UserRec] /\ users'[w] = e
        /\ \A u \in User \ {w} : users'[u] = users[u]
    BY <1>1, <2>1, <2>2, UserSet
  <2> QED BY <1>3, <2>1, <2>3
<1>4. ASSUME NEW x \in BOOLEAN, SetBanned(w, x),
             rows[i].kind = "ban", UNCHANGED clamped
      PROVE  /\ users' \in [User -> UserRec] /\ UNCHANGED clamped
             /\ \A u \in User :
                   /\ users'[u].diamonds = users[u].diamonds
                   /\ users'[u].seller = users[u].seller
                   /\ rows[i].kind # "vip" \/ u # rows[i].user =>
                         users'[u].vip = users[u].vip
                   /\ rows[i].kind # "ban" \/ u # rows[i].user =>
                         users'[u].banned = users[u].banned
  <2> DEFINE e == [users[w] EXCEPT !.banned = x]
  <2>1. /\ e \in UserRec /\ e.diamonds = users[w].diamonds
        /\ e.seller = users[w].seller /\ e.vip = users[w].vip
    BY <1>1 DEF UserRec
  <2>2. users' = [users EXCEPT ![w] = e]
    BY <1>4 DEF SetBanned
  <2> HIDE DEF e
  <2>3. /\ users' \in [User -> UserRec] /\ users'[w] = e
        /\ \A u \in User \ {w} : users'[u] = users[u]
    BY <1>1, <2>1, <2>2, UserSet
  <2> QED BY <1>4, <2>1, <2>3
<1>5. CASE RenewVip(a, i)
  BY <1>3, <1>5 DEF RenewVip, SetRow
<1>6. CASE ExpireVip(a, i)
  BY <1>3, <1>6 DEF ExpireVip, SetRow
<1>7. CASE SweepVip(i)
  BY <1>3, <1>7 DEF SweepVip
<1>8. CASE RestoreBan(a, i)
  BY <1>4, <1>8 DEF RestoreBan, SetRow
<1>9. CASE ReopenBan(a, i)
  BY <1>4, <1>9 DEF ReopenBan, SetRow
<1>10. CASE GrantAppeal(a, i)
  BY <1>4, <1>10 DEF GrantAppeal
<1>11. CASE SuspendSeller(a, i) \/ RestoreSeller(a, i) \/ AppealBan(i)
            \/ ReviewAppeal(a, i) \/ RejectAppeal(a, i)
  BY <1>2, <1>11 DEF SuspendSeller, RestoreSeller, SetRow, AppealBan, ReviewAppeal,
                     RejectAppeal, SetAppeal
<1>12. ASSUME NEW rate, SetCommission(a, i, rate) PROVE UNCHANGED <<users, clamped>>
  BY <1>12 DEF SetCommission
<1> QED BY <1>2, <1>5, <1>6, <1>7, <1>8, <1>9, <1>10, <1>11, <1>12 DEF RowStep

-----------------------------------------------------------------------------
(* The invariants.                                                         *)

IsApproved(r) == req[r] # None /\ req[r].status = "approved"

\* An effect was applied once more than the owner took it back only while the
\* request is approved.
AppliedInv ==
    \A r \in Request :
        /\ req[r] = None => applied[r] = 0
        /\ applied[r] <= IF IsApproved(r) THEN forced[r] + 1 ELSE forced[r]

Known == {r \in Request : req[r] # None}
In(d) == {r \in Request : req[r] # None /\ req[r].domain = d}
SoldOf == [i \in DOMAIN rows |-> rows[i].sold]

DiamondInv == IsFiniteSet(Known) /\ DiamondsAreDecided

\* The entries in force of a user, as his profile shows them.
Shown(u, kind, flag) ==
    IF flag THEN \E i : Opened(u, kind, {"active"}) = {i}
            ELSE Opened(u, kind, {"active"}) = {}

RecordInv ==
    /\ \A i \in DOMAIN rows :
          rows[i].kind = "seller" => rows[i].status \in {"active", "suspended"}
    /\ \A u \in User :
          /\ Opened(u, "seller", {"active", "suspended"}) =
               IF users[u].seller = None THEN {} ELSE {users[u].seller}
          /\ <<"vip", u>> \notin diverged => Shown(u, "vip", users[u].vip)
          /\ <<"ban", u>> \notin diverged => Shown(u, "ban", users[u].banned)

ApprovalInv == ApprovalTyped /\ AppliedInv /\ DiamondInv /\ RecordInv

-----------------------------------------------------------------------------
(* Types, and the times an effect is applied.                              *)

\* A new request.
LEMMA SubmitShape ==
    ASSUME ApprovalTyped, NEW a, NEW r \in Request, NEW d \in Domain, NEW u \in User,
           Submit(a, r, d, u)
    PROVE  /\ req[r] = None /\ req' \in [Request -> {None} \cup Requests]
           /\ req'[r].status = "pending" /\ req'[r].domain = d
           /\ \A q \in Request \ {r} : req'[q] = req[q]
           /\ UNCHANGED <<users, rows, applied, forced, clamped, diverged>>
<1> DEFINE e == [domain |-> d, user |-> u, status |-> "pending"]
<1>1. e \in Requests /\ e.status = "pending" /\ e.domain = d
  BY DEF Requests, Status
<1>2. req[r] = None /\ req' = [req EXCEPT ![r] = e]
  BY DEF Submit
<1> HIDE DEF e
<1> QED BY <1>1, <1>2 DEF ApprovalTyped, Submit

LEMMA AppliedTyped ==
    ASSUME ApprovalTyped, NEW r \in Request, applied' = [applied EXCEPT ![r] = @ + 1]
    PROVE  /\ applied' \in [Request -> Nat] /\ applied'[r] = applied[r] + 1
           /\ \A q \in Request \ {r} : applied'[q] = applied[q]
<1>1. applied[r] + 1 \in Nat
  BY DEF ApprovalTyped
<1> QED BY <1>1 DEF ApprovalTyped

LEMMA OpensTyped ==
    ASSUME ApprovalTyped, NEW r, Opens(r)
    PROVE  rows' \in Seq(RowRec)
<1>1. CASE UNCHANGED rows
  BY <1>1 DEF ApprovalTyped
<1>2. CASE ~UNCHANGED rows
  <2>1. PICK e \in RowRec : rows' = Append(rows, e)
    BY <1>2 DEF Opens
  <2> QED BY <2>1, RowAppended
<1> QED BY <1>1, <1>2

\* The older endpoint.
LEMMA ToggleShape ==
    ASSUME ApprovalTyped, NEW a, NEW u \in User, ToggleBan(a, u)
    PROVE  /\ users' \in [User -> UserRec]
           /\ \A v \in User : /\ users'[v].diamonds = users[v].diamonds
                              /\ users'[v].vip = users[v].vip
                              /\ users'[v].seller = users[v].seller
                              /\ v # u => users'[v].banned = users[v].banned
           /\ diverged' = diverged \cup {<<"ban", u>>}
           /\ UNCHANGED <<req, rows, applied, forced, clamped>>
<1>1. PICK banned \in BOOLEAN : SetBanned(u, banned)
  BY DEF ToggleBan
<1> DEFINE e == [users[u] EXCEPT !.banned = banned]
<1>2. users[u] \in UserRec
  BY DEF ApprovalTyped
<1>3. /\ e \in UserRec /\ e.diamonds = users[u].diamonds /\ e.vip = users[u].vip
      /\ e.seller = users[u].seller
  BY <1>2 DEF UserRec
<1>4. users' = [users EXCEPT ![u] = e]
  BY <1>1 DEF SetBanned
<1> HIDE DEF e
<1>5. /\ users' \in [User -> UserRec] /\ users'[u] = e
      /\ \A v \in User \ {u} : users'[v] = users[v]
  BY <1>3, <1>4, UserSet
<1> QED BY <1>3, <1>5 DEF ToggleBan

LEMMA ApprovalTypeKept ==
    ASSUME ApprovalTyped, [ApprovalNext]_approvalVars PROVE ApprovalTyped'
<1>1. CASE UNCHANGED approvalVars
  BY <1>1 DEF approvalVars, ApprovalTyped
<1>2. ASSUME NEW a \in Admin, NEW r \in Request, NEW d \in Domain, NEW u \in User,
             Submit(a, r, d, u)
      PROVE  ApprovalTyped'
  BY <1>2, SubmitShape DEF ApprovalTyped
<1>3. ASSUME NEW a \in Admin, NEW r \in Request, req[r] # None, Decide(a, r)
      PROVE  ApprovalTyped'
  <2>1. PICK s \in Status :
           /\ MoveTo(r, s)
           /\ IF s = "approved"
              THEN /\ applied' = [applied EXCEPT ![r] = @ + 1]
                   /\ Effect(r) /\ Opens(r)
                   /\ req[r].status = "approved" => req[r].domain = "agency"
              ELSE UNCHANGED <<applied, users, rows, clamped>>
    BY <1>3, DecisionShape
  <2>2. req' \in [Request -> {None} \cup Requests] /\ forced' \in [Request -> Nat]
    BY <1>3, <2>1, MoveTyped
  <2>3. CASE s = "approved"
    <3>1. users' \in [User -> UserRec] /\ clamped' \in [User -> Nat]
      BY <2>1, <2>3 DEF Effect
    <3>2. applied' \in [Request -> Nat]
      BY <2>1, <2>3, AppliedTyped
    <3>3. rows' \in Seq(RowRec)
      BY <2>1, <2>3, OpensTyped
    <3> QED BY <2>2, <3>1, <3>2, <3>3 DEF ApprovalTyped
  <2>4. CASE s # "approved"
    BY <2>1, <2>2, <2>4 DEF ApprovalTyped
  <2> QED BY <2>3, <2>4
<1>4. ASSUME NEW a \in Admin, NEW i \in DOMAIN rows, RowStep(a, i)
      PROVE  ApprovalTyped'
  <2>1. ASSUME NEW buyer \in User, Sell(a, i, buyer) PROVE ApprovalTyped'
    <3>1. PICK e \in RowRec : rows' = [rows EXCEPT ![i] = e]
      BY <2>1, SaleShape
    <3>2. rows' \in Seq(RowRec)
      BY <3>1, RowReplaced
    <3> QED BY <2>1, <3>2, SaleShape DEF ApprovalTyped
  <2>2. CASE \A buyer \in User : ~Sell(a, i, buyer)
    <3>1. EntryStep(i) /\ UNCHANGED <<req, applied, forced>>
      BY <1>4, <2>2, RowStepTyped
    <3>2. PICK e \in RowRec : rows' = [rows EXCEPT ![i] = e]
      BY <3>1 DEF EntryStep
    <3>3. rows' \in Seq(RowRec)
      BY <3>2, RowReplaced
    <3>4. users' \in [User -> UserRec] /\ UNCHANGED clamped
      BY <1>4, <2>2, EntryUsers
    <3> QED BY <3>1, <3>3, <3>4 DEF ApprovalTyped
  <2> QED BY <2>1, <2>2
<1>5. ASSUME NEW a \in Admin, NEW u \in User, ToggleBan(a, u) PROVE ApprovalTyped'
  BY <1>5, ToggleShape DEF ApprovalTyped
<1> QED BY <1>1, <1>2, <1>3, <1>4, <1>5 DEF ApprovalNext

LEMMA AppliedKept ==
    ASSUME ApprovalTyped, AppliedInv, [ApprovalNext]_approvalVars PROVE AppliedInv'
<1>1. CASE UNCHANGED <<req, applied, forced>>
  BY <1>1 DEF AppliedInv, IsApproved
<1>2. ASSUME NEW a \in Admin, NEW r \in Request, NEW d \in Domain, NEW u \in User,
             Submit(a, r, d, u)
      PROVE  AppliedInv'
  <2>1. ASSUME NEW q \in Request
        PROVE  /\ req'[q] = None => applied'[q] = 0
               /\ applied'[q] <= IF IsApproved(q)' THEN forced'[q] + 1 ELSE forced'[q]
    <3>1. /\ req[r] = None /\ req'[r].status = "pending"
          /\ q # r => req'[q] = req[q]
          /\ UNCHANGED <<applied, forced>>
      BY <1>2, SubmitShape
    <3>2. /\ req[q] = None => applied[q] = 0
          /\ applied[q] <= IF IsApproved(q) THEN forced[q] + 1 ELSE forced[q]
      BY DEF AppliedInv
    <3> QED BY <3>1, <3>2 DEF IsApproved
  <2> QED BY <2>1 DEF AppliedInv
<1>3. ASSUME NEW a \in Admin, NEW r \in Request, req[r] # None, Decide(a, r)
      PROVE  AppliedInv'
  <2>1. PICK s \in Status :
           /\ MoveTo(r, s)
           /\ IF s = "approved" THEN applied' = [applied EXCEPT ![r] = @ + 1]
                                ELSE UNCHANGED applied
    BY <1>3, DecisionShape
  <2>2. /\ req'[r].status = s /\ \A q \in Request \ {r} : req'[q] = req[q]
        /\ req' \in [Request -> {None} \cup Requests]
        /\ forced'[r] = IF req[r].status = "approved" THEN forced[r] + 1 ELSE forced[r]
        /\ \A q \in Request \ {r} : forced'[q] = forced[q]
        /\ req'[r] = [req[r] EXCEPT !.status = s]
    BY <1>3, <2>1, MoveTyped
  <2>3. /\ applied'[r] = IF s = "approved" THEN applied[r] + 1 ELSE applied[r]
        /\ \A q \in Request \ {r} : applied'[q] = applied[q]
    BY <2>1, AppliedTyped
  <2>4. /\ applied[r] <= IF IsApproved(r) THEN forced[r] + 1 ELSE forced[r]
        /\ applied[r] \in Nat /\ forced[r] \in Nat
    BY DEF AppliedInv, ApprovalTyped
  <2>5. req'[r] # None
    <3>1. req[r] \in Requests
      BY <1>3 DEF ApprovalTyped
    <3>2. req'[r] \in Requests
      BY <2>2, <3>1 DEF Requests
    <3> QED BY <3>2, ApprovalAssumption
  <2>6. IsApproved(r)' <=> s = "approved"
    BY <2>2, <2>5 DEF IsApproved
  <2>7. applied'[r] <= IF IsApproved(r)' THEN forced'[r] + 1 ELSE forced'[r]
    BY <1>3, <2>2, <2>3, <2>4, <2>6 DEF IsApproved
  <2>8. ASSUME NEW q \in Request \ {r}
        PROVE  /\ req'[q] = None => applied'[q] = 0
               /\ applied'[q] <= IF IsApproved(q)' THEN forced'[q] + 1 ELSE forced'[q]
    BY <2>2, <2>3 DEF AppliedInv, IsApproved
  <2> QED BY <2>5, <2>7, <2>8 DEF AppliedInv
<1>4. ASSUME NEW a \in Admin, NEW i \in DOMAIN rows, RowStep(a, i)
      PROVE  UNCHANGED <<req, applied, forced>>
  BY <1>4, RowStepTyped
<1>5. ASSUME NEW a \in Admin, NEW u \in User, ToggleBan(a, u)
      PROVE  UNCHANGED <<req, applied, forced>>
  BY <1>5, ToggleShape
<1> QED BY <1>1, <1>2, <1>3, <1>4, <1>5 DEF ApprovalNext, approvalVars

-----------------------------------------------------------------------------
(* The Diamonds.                                                           *)

LEMMA HoldingTyped ==
    ASSUME ApprovalTyped
    PROVE  /\ \A u \in User : Holding[u] \in Int
           /\ Held = SumFunctionOnSet(Holding, User) /\ Held \in Int
<1>1. \A u \in User : Holding[u] = users[u].diamonds + clamped[u]
                        /\ users[u].diamonds \in Nat /\ clamped[u] \in Nat
  BY DEF Holding, ApprovalTyped, UserRec
<1>2. \A u \in User : Holding[u] \in Int
  BY <1>1
<1>3. SumFunctionOnSet(Holding, User) \in Int
  BY <1>2, ApprovalAssumption, SumIsInt
<1> QED BY <1>2, <1>3 DEF Held, Holding

\* Diamonds one user more or less holds.
LEMMA HeldMoves ==
    ASSUME ApprovalTyped, NEW u \in User, Holding'[u] \in Int,
           \A v \in User \ {u} : Holding'[v] = Holding[v]
    PROVE  Held' = Held - Holding[u] + Holding'[u]
<1>1. SumFunctionOnSet(Holding', User) =
        SumFunctionOnSet(Holding, User) - Holding[u] + Holding'[u]
  BY HoldingTyped, ApprovalAssumption, SumChanges
<1> QED BY <1>1 DEF Held, Holding

LEMMA HeldStays ==
    ASSUME ApprovalTyped, \A v \in User : Holding'[v] = Holding[v]
    PROVE  Held' = Held
<1>1. SumFunctionOnSet(Holding', User) = SumFunctionOnSet(Holding, User)
  BY HoldingTyped, ApprovalAssumption, SumSame
<1> QED BY <1>1 DEF Held, Holding

LEMMA SoldTyped ==
    ASSUME ApprovalTyped
    PROVE  /\ IsFiniteSet(DOMAIN rows) /\ \A i \in DOMAIN rows : SoldOf[i] \in Int
           /\ Sold = SumFunctionOnSet(SoldOf, DOMAIN rows) /\ Sold \in Int
<1>1. IsFiniteSet(DOMAIN rows)
  BY RowIndices, FS_Interval
<1>2. \A i \in DOMAIN rows : SoldOf[i] \in Int
  BY RowIndices DEF SoldOf, RowRec
<1>3. SumFunctionOnSet(SoldOf, DOMAIN rows) \in Int
  BY <1>1, <1>2, SumIsInt
<1> QED BY <1>1, <1>2, <1>3 DEF Sold, SoldOf

\* An entry is sold from, or is as it was.
LEMMA SoldMoves ==
    ASSUME ApprovalTyped, NEW i \in DOMAIN rows, NEW e \in RowRec,
           rows' = [rows EXCEPT ![i] = e]
    PROVE  Sold' = Sold - rows[i].sold + e.sold
<1>1. /\ DOMAIN rows' = DOMAIN rows /\ rows'[i] = e
      /\ \A j \in DOMAIN rows \ {i} : rows'[j] = rows[j]
  BY RowReplaced
<1>2. /\ SoldOf'[i] = e.sold /\ SoldOf[i] = rows[i].sold
      /\ \A j \in DOMAIN rows \ {i} : SoldOf'[j] = SoldOf[j]
  BY <1>1 DEF SoldOf
<1>3. e.sold \in Int
  BY DEF RowRec
<1>4. SumFunctionOnSet(SoldOf', DOMAIN rows) =
        SumFunctionOnSet(SoldOf, DOMAIN rows) - SoldOf[i] + SoldOf'[i]
  BY <1>2, <1>3, SoldTyped, SumChanges
<1> QED BY <1>1, <1>2, <1>4 DEF Sold, SoldOf

\* A new entry has sold nothing.
LEMMA SoldOpens ==
    ASSUME ApprovalTyped, NEW r, Opens(r)
    PROVE  Sold' = Sold
<1>1. CASE UNCHANGED rows
  BY <1>1 DEF Sold
<1>2. CASE ~UNCHANGED rows
  <2>1. PICK e \in RowRec : rows' = Append(rows, e) /\ e.sold = 0
    BY <1>2 DEF Opens
  <2> DEFINE n == Len(rows) + 1
  <2>2. /\ DOMAIN rows' = DOMAIN rows \cup {n} /\ n \notin DOMAIN rows
        /\ rows'[n] = e /\ \A i \in DOMAIN rows : rows'[i] = rows[i]
    BY <2>1, RowAppended
  <2> HIDE DEF n
  <2>3. SoldOf'[n] = 0 /\ \A i \in DOMAIN rows : SoldOf'[i] = SoldOf[i]
    BY <2>1, <2>2 DEF SoldOf
  <2>4. SumFunctionOnSet(SoldOf', DOMAIN rows) = SumFunctionOnSet(SoldOf, DOMAIN rows)
    BY <2>3, SoldTyped, SumSame
  <2>5. \A i \in DOMAIN rows : SoldOf'[i] \in Int
    BY <2>3, SoldTyped
  <2>6. SumFunctionOnSet(SoldOf', DOMAIN rows \cup {n}) =
          SumFunctionOnSet(SoldOf', DOMAIN rows) + 0
    BY <2>2, <2>3, <2>5, SoldTyped, SumAdds
  <2>7. Sold' = SumFunctionOnSet(SoldOf', DOMAIN rows \cup {n})
    BY <2>2 DEF Sold, SoldOf
  <2> QED BY <2>4, <2>6, <2>7, SoldTyped
<1> QED BY <1>1, <1>2

LEMMA InFinite ==
    ASSUME ApprovalTyped, IsFiniteSet(Known)
    PROVE  \A d : /\ IsFiniteSet(In(d)) /\ \A r \in In(d) : applied[r] \in Int
                  /\ Applications(d) = SumFunctionOnSet(applied, In(d))
                  /\ Applications(d) \in Int
<1> SUFFICES ASSUME NEW d
             PROVE  /\ IsFiniteSet(In(d)) /\ \A r \in In(d) : applied[r] \in Int
                    /\ Applications(d) = SumFunctionOnSet(applied, In(d))
                    /\ Applications(d) \in Int
  OBVIOUS
<1>1. In(d) \subseteq Known
  BY DEF In, Known
<1>2. IsFiniteSet(In(d))
  BY <1>1, FS_Subset
<1>3. \A r \in In(d) : applied[r] \in Int
  BY DEF In, ApprovalTyped
<1>4. SumFunctionOnSet(applied, In(d)) \in Int
  BY <1>2, <1>3, SumIsInt
<1> QED BY <1>2, <1>3, <1>4 DEF Applications, In

\* The requests of each domain and how often they were applied.
LEMMA ApplicationsSubmitted ==
    ASSUME ApprovalTyped, AppliedInv, IsFiniteSet(Known),
           NEW a, NEW r \in Request, NEW d \in Domain, NEW u \in User, Submit(a, r, d, u)
    PROVE  IsFiniteSet(Known') /\ \A c : Applications(c)' = Applications(c)
<1>1. /\ req[r] = None /\ req'[r].domain = d /\ applied[r] = 0
      /\ \A q \in Request \ {r} : req'[q] = req[q]
      /\ UNCHANGED applied
  BY SubmitShape DEF AppliedInv
<1>2. Known' \subseteq Known \cup {r}
  BY <1>1 DEF Known
<1>3. IsFiniteSet(Known')
  BY <1>2, FS_AddElement, FS_Subset
<1>4. ASSUME NEW c PROVE Applications(c)' = Applications(c)
  <2>1. Applications(c)' = SumFunctionOnSet(applied, In(c)')
    BY <1>1 DEF Applications, In
  <2>2. In(c)' = In(c) \/ (In(c)' = In(c) \cup {r} /\ r \notin In(c))
    BY <1>1 DEF In
  <2>3. CASE In(c)' = In(c)
    BY <2>1, <2>3, InFinite
  <2>4. CASE In(c)' = In(c) \cup {r} /\ r \notin In(c)
    <3>1. SumFunctionOnSet(applied, In(c) \cup {r}) =
            SumFunctionOnSet(applied, In(c)) + applied[r]
      BY <1>1, <2>4, InFinite, SumAdds
    <3> QED BY <1>1, <2>1, <2>4, <3>1, InFinite
  <2> QED BY <2>2, <2>3, <2>4
<1> QED BY <1>3, <1>4

LEMMA ApplicationsMoved ==
    ASSUME ApprovalTyped, IsFiniteSet(Known), NEW r \in Request, req[r] # None,
           NEW s \in Status, MoveTo(r, s), req'[r] # None,
           \/ UNCHANGED applied
           \/ applied' = [applied EXCEPT ![r] = @ + 1]
    PROVE  /\ IsFiniteSet(Known')
           /\ UNCHANGED applied => \A c : Applications(c)' = Applications(c)
           /\ ~UNCHANGED applied =>
                 \A c : Applications(c)' = IF c = req[r].domain THEN Applications(c) + 1
                                                               ELSE Applications(c)
<1>1. /\ req'[r].domain = req[r].domain
      /\ \A q \in Request \ {r} : req'[q] = req[q]
  BY MoveTyped
<1>2. Known' = Known /\ \A c : In(c)' = In(c)
  BY <1>1 DEF Known, In
<1>3. \A c : Applications(c)' = SumFunctionOnSet(applied', In(c))
  BY <1>2 DEF Applications, In
<1>4. ASSUME UNCHANGED applied, NEW c PROVE Applications(c)' = Applications(c)
  BY <1>3, <1>4, InFinite
<1>5. ASSUME ~UNCHANGED applied, NEW c
      PROVE  Applications(c)' = IF c = req[r].domain THEN Applications(c) + 1
                                                    ELSE Applications(c)
  <2>1. /\ applied'[r] = applied[r] + 1 /\ applied[r] \in Nat
        /\ \A q \in Request \ {r} : applied'[q] = applied[q]
    BY <1>5, AppliedTyped DEF ApprovalTyped
  <2>2. CASE c = req[r].domain
    <3>1. r \in In(c)
      BY <2>2 DEF In
    <3>2. applied'[r] \in Int /\ \A q \in In(c) \ {r} : applied'[q] = applied[q]
      BY <2>1 DEF In
    <3>3. SumFunctionOnSet(applied', In(c)) =
            SumFunctionOnSet(applied, In(c)) - applied[r] + applied'[r]
      BY <3>1, <3>2, InFinite, SumChanges
    <3> QED BY <1>3, <2>1, <2>2, <3>3, InFinite
  <2>3. CASE c # req[r].domain
    <3>1. \A q \in In(c) : applied'[q] = applied[q]
      BY <2>1, <2>3 DEF In
    <3>2. SumFunctionOnSet(applied', In(c)) = SumFunctionOnSet(applied, In(c))
      BY <3>1, InFinite, SumSame
    <3> QED BY <1>3, <2>3, <3>2, InFinite
  <2> QED BY <2>2, <2>3
<1> QED BY <1>2, <1>4, <1>5

LEMMA DiamondFrame ==
    ASSUME ApprovalTyped, DiamondInv, UNCHANGED <<req, applied>>,
           Held' = Held, Sold' = Sold
    PROVE  DiamondInv'
<1>1. Known' = Known /\ \A d : Applications(d)' = Applications(d)
  BY DEF Known, Applications
<1> QED BY <1>1 DEF DiamondInv, DiamondsAreDecided

LEMMA DiamondKept ==
    ASSUME ApprovalTyped, ApprovalTyped', AppliedInv, DiamondInv,
           [ApprovalNext]_approvalVars
    PROVE  DiamondInv'
<1>0. /\ Held \in Int /\ Sold \in Int /\ Start * Cardinality(User) \in Int
      /\ \A d : Applications(d) \in Int
      /\ Held + Applications("withdraw") =
           Start * Cardinality(User) + Applications("recharge") + Sold
  <2>1. Cardinality(User) \in Nat /\ Start \in Nat
    BY ApprovalAssumption, FS_CardinalityType
  <2>2. Start * Cardinality(User) \in Int
    BY <2>1
  <2> QED BY <2>2, HoldingTyped, SoldTyped, InFinite DEF DiamondInv, DiamondsAreDecided
<1>1. CASE UNCHANGED approvalVars
  <2>1. UNCHANGED <<req, applied, users, rows, clamped>>
    BY <1>1 DEF approvalVars
  <2> QED BY <2>1, DiamondFrame DEF Held, Sold
<1>2. ASSUME NEW a \in Admin, NEW r \in Request, NEW d \in Domain, NEW u \in User,
             Submit(a, r, d, u)
      PROVE  DiamondInv'
  <2>1. IsFiniteSet(Known') /\ \A c : Applications(c)' = Applications(c)
    BY <1>2, ApplicationsSubmitted DEF DiamondInv
  <2>2. Held' = Held /\ Sold' = Sold
    BY <1>2, SubmitShape DEF Held, Sold
  <2> QED BY <1>0, <2>1, <2>2 DEF DiamondInv, DiamondsAreDecided
<1>3. ASSUME NEW a \in Admin, NEW r \in Request, req[r] # None, Decide(a, r)
      PROVE  DiamondInv'
  <2>0. req[r] \in Requests /\ req[r].user \in User
    BY <1>3 DEF ApprovalTyped, Requests
  <2>1. PICK s \in Status :
           /\ MoveTo(r, s)
           /\ IF s = "approved"
              THEN /\ applied' = [applied EXCEPT ![r] = @ + 1]
                   /\ Effect(r) /\ Opens(r)
                   /\ req[r].status = "approved" => req[r].domain = "agency"
              ELSE UNCHANGED <<applied, users, rows, clamped>>
    BY <1>3, DecisionShape
  <2>2. req'[r] # None
    <3>1. req'[r] \in Requests
      BY <1>3, <2>0, <2>1, MoveTyped DEF Requests
    <3> QED BY <3>1, ApprovalAssumption
  <2>3. CASE s # "approved"
    <3>1. UNCHANGED <<applied, users, rows, clamped>>
      BY <2>1, <2>3
    <3>2. IsFiniteSet(Known') /\ \A c : Applications(c)' = Applications(c)
      BY <1>3, <2>1, <2>2, <3>1, ApplicationsMoved DEF DiamondInv
    <3>3. Held' = Held /\ Sold' = Sold
      BY <3>1 DEF Held, Sold
    <3> QED BY <1>0, <3>2, <3>3 DEF DiamondInv, DiamondsAreDecided
  <2>4. CASE s = "approved"
    <3> DEFINE v == req[r].user
               d == req[r].domain
    <3>1. applied' = [applied EXCEPT ![r] = @ + 1] /\ Effect(r) /\ Opens(r)
      BY <2>1, <2>4
    <3>2. ~UNCHANGED applied
      <4>1. applied'[r] = applied[r] + 1 /\ applied[r] \in Nat
        BY <3>1, AppliedTyped DEF ApprovalTyped
      <4> QED BY <4>1
    <3>3. /\ IsFiniteSet(Known')
          /\ \A c : Applications(c)' = IF c = d THEN Applications(c) + 1 ELSE Applications(c)
      BY <1>3, <2>1, <2>2, <3>1, <3>2, ApplicationsMoved DEF DiamondInv
    <3>4. Sold' = Sold
      BY <3>1, SoldOpens
    <3>5. /\ \A w \in User \ {v} : users'[w] = users[w] /\ clamped'[w] = clamped[w]
          /\ Holding'[v] = CASE d = "recharge" -> Holding[v] + 1
                             [] d = "withdraw" -> Holding[v] - 1
                             [] OTHER -> Holding[v]
      BY <3>1 DEF Effect
    <3>6. Holding[v] \in Int
      BY <2>0, HoldingTyped
    <3>7. Holding'[v] \in Int
      BY <3>5, <3>6
    <3>8. \A w \in User \ {v} : Holding'[w] = Holding[w]
      BY <3>5 DEF Holding
    <3>9. Held' = Held - Holding[v] + Holding'[v]
      BY <2>0, <3>7, <3>8, HeldMoves
    <3>10. Held' = CASE d = "recharge" -> Held + 1
                     [] d = "withdraw" -> Held - 1
                     [] OTHER -> Held
      BY <1>0, <3>5, <3>6, <3>9
    <3>11. Held' + Applications("withdraw")' =
             Start * Cardinality(User) + Applications("recharge")' + Sold'
      <4>1. CASE d = "recharge"
        BY <1>0, <3>3, <3>4, <3>10, <4>1
      <4>2. CASE d = "withdraw"
        BY <1>0, <3>3, <3>4, <3>10, <4>2
      <4>3. CASE d # "recharge" /\ d # "withdraw"
        BY <1>0, <3>3, <3>4, <3>10, <4>3
      <4> QED BY <4>1, <4>2, <4>3
    <3> QED BY <3>3, <3>11 DEF DiamondInv, DiamondsAreDecided
  <2> QED BY <2>3, <2>4
<1>4. ASSUME NEW a \in Admin, NEW i \in DOMAIN rows, RowStep(a, i)
      PROVE  DiamondInv'
  <2>1. ASSUME NEW buyer \in User, Sell(a, i, buyer) PROVE DiamondInv'
    <3>1. PICK e \in RowRec : /\ rows' = [rows EXCEPT ![i] = e]
                              /\ e.sold = rows[i].sold + SaleAmount
      BY <2>1, SaleShape
    <3>2. rows[i].sold \in Int /\ SaleAmount \in Int /\ Holding[buyer] \in Int
      BY RowIndices, HoldingTyped, ApprovalAssumption DEF RowRec
    <3>3. Sold' = Sold + SaleAmount
      <4>1. Sold' = Sold - rows[i].sold + e.sold
        BY <3>1, SoldMoves
      <4>2. \A x, y, z \in Int : x - y + (y + z) = x + z
        OBVIOUS
      <4> QED BY <1>0, <3>1, <3>2, <4>1, <4>2
    <3>4. /\ Holding'[buyer] = Holding[buyer] + SaleAmount
          /\ \A u \in User \ {buyer} : Holding'[u] = Holding[u]
          /\ UNCHANGED <<req, applied>>
      BY <2>1, SaleShape
    <3>5. Held' = Held + SaleAmount
      BY <1>0, <3>2, <3>4, HeldMoves
    <3>6. Known' = Known /\ \A d : Applications(d)' = Applications(d)
      BY <3>4 DEF Known, Applications
    <3>7. Held' + Applications("withdraw")' =
            Start * Cardinality(User) + Applications("recharge")' + Sold'
      BY <1>0, <3>2, <3>3, <3>5, <3>6
    <3> QED BY <3>6, <3>7 DEF DiamondInv, DiamondsAreDecided
  <2>2. CASE \A buyer \in User : ~Sell(a, i, buyer)
    <3>1. EntryStep(i) /\ UNCHANGED <<req, applied, forced>>
      BY <1>4, <2>2, RowStepTyped
    <3>2. PICK e \in RowRec : rows' = [rows EXCEPT ![i] = e] /\ e.sold = rows[i].sold
      BY <3>1 DEF EntryStep
    <3>3. rows[i].sold \in Int
      BY RowIndices DEF RowRec
    <3>4. Sold' = Sold
      <4>1. Sold' = Sold - rows[i].sold + e.sold
        BY <3>2, SoldMoves
      <4> QED BY <1>0, <3>2, <3>3, <4>1
    <3>5. \A u \in User : Holding'[u] = Holding[u]
      BY <1>4, <2>2, EntryUsers DEF Holding
    <3>6. Held' = Held
      BY <3>5, HeldStays
    <3> QED BY <3>1, <3>4, <3>6, DiamondFrame
  <2> QED BY <2>1, <2>2
<1>5. ASSUME NEW a \in Admin, NEW u \in User, ToggleBan(a, u) PROVE DiamondInv'
  <2>1. /\ \A v \in User : users'[v].diamonds = users[v].diamonds
        /\ UNCHANGED <<req, rows, applied, clamped>>
    BY <1>5, ToggleShape
  <2>2. \A v \in User : Holding'[v] = Holding[v]
    BY <2>1 DEF Holding
  <2>3. Held' = Held /\ Sold' = Sold
    BY <2>1, <2>2, HeldStays DEF Sold
  <2> QED BY <2>1, <2>3, DiamondFrame
<1> QED BY <1>1, <1>2, <1>3, <1>4, <1>5 DEF ApprovalNext

-----------------------------------------------------------------------------
(* One entry per user.                                                     *)

LEMMA OpenedReplaced ==
    ASSUME ApprovalTyped, NEW i \in DOMAIN rows, NEW e \in RowRec,
           rows' = [rows EXCEPT ![i] = e],
           e.kind = rows[i].kind, e.user = rows[i].user
    PROVE  \A u, kind, states :
              Opened(u, kind, states)' =
                IF rows[i].user = u /\ rows[i].kind = kind
                THEN IF e.status \in states THEN Opened(u, kind, states) \cup {i}
                                            ELSE Opened(u, kind, states) \ {i}
                ELSE Opened(u, kind, states)
<1>1. /\ DOMAIN rows' = DOMAIN rows /\ rows'[i] = e
      /\ \A j \in DOMAIN rows \ {i} : rows'[j] = rows[j]
  BY RowReplaced
<1> QED BY <1>1 DEF Opened

LEMMA OpenedAppended ==
    ASSUME ApprovalTyped, NEW e \in RowRec, rows' = Append(rows, e)
    PROVE  /\ \A u, kind, states :
                 Opened(u, kind, states)' =
                   IF e.user = u /\ e.kind = kind /\ e.status \in states
                   THEN Opened(u, kind, states) \cup {Len(rows) + 1}
                   ELSE Opened(u, kind, states)
           /\ \A i \in DOMAIN rows' :
                 (i \in DOMAIN rows /\ rows'[i] = rows[i]) \/ rows'[i] = e
<1> DEFINE n == Len(rows) + 1
<1>1. /\ DOMAIN rows' = DOMAIN rows \cup {n} /\ n \notin DOMAIN rows
      /\ rows'[n] = e /\ \A j \in DOMAIN rows : rows'[j] = rows[j]
  BY RowAppended
<1> HIDE DEF n
<1>2. ASSUME NEW u, NEW kind, NEW states
      PROVE  Opened(u, kind, states)' =
               IF e.user = u /\ e.kind = kind /\ e.status \in states
               THEN Opened(u, kind, states) \cup {n}
               ELSE Opened(u, kind, states)
  BY <1>1 DEF Opened
<1> QED BY <1>1, <1>2 DEF n

\* The profiles, the entries and the overrides say the same of u as before.
LEMMA RecordFrame ==
    ASSUME RecordInv, NEW u \in User,
           diverged \subseteq diverged',
           \A kind, states : Opened(u, kind, states)' = Opened(u, kind, states),
           users'[u].seller = users[u].seller, users'[u].vip = users[u].vip,
           users'[u].banned = users[u].banned \/ <<"ban", u>> \in diverged'
    PROVE  /\ Opened(u, "seller", {"active", "suspended"})' =
                IF users'[u].seller = None THEN {} ELSE {users'[u].seller}
           /\ <<"vip", u>> \notin diverged' => Shown(u, "vip", users[u].vip)'
           /\ <<"ban", u>> \notin diverged' => Shown(u, "ban", users[u].banned)'
BY DEF RecordInv, Shown

\* What becomes of the entries of each kind.
LEMMA EntryFacts ==
    ASSUME ApprovalTyped, NEW a, NEW i \in DOMAIN rows, RowStep(a, i),
           \A buyer \in User : ~Sell(a, i, buyer),
           rows[i].kind = "seller" => rows[i].status \in {"active", "suspended"}
    PROVE  LET u == rows[i].user IN
           /\ diverged \subseteq diverged'
           /\ rows[i].kind = "seller" => rows'[i].status \in {"active", "suspended"}
           /\ rows[i].kind = "vip" /\ <<"vip", u>> \notin diverged' =>
                 /\ rows[i].status = "active"
                 /\ users'[u].vip <=> rows'[i].status = "active"
           /\ rows[i].kind = "ban" /\ <<"ban", u>> \notin diverged' =>
                 \/ /\ rows'[i].status = rows[i].status
                    /\ users'[u].banned = users[u].banned
                 \/ /\ rows[i].status = "active" /\ rows'[i].status = "restored"
                    /\ ~users'[u].banned
                 \/ /\ ~users[u].banned /\ users'[u].banned
                    /\ rows'[i].status = "active"
<1> DEFINE u == rows[i].user
<1>1. /\ rows[i] \in RowRec /\ u \in User /\ users[u] \in UserRec
      /\ rows \in Seq(RowRec)
  BY RowIndices DEF ApprovalTyped, RowRec
<1>2. ASSUME NEW perm, NEW kind, NEW expected, NEW status,
             SetRow(a, i, perm, kind, expected, status)
      PROVE  /\ rows[i].kind = kind /\ rows'[i].status = status
             /\ diverged \subseteq diverged'
             /\ <<kind, u>> \notin diverged' => rows[i].status \in expected
  BY <1>1, <1>2 DEF SetRow, RowRec
<1>3. ASSUME NEW x \in BOOLEAN, users' = [users EXCEPT ![u].vip = x]
      PROVE  users'[u].vip = x
  BY <1>1, <1>3 DEF ApprovalTyped, UserRec
<1>4. ASSUME NEW x \in BOOLEAN, SetBanned(u, x)
      PROVE  users'[u].banned = x
  BY <1>1, <1>4 DEF ApprovalTyped, UserRec, SetBanned
<1>5. CASE RenewVip(a, i)
  <2>1. SetRow(a, i, "approve", "vip", {"active"}, "active")
    BY <1>5 DEF RenewVip
  <2>2. /\ rows[i].kind = "vip" /\ rows'[i].status = "active"
        /\ diverged \subseteq diverged'
        /\ <<"vip", u>> \notin diverged' => rows[i].status = "active"
    BY <1>2, <2>1
  <2> QED BY <1>5, <1>3, <2>2 DEF RenewVip
<1>6. CASE ExpireVip(a, i)
  <2>1. SetRow(a, i, "approve", "vip", {"active"}, "expired")
    BY <1>6 DEF ExpireVip
  <2>2. /\ rows[i].kind = "vip" /\ rows'[i].status = "expired"
        /\ diverged \subseteq diverged'
        /\ <<"vip", u>> \notin diverged' => rows[i].status = "active"
    BY <1>2, <2>1
  <2> QED BY <1>6, <1>3, <2>2 DEF ExpireVip
<1>7. CASE SweepVip(i)
  <2>1. rows'[i].status = "expired"
    BY <1>1, <1>7 DEF SweepVip, RowRec
  <2> QED BY <1>3, <1>7, <2>1 DEF SweepVip
<1>8. CASE RestoreBan(a, i)
  <2>1. SetRow(a, i, "approve", "ban", {"active"}, "restored")
    BY <1>8 DEF RestoreBan
  <2>2. /\ rows[i].kind = "ban" /\ rows'[i].status = "restored"
        /\ diverged \subseteq diverged'
        /\ <<"ban", u>> \notin diverged' => rows[i].status = "active"
    BY <1>2, <2>1
  <2> QED BY <1>8, <1>4, <2>2 DEF RestoreBan
<1>9. CASE ReopenBan(a, i)
  <2>1. SetRow(a, i, "approve", "ban", {"restored"}, "active")
    BY <1>9 DEF ReopenBan
  <2>2. /\ rows[i].kind = "ban" /\ rows'[i].status = "active"
        /\ diverged \subseteq diverged'
        /\ <<"ban", u>> \notin diverged' => rows[i].status = "restored"
    BY <1>2, <2>1
  <2> QED BY <1>9, <1>4, <2>2 DEF ReopenBan
<1>10. CASE GrantAppeal(a, i)
  <2>1. rows'[i].status = "restored"
    BY <1>1, <1>10 DEF GrantAppeal, RowRec
  <2> QED BY <1>4, <1>10, <2>1 DEF GrantAppeal
<1>11. CASE SuspendSeller(a, i)
  <2>1. SetRow(a, i, "suspend", "seller", {"active"}, "suspended")
    BY <1>11 DEF SuspendSeller
  <2>2. /\ rows[i].kind = "seller" /\ rows'[i].status = "suspended"
        /\ diverged \subseteq diverged'
        /\ <<"seller", u>> \notin diverged' => rows[i].status = "active"
    BY <1>2, <2>1
  <2> QED BY <2>2
<1>12. CASE RestoreSeller(a, i)
  <2>1. SetRow(a, i, "suspend", "seller", {"suspended"}, "active")
    BY <1>12 DEF RestoreSeller
  <2>2. /\ rows[i].kind = "seller" /\ rows'[i].status = "active"
        /\ diverged \subseteq diverged'
        /\ <<"seller", u>> \notin diverged' => rows[i].status = "suspended"
    BY <1>2, <2>1
  <2> QED BY <2>2
<1>13. CASE AppealBan(i) \/ ReviewAppeal(a, i) \/ RejectAppeal(a, i)
  <2>1. rows'[i].status = rows[i].status /\ UNCHANGED <<users, diverged>>
        /\ rows[i].kind = "ban"
    BY <1>1, <1>13 DEF AppealBan, ReviewAppeal, RejectAppeal, SetAppeal, RowRec
  <2> QED BY <2>1
<1>14. ASSUME NEW rate, SetCommission(a, i, rate)
       PROVE  /\ rows'[i].status = rows[i].status /\ UNCHANGED <<users, diverged>>
              /\ rows[i].kind = "seller"
  BY <1>1, <1>14 DEF SetCommission, RowRec
<1> QED BY <1>5, <1>6, <1>7, <1>8, <1>9, <1>10, <1>11, <1>12, <1>13, <1>14 DEF RowStep

\* What RecordInv says of one user.
RecordOf(u) ==
    /\ Opened(u, "seller", {"active", "suspended"}) =
         IF users[u].seller = None THEN {} ELSE {users[u].seller}
    /\ <<"vip", u>> \notin diverged => Shown(u, "vip", users[u].vip)
    /\ <<"ban", u>> \notin diverged => Shown(u, "ban", users[u].banned)

LEMMA RecordSplit ==
    /\ RecordInv <=> /\ \A i \in DOMAIN rows :
                           rows[i].kind = "seller" =>
                             rows[i].status \in {"active", "suspended"}
                     /\ \A u \in User : RecordOf(u)
    /\ RecordInv' <=> /\ \A i \in DOMAIN rows' :
                            rows'[i].kind = "seller" =>
                              rows'[i].status \in {"active", "suspended"}
                      /\ \A u \in User : RecordOf(u)'
BY DEF RecordInv, RecordOf

LEMMA RecordSame ==
    ASSUME ApprovalTyped, RecordInv, NEW u \in User,
           diverged \subseteq diverged',
           \A kind, states : Opened(u, kind, states)' = Opened(u, kind, states),
           users'[u].seller = users[u].seller, users'[u].vip = users[u].vip,
           users'[u].banned = users[u].banned \/ <<"ban", u>> \in diverged'
    PROVE  RecordOf(u)'
BY RecordFrame DEF RecordOf

\* An approval.
LEMMA RecordApproved ==
    ASSUME ApprovalTyped, RecordInv, NEW r \in Request, req[r] # None,
           Effect(r), Opens(r), UNCHANGED diverged
    PROVE  RecordInv'
<1>0. PICK u \in User, d \in Domain, n \in Nat :
         u = req[r].user /\ d = req[r].domain /\ n = Len(rows) + 1
  <2>1. req[r].user \in User /\ req[r].domain \in Domain
    BY DEF ApprovalTyped, Requests
  <2>2. Len(rows) + 1 \in Nat
    BY RowIndices
  <2> QED BY <2>1, <2>2
<1>1. users[u] \in UserRec /\ users'[u] \in UserRec
  BY DEF ApprovalTyped, Effect
<1>2. \A v \in User \ {u} : users'[v] = users[v]
  BY <1>0 DEF Effect
<1>3. /\ IF d = "vip" THEN ~users[u].vip /\ users'[u].vip
                      ELSE users'[u].vip = users[u].vip
      /\ IF d = "seller" THEN users[u].seller = None /\ users'[u].seller = n
                         ELSE users'[u].seller = users[u].seller
      /\ IF d = "ban" THEN ~users[u].banned /\ users'[u].banned
                      ELSE users'[u].banned = users[u].banned
  BY <1>0 DEF Effect
<1>4. CASE d \notin {"agency", "gifts", "vip", "seller", "ban"}
  <2>1. UNCHANGED rows
    BY <1>0, <1>4 DEF Opens
  <2>2. \A v, kind, states : Opened(v, kind, states)' = Opened(v, kind, states)
    BY <2>1 DEF Opened
  <2>3. ASSUME NEW v \in User PROVE RecordOf(v)'
    <3>1. /\ users'[v].seller = users[v].seller /\ users'[v].vip = users[v].vip
          /\ users'[v].banned = users[v].banned
      BY <1>2, <1>3, <1>4
    <3> QED BY <2>2, <3>1, RecordSame
  <2> QED BY <2>1, <2>3, RecordSplit
<1>5. CASE d \in {"agency", "gifts", "vip", "seller", "ban"}
  <2>1. PICK e \in RowRec : /\ rows' = Append(rows, e)
                            /\ e.kind = d /\ e.user = u /\ e.status = "active"
    BY <1>0, <1>5 DEF Opens
  <2>2. /\ \A v, kind, states :
              Opened(v, kind, states)' =
                IF u = v /\ d = kind /\ "active" \in states
                THEN Opened(v, kind, states) \cup {n}
                ELSE Opened(v, kind, states)
        /\ \A i \in DOMAIN rows' :
              (i \in DOMAIN rows /\ rows'[i] = rows[i]) \/ rows'[i] = e
    BY <1>0, <2>1, OpenedAppended
  <2>3. \A i \in DOMAIN rows' :
           rows'[i].kind = "seller" => rows'[i].status \in {"active", "suspended"}
    BY <2>1, <2>2, RecordSplit
  <2>4. ASSUME NEW v \in User, v # u PROVE RecordOf(v)'
    <3>1. \A kind, states : Opened(v, kind, states)' = Opened(v, kind, states)
      BY <2>2, <2>4
    <3>2. users'[v] = users[v]
      BY <1>2, <2>4
    <3> QED BY <3>1, <3>2, RecordSame
  <2>5. RecordOf(u)
    BY RecordSplit
  <2>6. Opened(u, "seller", {"active", "suspended"})' =
          IF users'[u].seller = None THEN {} ELSE {users'[u].seller}
    <3>1. CASE d = "seller"
      <4>1. Opened(u, "seller", {"active", "suspended"}) = {}
        BY <1>3, <2>5, <3>1 DEF RecordOf
      <4>2. Opened(u, "seller", {"active", "suspended"})' = {n}
        BY <2>2, <3>1, <4>1
      <4>3. users'[u].seller = n /\ n # None
        BY <1>1, <1>3, <3>1, ApprovalAssumption
      <4> QED BY <4>2, <4>3
    <3>2. CASE d # "seller"
      BY <1>3, <2>2, <2>5, <3>2 DEF RecordOf
    <3> QED BY <3>1, <3>2
  <2>7. <<"vip", u>> \notin diverged => Shown(u, "vip", users[u].vip)'
    <3>1. CASE <<"vip", u>> \notin diverged /\ d = "vip"
      <4>1. Opened(u, "vip", {"active"}) = {}
        BY <1>3, <2>5, <3>1 DEF RecordOf, Shown
      <4>2. Opened(u, "vip", {"active"})' = {n}
        BY <2>2, <3>1, <4>1
      <4> QED BY <1>3, <3>1, <4>2 DEF Shown
    <3>2. CASE <<"vip", u>> \notin diverged /\ d # "vip"
      <4>1. Opened(u, "vip", {"active"})' = Opened(u, "vip", {"active"})
        BY <2>2, <3>2
      <4> QED BY <1>3, <2>5, <3>2, <4>1 DEF RecordOf, Shown
    <3> QED BY <3>1, <3>2
  <2>8. <<"ban", u>> \notin diverged => Shown(u, "ban", users[u].banned)'
    <3>1. CASE <<"ban", u>> \notin diverged /\ d = "ban"
      <4>1. Opened(u, "ban", {"active"}) = {}
        BY <1>3, <2>5, <3>1 DEF RecordOf, Shown
      <4>2. Opened(u, "ban", {"active"})' = {n}
        BY <2>2, <3>1, <4>1
      <4> QED BY <1>3, <3>1, <4>2 DEF Shown
    <3>2. CASE <<"ban", u>> \notin diverged /\ d # "ban"
      <4>1. Opened(u, "ban", {"active"})' = Opened(u, "ban", {"active"})
        BY <2>2, <3>2
      <4> QED BY <1>3, <2>5, <3>2, <4>1 DEF RecordOf, Shown
    <3> QED BY <3>1, <3>2
  <2>9. RecordOf(u)'
    BY <2>6, <2>7, <2>8 DEF RecordOf
  <2> QED BY <2>3, <2>4, <2>9, RecordSplit
<1> QED BY <1>4, <1>5

\* A step on an entry, but a sale.
LEMMA RecordStepped ==
    ASSUME ApprovalTyped, RecordInv, NEW a, NEW i \in DOMAIN rows, RowStep(a, i),
           \A buyer \in User : ~Sell(a, i, buyer)
    PROVE  RecordInv'
<1>0. PICK u \in User, k \in Domain : u = rows[i].user /\ k = rows[i].kind
  BY RowIndices DEF RowRec
<1>1. EntryStep(i)
  BY RowStepTyped
<1>2. PICK e \in RowRec : /\ rows' = [rows EXCEPT ![i] = e]
                          /\ e.kind = k /\ e.user = u
  BY <1>0, <1>1 DEF EntryStep
<1>3. /\ DOMAIN rows' = DOMAIN rows /\ rows'[i] = e
      /\ \A j \in DOMAIN rows \ {i} : rows'[j] = rows[j]
  BY <1>2, RowReplaced
<1>3a. PICK s \in EntryStatus : s = rows'[i].status
  BY <1>3 DEF RowRec
<1>4. \A v, kind, states :
         Opened(v, kind, states)' =
           IF u = v /\ k = kind
           THEN IF s \in states THEN Opened(v, kind, states) \cup {i}
                                ELSE Opened(v, kind, states) \ {i}
           ELSE Opened(v, kind, states)
  <2>1. /\ rows' = [rows EXCEPT ![i] = e]
        /\ e.kind = rows[i].kind /\ e.user = rows[i].user
    BY <1>0, <1>2
  <2>2. \A v, kind, states :
           Opened(v, kind, states)' =
             IF rows[i].user = v /\ rows[i].kind = kind
             THEN IF e.status \in states THEN Opened(v, kind, states) \cup {i}
                                         ELSE Opened(v, kind, states) \ {i}
             ELSE Opened(v, kind, states)
    BY <2>1, OpenedReplaced
  <2>3. e.status = s
    BY <1>3, <1>3a
  <2> QED BY <1>0, <2>2, <2>3
<1>5. k = "seller" => rows[i].status \in {"active", "suspended"}
  BY <1>0, RecordSplit
<1>6. /\ diverged \subseteq diverged'
      /\ k = "seller" => s \in {"active", "suspended"}
      /\ k = "vip" /\ <<"vip", u>> \notin diverged' =>
            rows[i].status = "active" /\ (users'[u].vip <=> s = "active")
      /\ k = "ban" /\ <<"ban", u>> \notin diverged' =>
            \/ s = rows[i].status /\ users'[u].banned = users[u].banned
            \/ rows[i].status = "active" /\ s = "restored" /\ ~users'[u].banned
            \/ ~users[u].banned /\ users'[u].banned /\ s = "active"
  BY <1>0, <1>5, <1>3a, EntryFacts
<1>7. \A v \in User :
         /\ users'[v].seller = users[v].seller
         /\ k # "vip" \/ v # u => users'[v].vip = users[v].vip
         /\ k # "ban" \/ v # u => users'[v].banned = users[v].banned
  BY <1>0, EntryUsers
<1>8. users'[u] \in UserRec /\ users[u] \in UserRec
  BY EntryUsers DEF ApprovalTyped
<1>9. \A states : (i \in Opened(u, k, states)) <=> rows[i].status \in states
  BY <1>0 DEF Opened
<1>10. \A j \in DOMAIN rows' :
          rows'[j].kind = "seller" => rows'[j].status \in {"active", "suspended"}
  <2>1. \A j \in DOMAIN rows : rows[j].kind = "seller" =>
                                  rows[j].status \in {"active", "suspended"}
    BY RecordSplit
  <2> QED BY <1>2, <1>3, <1>6, <1>3a, <2>1
<1>11. RecordOf(u)
  BY RecordSplit
<1>12. ASSUME NEW v \in User, v # u PROVE RecordOf(v)'
  <2>1. \A kind, states : Opened(v, kind, states)' = Opened(v, kind, states)
    BY <1>4, <1>12
  <2>2. /\ users'[v].seller = users[v].seller /\ users'[v].vip = users[v].vip
        /\ users'[v].banned = users[v].banned
    BY <1>7, <1>12
  <2> QED BY <1>6, <2>1, <2>2, RecordSame
<1>13. Opened(u, "seller", {"active", "suspended"})' =
         IF users'[u].seller = None THEN {} ELSE {users'[u].seller}
  <2>1. Opened(u, "seller", {"active", "suspended"})' =
          Opened(u, "seller", {"active", "suspended"})
    <3>1. CASE k = "seller"
      <4>1. i \in Opened(u, "seller", {"active", "suspended"})
        BY <1>5, <1>9, <3>1
      <4> QED BY <1>4, <1>6, <3>1, <4>1
    <3>2. CASE k # "seller"
      BY <1>4, <3>2
    <3> QED BY <3>1, <3>2
  <2> QED BY <1>7, <1>8, <1>11, <2>1 DEF RecordOf
<1>14. <<"vip", u>> \notin diverged' => Shown(u, "vip", users[u].vip)'
  <2>1. CASE <<"vip", u>> \notin diverged' /\ k = "vip"
    <3>1. i \in Opened(u, "vip", {"active"})
      BY <1>6, <1>9, <2>1
    <3>2. Opened(u, "vip", {"active"}) = {i}
      BY <1>6, <1>11, <2>1, <3>1 DEF RecordOf, Shown
    <3>3. Opened(u, "vip", {"active"})' = IF s = "active" THEN {i} ELSE {}
      BY <1>4, <2>1, <3>2
    <3> QED BY <1>6, <2>1, <3>3 DEF Shown
  <2>2. CASE <<"vip", u>> \notin diverged' /\ k # "vip"
    <3>1. Opened(u, "vip", {"active"})' = Opened(u, "vip", {"active"})
      BY <1>4, <2>2
    <3>2. users'[u].vip = users[u].vip
      BY <1>7, <1>8, <2>2
    <3> QED BY <1>6, <1>11, <2>2, <3>1, <3>2 DEF RecordOf, Shown
  <2> QED BY <2>1, <2>2
<1>15. <<"ban", u>> \notin diverged' => Shown(u, "ban", users[u].banned)'
  <2> SUFFICES ASSUME <<"ban", u>> \notin diverged'
               PROVE  Shown(u, "ban", users[u].banned)'
    OBVIOUS
  <2>0. Shown(u, "ban", users[u].banned)
    BY <1>6, <1>11 DEF RecordOf
  <2>1. CASE k # "ban"
    <3>1. Opened(u, "ban", {"active"})' = Opened(u, "ban", {"active"})
      BY <1>4, <2>1
    <3>2. users'[u].banned = users[u].banned
      BY <1>7, <1>8, <2>1
    <3> QED BY <2>0, <3>1, <3>2 DEF Shown
  <2>2. CASE k = "ban" /\ s = rows[i].status /\ users'[u].banned = users[u].banned
    <3>1. Opened(u, "ban", {"active"})' = Opened(u, "ban", {"active"})
      BY <1>4, <1>9, <2>2
    <3> QED BY <2>0, <2>2, <3>1 DEF Shown
  <2>3. CASE /\ k = "ban" /\ rows[i].status = "active" /\ s = "restored"
             /\ ~users'[u].banned
    <3>1. i \in Opened(u, "ban", {"active"})
      BY <1>9, <2>3
    <3>2. Opened(u, "ban", {"active"}) = {i}
      BY <2>0, <3>1 DEF Shown
    <3>3. Opened(u, "ban", {"active"})' = {}
      BY <1>4, <2>3, <3>2
    <3> QED BY <2>3, <3>3 DEF Shown
  <2>4. CASE /\ k = "ban" /\ ~users[u].banned /\ users'[u].banned
             /\ s = "active"
    <3>1. Opened(u, "ban", {"active"}) = {}
      BY <2>0, <2>4 DEF Shown
    <3>2. Opened(u, "ban", {"active"})' = {i}
      BY <1>4, <2>4, <3>1
    <3> QED BY <2>4, <3>2 DEF Shown
  <2> QED BY <1>6, <2>1, <2>2, <2>3, <2>4
<1>16. RecordOf(u)'
  BY <1>13, <1>14, <1>15 DEF RecordOf
<1> QED BY <1>10, <1>12, <1>16, RecordSplit

LEMMA RecordKept ==
    ASSUME ApprovalTyped, RecordInv, [ApprovalNext]_approvalVars PROVE RecordInv'
<1>1. ASSUME UNCHANGED <<rows, users, diverged>> PROVE RecordInv'
  <2>1. \A v, kind, states : Opened(v, kind, states)' = Opened(v, kind, states)
    BY <1>1 DEF Opened
  <2>2. \A v \in User : RecordOf(v)'
    BY <1>1, <2>1, RecordSame
  <2> QED BY <1>1, <2>2, RecordSplit
<1>2. ASSUME NEW a \in Admin, NEW r \in Request, NEW d \in Domain, NEW u \in User,
             Submit(a, r, d, u)
      PROVE  RecordInv'
  BY <1>1, <1>2, SubmitShape
<1>3. ASSUME NEW a \in Admin, NEW r \in Request, req[r] # None, Decide(a, r)
      PROVE  RecordInv'
  <2>1. /\ UNCHANGED diverged
        /\ \E s \in Status : IF s = "approved" THEN Effect(r) /\ Opens(r)
                                               ELSE UNCHANGED <<users, rows>>
    BY <1>3, DecisionShape
  <2>2. CASE Effect(r) /\ Opens(r)
    BY <1>3, <2>1, <2>2, RecordApproved
  <2>3. CASE UNCHANGED <<users, rows>>
    BY <1>1, <2>1, <2>3
  <2> QED BY <2>1, <2>2, <2>3
<1>4. ASSUME NEW a \in Admin, NEW i \in DOMAIN rows, RowStep(a, i)
      PROVE  RecordInv'
  <2>1. ASSUME NEW buyer \in User, Sell(a, i, buyer) PROVE RecordInv'
    <3>1. PICK e \in RowRec : /\ rows' = [rows EXCEPT ![i] = e]
                              /\ e.kind = rows[i].kind /\ e.user = rows[i].user
                              /\ e.status = rows[i].status
      BY <2>1, SaleShape
    <3>2. /\ DOMAIN rows' = DOMAIN rows /\ rows'[i] = e
          /\ \A j \in DOMAIN rows \ {i} : rows'[j] = rows[j]
      BY <3>1, RowReplaced
    <3>3. \A v, kind, states : Opened(v, kind, states)' = Opened(v, kind, states)
      BY <3>1, <3>2 DEF Opened
    <3>4. UNCHANGED diverged
      BY <2>1, SaleShape
    <3>5. \A v \in User : /\ users'[v].vip = users[v].vip
                          /\ users'[v].seller = users[v].seller
                          /\ users'[v].banned = users[v].banned
      BY <2>1, SaleShape
    <3>6. \A v \in User : RecordOf(v)'
      BY <3>3, <3>4, <3>5, RecordSame
    <3>7. \A j \in DOMAIN rows : rows'[j].kind = rows[j].kind
                                   /\ rows'[j].status = rows[j].status
      BY <3>1, <3>2
    <3> QED BY <3>2, <3>6, <3>7, RecordSplit
  <2>2. CASE \A buyer \in User : ~Sell(a, i, buyer)
    BY <1>4, <2>2, RecordStepped
  <2> QED BY <2>1, <2>2
<1>5. ASSUME NEW a \in Admin, NEW u \in User, ToggleBan(a, u) PROVE RecordInv'
  <2>1. /\ \A v \in User : /\ users'[v].vip = users[v].vip
                           /\ users'[v].seller = users[v].seller
                           /\ v # u => users'[v].banned = users[v].banned
        /\ diverged' = diverged \cup {<<"ban", u>>}
        /\ UNCHANGED rows
    BY <1>5, ToggleShape
  <2>2. \A v, kind, states : Opened(v, kind, states)' = Opened(v, kind, states)
    BY <2>1 DEF Opened
  <2>3. ASSUME NEW v \in User PROVE RecordOf(v)'
    <3>1. users'[v].banned = users[v].banned \/ <<"ban", v>> \in diverged'
      BY <2>1
    <3> QED BY <2>1, <2>2, <3>1, RecordSame
  <2> QED BY <2>1, <2>3, RecordSplit
<1> QED BY <1>1, <1>2, <1>3, <1>4, <1>5 DEF ApprovalNext, approvalVars

-----------------------------------------------------------------------------
(* The theorems.                                                           *)

LEMMA ApprovalStarts == ApprovalInit => ApprovalInv
<1> SUFFICES ASSUME ApprovalInit PROVE ApprovalInv
  OBVIOUS
<1>1. ApprovalTyped
  <2>1. Start \in Nat
    BY ApprovalAssumption
  <2>2. users \in [User -> UserRec]
    BY <2>1 DEF ApprovalInit, UserRec
  <2>3. rows \in Seq(RowRec)
    BY DEF ApprovalInit
  <2> QED BY <2>2, <2>3 DEF ApprovalInit, ApprovalTyped
<1>2. AppliedInv
  BY DEF ApprovalInit, AppliedInv, IsApproved
<1>3. DiamondInv
  <2>1. Known = {} /\ \A d : In(d) = {}
    BY DEF ApprovalInit, Known, In
  <2>2. \A d : Applications(d) = 0
    BY <2>1, SumOfNone DEF Applications, In
  <2>3. DOMAIN rows = {} /\ Sold = 0
    <3>1. DOMAIN rows = {}
      BY DEF ApprovalInit
    <3> QED BY <3>1, SumOfNone DEF Sold
  <2>4. \A u \in User : Holding[u] = Start
    BY ApprovalAssumption DEF ApprovalInit, Holding
  <2>5. SumFunctionOnSet(Holding, User) = Start * Cardinality(User)
    BY <2>4, ApprovalAssumption, SumOfEquals
  <2>6. Held = Start * Cardinality(User)
    BY <1>1, <2>5, HoldingTyped
  <2>7. Held \in Int
    BY <1>1, HoldingTyped
  <2> QED BY <2>1, <2>2, <2>3, <2>6, <2>7, FS_EmptySet DEF DiamondInv, DiamondsAreDecided
<1>4. RecordInv
  BY DEF ApprovalInit, RecordInv, Opened, Shown
<1> QED BY <1>1, <1>2, <1>3, <1>4 DEF ApprovalInv

LEMMA ApprovalInvKept ==
    ApprovalInv /\ [ApprovalNext]_approvalVars => ApprovalInv'
<1> SUFFICES ASSUME ApprovalInv, [ApprovalNext]_approvalVars PROVE ApprovalInv'
  OBVIOUS
<1>1. ApprovalTyped /\ AppliedInv /\ DiamondInv /\ RecordInv
  BY DEF ApprovalInv
<1>2. ApprovalTyped'
  BY <1>1, ApprovalTypeKept
<1>3. AppliedInv' /\ RecordInv'
  BY <1>1, AppliedKept, RecordKept
<1>4. DiamondInv'
  BY <1>1, <1>2, DiamondKept
<1> QED BY <1>2, <1>3, <1>4 DEF ApprovalInv

\* Whatever the admins do, and in whichever order: the files keep their shape,
\* an effect is applied at most once more than the owner took it back, and only
\* while the request is approved, the Diamonds add up, and each profile shows
\* the entries that are in force.
THEOREM ApprovalInvariant == ApprovalSpec => []ApprovalInv
<1>1. ApprovalInit => ApprovalInv
  BY ApprovalStarts
<1>2. ApprovalInv /\ [ApprovalNext]_approvalVars => ApprovalInv'
  BY ApprovalInvKept
<1> QED BY <1>1, <1>2, PTL DEF ApprovalSpec

\* For any requests, admins, permissions and countries: the effect of a request
\* is applied again only after the owner took it out of "approved".
THEOREM StaffAppliesOnce == ApprovalSpec => []AppliedAgainOnlyByOwner
<1>1. ApprovalInv => AppliedAgainOnlyByOwner
  <2> SUFFICES ASSUME ApprovalInv, NEW r \in Request
               PROVE  applied[r] <= 1 + forced[r]
    BY DEF AppliedAgainOnlyByOwner
  <2>1. /\ applied[r] <= IF IsApproved(r) THEN forced[r] + 1 ELSE forced[r]
        /\ applied[r] \in Nat /\ forced[r] \in Nat
    BY DEF ApprovalInv, AppliedInv, ApprovalTyped
  <2> QED BY <2>1
<1> QED BY <1>1, ApprovalInvariant, PTL

\* For any number of users and any amounts: the Diamonds of all users are those
\* they started with, those of the approved requests and those sold.
THEOREM DiamondsAlwaysDecided == ApprovalSpec => []DiamondsAreDecided
<1>1. ApprovalInv => DiamondsAreDecided
  BY DEF ApprovalInv, DiamondInv
<1> QED BY <1>1, ApprovalInvariant, PTL

\* For any number of requests for one user open at once: one seller entry, one
\* membership and one ban, as the profile shows them, but for the overrides.
THEOREM RecordsAlwaysMatch == ApprovalSpec => []OneRecordPerUser
<1>1. ASSUME NEW u, NEW kind, NEW flag \in BOOLEAN, Shown(u, kind, flag)
      PROVE  Cardinality(Opened(u, kind, {"active"})) = IF flag THEN 1 ELSE 0
  BY <1>1, FS_EmptySet, FS_Singleton DEF Shown
<1>2. ApprovalInv => OneRecordPerUser
  <2> SUFFICES ASSUME ApprovalInv, NEW u \in User
               PROVE  /\ Opened(u, "seller", {"active", "suspended"}) =
                           IF users[u].seller = None THEN {} ELSE {users[u].seller}
                      /\ <<"vip", u>> \notin diverged =>
                           Cardinality(Opened(u, "vip", {"active"})) =
                             IF users[u].vip THEN 1 ELSE 0
                      /\ <<"ban", u>> \notin diverged =>
                           Cardinality(Opened(u, "ban", {"active"})) =
                             IF users[u].banned THEN 1 ELSE 0
    BY DEF OneRecordPerUser
  <2>1. users[u].vip \in BOOLEAN /\ users[u].banned \in BOOLEAN
    BY DEF ApprovalInv, ApprovalTyped, UserRec
  <2>2. /\ Opened(u, "seller", {"active", "suspended"}) =
             IF users[u].seller = None THEN {} ELSE {users[u].seller}
        /\ <<"vip", u>> \notin diverged => Shown(u, "vip", users[u].vip)
        /\ <<"ban", u>> \notin diverged => Shown(u, "ban", users[u].banned)
    BY DEF ApprovalInv, RecordInv
  <2> QED BY <1>1, <2>1, <2>2
<1> QED BY <1>2, ApprovalInvariant, PTL
=============================================================================
