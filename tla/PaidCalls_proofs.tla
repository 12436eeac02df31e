-------------------------- MODULE PaidCalls_proofs --------------------------
(***************************************************************************)
(* Theorems about paid calls, for any number of users, connections, calls, *)
(* sessions and rate settings: the hosting of a call, and the random search *)
(* that starts one.                                                        *)
(***************************************************************************)
EXTENDS RandomCall, Sums

-----------------------------------------------------------------------------
(***************************************************************************)
(* The hosting of a call.                                                  *)
(***************************************************************************)

\* What the handlers rely on about one call record: a ringing call has no
\* timer but its ring timer, a connected one is billed or paused but never
\* both, and the minutes charged stay within the connected time plus what is
\* left of the interval.
CallShape(c) ==
    LET r == call[c] IN
    /\ Active(c) => /\ r.caller \in User
                    /\ r.host \in User
                    /\ r.caller # r.host
    /\ Ringing(c) => ~r.billTimer /\ r.minutes = 0 /\ r.elapsed = 0
    /\ ~Connected(c) => r.grace = None
    /\ Connected(c) =>
         /\ r.billTimer <=> r.grace = None
         /\ r.grace # None => r.grace \in Party(c)
         /\ r.due <= HalvesPerMinute
         /\ HalvesPerMinute * r.minutes <= r.elapsed + HalvesPerMinute
         /\ r.billTimer => HalvesPerMinute * r.minutes <= r.elapsed + r.due

\* The part of TypeOK about everything but the calls.
EnvTyped ==
    /\ live \subseteq Socket
    /\ primary \in [User -> Socket \cup {None}]
    /\ accounts \subseteq User
    /\ approved \subseteq User
    /\ rates \in RateConfigs
    /\ diamonds \in [User -> Nat]
    /\ usage \in [User -> Nat]
    /\ revenue \in Nat

HostingInv ==
    /\ TypeOK
    /\ BusyConsistent
    /\ \A c \in CallId : CallShape(c)

-----------------------------------------------------------------------------

\* The three sorts of identifiers and null are told apart.
LEMMA NoneIsFresh ==
    /\ \A u \in User : u # None
    /\ \A s \in Socket : s # None
    /\ \A c \in CallId : c # None
BY HostingAssumption

\* Init establishes the invariant: nobody is busy and no record is in use.
LEMMA HostingInitInv == HostingInit => HostingInv
<1> SUFFICES ASSUME HostingInit PROVE HostingInv
  OBVIOUS
<1>1. TypeOK
  BY HostingAssumption
  DEF HostingInit, TypeOK, CallRecord, Unused, LogEntry
<1>2. BusyConsistent
  BY NoneIsFresh DEF HostingInit, BusyConsistent, Active, Ringing, Connected,
                     Unused
<1>3. \A c \in CallId : CallShape(c)
  BY DEF HostingInit, CallShape, Active, Ringing, Connected, Unused
<1> QED BY <1>1, <1>2, <1>3 DEF HostingInv

\* Every ending -- endCall, reject, ring timeout, drop while ringing --
\* keeps the invariant: it frees exactly the two parties of the call.
LEMMA FinishInv ==
    ASSUME HostingInv, NEW c \in CallId, Active(c),
           NEW outcome \in {"completed", "missed", "rejected"},
           Finish(c, outcome),
           EnvTyped'
    PROVE  HostingInv'
<1> USE DEF HostingInv
<1>1. call' = [call EXCEPT ![c] = Cleared(@)]
  BY DEF Finish
<1>2. Cleared(call[c]) \in CallRecord /\ Cleared(call[c]).status = "over"
      /\ Cleared(call[c]).grace = None
  BY DEF Cleared, TypeOK, CallRecord
<1>3. call' \in [CallId -> CallRecord]
  BY <1>1, <1>2 DEF TypeOK
<1>4. busy' \in [User -> CallId \cup {None}]
  BY DEF Finish, FreeParties, TypeOK
<1>5. history' \subseteq LogEntry
  BY DEF Finish, Log, LogEntry, TypeOK, CallRecord
<1>6. TypeOK'
  BY <1>3, <1>4, <1>5 DEF TypeOK, EnvTyped
<1>7. \A d \in CallId \ {c} : call'[d] = call[d]
  BY <1>1 DEF TypeOK
<1>8. call'[c].status = "over" /\ call'[c].grace = None
  BY <1>1, <1>2 DEF TypeOK
<1>9. BusyConsistent'
  <2> SUFFICES ASSUME NEW u \in User, NEW d \in CallId
               PROVE  (busy[u] = d <=> Active(d) /\ u \in Party(d))'
    BY DEF BusyConsistent
  <2>1. CASE d = c
    <3>1. ~Active(d)'
      BY <1>8, <2>1 DEF Active, Ringing, Connected
    <3>2. busy'[u] # d
      BY <2>1, NoneIsFresh
      DEF Finish, FreeParties, BusyConsistent, TypeOK
    <3> QED BY <3>1, <3>2
  <2>2. CASE d # c
    <3>1. (Active(d) /\ u \in Party(d))' <=> Active(d) /\ u \in Party(d)
      BY <1>7, <2>2 DEF Active, Ringing, Connected, Party
    <3>2. busy'[u] = d <=> busy[u] = d
      BY <2>2, NoneIsFresh
      DEF Finish, FreeParties, BusyConsistent, TypeOK
    <3> QED BY <3>1, <3>2 DEF BusyConsistent
  <2> QED BY <2>1, <2>2
<1>10. \A d \in CallId : CallShape(d)'
  BY <1>7, <1>8 DEF CallShape, Active, Ringing, Connected, Party
<1> QED BY <1>6, <1>9, <1>10

\* A step that rewrites one active record, keeps its parties and frees
\* nobody keeps the invariant if the new record is well formed.
LEMMA UpdateInv ==
    ASSUME HostingInv, NEW c \in CallId, NEW r \in CallRecord, Active(c),
           call' = [call EXCEPT ![c] = r],
           r.caller = call[c].caller, r.host = call[c].host,
           r.status \in {"ringing", "connected"},
           CallShape(c)',
           UNCHANGED <<busy, history>>,
           EnvTyped'
    PROVE  HostingInv'
<1> USE DEF HostingInv
<1>1. TypeOK'
  BY DEF TypeOK, EnvTyped
<1>2. \A d \in CallId \ {c} : call'[d] = call[d]
  BY DEF TypeOK
<1>3. call'[c] = r
  BY DEF TypeOK
<1>4. BusyConsistent'
  <2> SUFFICES ASSUME NEW u \in User, NEW d \in CallId
               PROVE  (busy[u] = d <=> Active(d) /\ u \in Party(d))'
    BY DEF BusyConsistent
  <2>1. (Active(d) /\ u \in Party(d))' <=> Active(d) /\ u \in Party(d)
    BY <1>2, <1>3 DEF Active, Ringing, Connected, Party
  <2> QED BY <2>1 DEF BusyConsistent
<1>5. \A d \in CallId : CallShape(d)'
  BY <1>2 DEF CallShape, Active, Ringing, Connected, Party
<1> QED BY <1>1, <1>4, <1>5

\* A step that leaves the calls, the busy map and the log alone keeps the
\* invariant as long as what it does change stays well typed.
LEMMA FrameInv ==
    ASSUME HostingInv, UNCHANGED <<call, busy, history>>,
           EnvTyped'
    PROVE  HostingInv'
<1>1. TypeOK'
  BY DEF HostingInv, TypeOK, EnvTyped
<1>2. BusyConsistent'
  BY DEF HostingInv, BusyConsistent, Active, Ringing, Connected, Party
<1>3. \A c \in CallId : CallShape(c)'
  BY DEF HostingInv, CallShape, Active, Ringing, Connected, Party
<1> QED BY <1>1, <1>2, <1>3 DEF HostingInv

\* A charge keeps the wallets and the ledger well typed.
LEMMA ChargeTyped ==
    ASSUME HostingInv, NEW c \in CallId, Active(c), Charge(c)
    PROVE  /\ diamonds' \in [User -> Nat]
           /\ usage' \in [User -> Nat]
           /\ revenue' \in Nat
BY DEF HostingInv, TypeOK, CallRecord, Charge, Debited, CallShape

\* attemptInvite: neither party was busy, so marking both busy with a new
\* call keeps the map exact.
LEMMA InviteInv ==
    ASSUME HostingInv, NEW c \in CallId, NEW s \in Socket, NEW h \in User,
           Invite(c, s, h)
    PROVE  HostingInv'
<1> USE DEF HostingInv
<1> DEFINE u == Owner[s]
           r == [Unused EXCEPT !.status = "ringing", !.caller = u,
                               !.host = h, !.callerSocket = s,
                               !.hostSocket = primary[h],
                               !.rate = rates.perMinute]
<1>1. u \in User /\ u # h
  BY HostingAssumption DEF Invite
<1>2. r \in CallRecord
  BY HostingAssumption, <1>1 DEF TypeOK, CallRecord, Unused, RateConfig
<1>3. call' = [call EXCEPT ![c] = r] /\ busy' = [busy EXCEPT ![u] = c, ![h] = c]
  BY DEF Invite
<1> HIDE DEF u
<1>4. r.status = "ringing" /\ r.caller = u /\ r.host = h /\ r.grace = None
      /\ r.billTimer = FALSE /\ r.minutes = 0 /\ r.elapsed = 0
  BY DEF Unused
<1> HIDE DEF r
<1>5. TypeOK'
  BY <1>1, <1>2, <1>3 DEF Invite, TypeOK, admin, wallet
<1>6. \A d \in CallId \ {c} : call'[d] = call[d]
  BY <1>3 DEF TypeOK
<1>7. call'[c] = r
  BY <1>3 DEF TypeOK
<1>8. BusyConsistent'
  <2> SUFFICES ASSUME NEW v \in User, NEW d \in CallId
               PROVE  (busy[v] = d <=> Active(d) /\ v \in Party(d))'
    BY DEF BusyConsistent
  <2>1. busy[u] = None /\ busy[h] = None /\ call[c].status = "unused"
    BY DEF Invite, u
  <2>2. CASE d = c
    <3>1. (Active(d) /\ v \in Party(d))' <=> v \in {u, h}
      BY <1>4, <1>7, <2>2 DEF Active, Ringing, Connected, Party
    <3>2. busy[v] # c
      BY <2>1 DEF BusyConsistent, Active, Ringing, Connected
    <3> QED BY <1>1, <1>3, <2>2, <3>1, <3>2 DEF TypeOK
  <2>3. CASE d # c
    <3>1. (Active(d) /\ v \in Party(d))' <=> Active(d) /\ v \in Party(d)
      BY <1>6, <2>3 DEF Active, Ringing, Connected, Party
    <3>2. v \in {u, h} => busy[v] # d
      BY <2>1, NoneIsFresh
    <3> QED BY <1>1, <1>3, <2>3, <3>1, <3>2 DEF TypeOK, BusyConsistent
  <2> QED BY <2>2, <2>3
<1>9. \A d \in CallId : CallShape(d)'
  <2>1. CallShape(c)'
    BY <1>1, <1>4, <1>7 DEF CallShape, Active, Ringing, Connected, Party
  <2> QED BY <1>6, <2>1 DEF CallShape, Active, Ringing, Connected, Party
<1> QED BY <1>5, <1>8, <1>9
-----------------------------------------------------------------------------

\* One lemma per group of actions; the endings are all FinishInv.
LEMMA CallStepInv ==
    ASSUME HostingInv, NEW c \in CallId, CallStep(c)
    PROVE  HostingInv'
<1> USE DEF HostingInv
<1>0. call[c] \in CallRecord
  BY DEF TypeOK
<1>00. UNCHANGED <<live, primary, admin, wallet>> => EnvTyped'
  BY DEF TypeOK, EnvTyped, admin, wallet
<1>1. CASE AcceptPaid(c)
  <2> DEFINE r == [call[c] EXCEPT !.status = "connected", !.minutes = 1,
                                  !.billTimer = TRUE, !.due = HalvesPerMinute]
  <2>1. /\ r \in CallRecord /\ r.status = "connected" /\ r.minutes = 1
        /\ r.billTimer = TRUE /\ r.due = HalvesPerMinute
        /\ r.caller = call[c].caller /\ r.host = call[c].host
        /\ r.grace = call[c].grace /\ r.elapsed = call[c].elapsed
    BY <1>0 DEF CallRecord, HalvesPerMinute
  <2>2. call' = [call EXCEPT ![c] = r]
    BY <1>1 DEF AcceptPaid, TypeOK
  <2> HIDE DEF r
  <2>3. Active(c) /\ call'[c] = r
    BY <1>1, <2>2 DEF AcceptPaid, Active, TypeOK
  <2>4. CallShape(c)'
    BY <1>1, <2>1, <2>3
    DEF AcceptPaid, CallShape, Active, Ringing, Connected, HalvesPerMinute
  <2>5. EnvTyped' /\ UNCHANGED <<busy, history>>
    BY <1>1, <2>3, ChargeTyped DEF AcceptPaid, TypeOK, EnvTyped, admin
  <2> QED BY <2>1, <2>2, <2>3, <2>4, <2>5, UpdateInv
<1>2. CASE AcceptUnpaid(c)
  <2> DEFINE r == [Cleared(call[c]) EXCEPT !.billTimer = TRUE]
  <2>1. r \in CallRecord /\ r.status = "over" /\ r.grace = None
    BY <1>0 DEF CallRecord, Cleared
  <2>2. call' = [call EXCEPT ![c] = r]
    BY <1>2 DEF AcceptUnpaid, TypeOK
  <2> HIDE DEF r
  <2>3. \A d \in CallId \ {c} : call'[d] = call[d]
    BY <2>2 DEF TypeOK
  <2>4. call'[c] = r
    BY <2>2 DEF TypeOK
  <2>5. TypeOK'
    <3>1. call' \in [CallId -> CallRecord]
      BY <2>1, <2>2 DEF TypeOK
    <3>2. busy' \in [User -> CallId \cup {None}]
      BY <1>2 DEF AcceptUnpaid, FreeParties, TypeOK
    <3>3. history' \subseteq LogEntry
      BY <1>0, <1>2 DEF AcceptUnpaid, Log, LogEntry, TypeOK, CallRecord
    <3> QED BY <1>2, <3>1, <3>2, <3>3 DEF AcceptUnpaid, TypeOK, admin, wallet
  <2>6. BusyConsistent'
    <3> SUFFICES ASSUME NEW u \in User, NEW d \in CallId
                 PROVE  (busy[u] = d <=> Active(d) /\ u \in Party(d))'
      BY DEF BusyConsistent
    <3>1. CASE d = c
      <4>1. ~Active(d)'
        BY <2>1, <2>4, <3>1 DEF Active, Ringing, Connected
      <4>2. busy'[u] # d
        BY <1>2, <3>1, NoneIsFresh
        DEF AcceptUnpaid, FreeParties, BusyConsistent, Active, TypeOK
      <4> QED BY <4>1, <4>2
    <3>2. CASE d # c
      <4>1. (Active(d) /\ u \in Party(d))' <=> Active(d) /\ u \in Party(d)
        BY <2>3, <3>2 DEF Active, Ringing, Connected, Party
      <4>2. busy'[u] = d <=> busy[u] = d
        BY <1>2, <3>2, NoneIsFresh
        DEF AcceptUnpaid, FreeParties, BusyConsistent, Active, TypeOK
      <4> QED BY <4>1, <4>2 DEF BusyConsistent
    <3> QED BY <3>1, <3>2
  <2>7. \A d \in CallId : CallShape(d)'
    BY <2>1, <2>3, <2>4 DEF CallShape, Active, Ringing, Connected, Party
  <2> QED BY <2>5, <2>6, <2>7
<1>3. CASE Reject(c)
  BY <1>00, <1>3, FinishInv DEF Reject, Active
<1>4. CASE EndByParticipant(c)
  <2>1. \E outcome \in {"completed", "missed", "rejected"} : Finish(c, outcome)
    BY <1>4 DEF EndByParticipant, EndCall
  <2> QED BY <1>00, <1>4, <2>1, FinishInv DEF EndByParticipant
<1>5. CASE RingTimeout(c)
  BY <1>00, <1>5, FinishInv DEF RingTimeout, Active
<1>6. CASE Elapse(c)
  <2> DEFINE e == call[c].elapsed + 1
             f == call[c].due - 1
             r == [call[c] EXCEPT !.elapsed = e, !.due = f]
  <2>0. /\ call[c].elapsed \in Nat /\ call[c].due \in Nat /\ call[c].due > 0
        /\ call[c].billTimer \in BOOLEAN /\ e \in Nat /\ f \in Nat
    BY <1>0, <1>6 DEF CallRecord, Elapse
  <2>1. /\ r \in CallRecord /\ r.status = call[c].status
        /\ r.minutes = call[c].minutes /\ r.billTimer = call[c].billTimer
        /\ r.caller = call[c].caller /\ r.host = call[c].host
        /\ r.grace = call[c].grace /\ r.elapsed = e /\ r.due = f
    <3> HIDE DEF e, f
    <3> QED BY <1>0, <2>0 DEF CallRecord
  <2>2. call' = [call EXCEPT ![c] = r]
    BY <1>6 DEF Elapse, TypeOK
  <2> HIDE DEF r
  <2>3. Active(c) /\ Connected(c) /\ call'[c] = r
    BY <1>6, <2>2 DEF Elapse, Active, TypeOK
  <2>4. call[c].minutes \in Nat
    BY <1>0 DEF CallRecord
  <2>a. call[c].billTimer = TRUE /\ call[c].grace = None
    BY <1>6, <2>0, <2>3 DEF Elapse, CallShape
  <2>b. r.billTimer = TRUE /\ r.grace = None /\ r.status = "connected"
    BY <2>1, <2>3, <2>a DEF Connected
  <2>c. /\ call[c].due <= 2
        /\ 2 * call[c].minutes <= call[c].elapsed + 2
        /\ 2 * call[c].minutes <= call[c].elapsed + call[c].due
        /\ call[c].caller \in User /\ call[c].host \in User
        /\ call[c].caller # call[c].host
    BY <2>3, <2>a DEF CallShape, HalvesPerMinute
  <2>d. /\ r.due <= 2
        /\ 2 * r.minutes <= r.elapsed + 2
        /\ 2 * r.minutes <= r.elapsed + r.due
    BY <2>0, <2>1, <2>4, <2>c
  <2>5. CallShape(c)'
    BY <2>1, <2>3, <2>b, <2>c, <2>d
    DEF CallShape, Active, Ringing, Connected, HalvesPerMinute, Party
  <2>6. r.status \in {"ringing", "connected"}
    BY <2>1, <2>3 DEF Connected
  <2>7. UNCHANGED <<live, primary, admin, wallet, busy, history>>
    BY <1>6 DEF Elapse
  <2> QED BY <1>00, <2>1, <2>2, <2>3, <2>5, <2>6, <2>7, UpdateInv
<1>7. CASE BillTick(c)
  <2>0. Connected(c) /\ Active(c) /\ call[c].billTimer /\ call[c].due = 0
    BY <1>7 DEF BillTick, Billable, Active
  <2>1. CASE CannotBill(c)
    <3>1. \E outcome \in {"completed", "missed", "rejected"} : Finish(c, outcome)
      BY <1>7, <2>1 DEF BillTick, EndCall
    <3>2. UNCHANGED <<live, primary, admin, wallet>>
      BY <1>7, <2>1 DEF BillTick
    <3> QED BY <1>00, <2>0, <3>1, <3>2, FinishInv
  <2>2. CASE ~CannotBill(c)
    <3> DEFINE n == call[c].minutes + 1
               r == [call[c] EXCEPT !.minutes = n, !.due = HalvesPerMinute]
    <3>0. n \in Nat /\ call[c].billTimer \in BOOLEAN
      BY <1>0 DEF CallRecord
    <3>1. /\ r \in CallRecord /\ r.status = call[c].status
          /\ r.minutes = n
          /\ r.billTimer = call[c].billTimer
          /\ r.caller = call[c].caller /\ r.host = call[c].host
          /\ r.grace = call[c].grace /\ r.elapsed = call[c].elapsed
          /\ r.due = HalvesPerMinute
      <4> HIDE DEF n
      <4> QED BY <1>0, <3>0 DEF CallRecord, HalvesPerMinute
    <3>2. call' = [call EXCEPT ![c] = r] /\ Charge(c)
          /\ UNCHANGED <<live, primary, admin, busy, history>>
      BY <1>7, <2>2 DEF BillTick, TypeOK
    <3> HIDE DEF r
    <3>3. call'[c] = r
      BY <3>2 DEF TypeOK
    <3>4. call[c].minutes \in Nat /\ call[c].elapsed \in Nat
      BY <1>0 DEF CallRecord
    <3>a. call[c].billTimer = TRUE /\ call[c].grace = None
      BY <2>0, <3>0 DEF CallShape
    <3>b. r.billTimer = TRUE /\ r.grace = None /\ r.status = "connected"
      BY <2>0, <3>1, <3>a DEF Connected
    <3>c. /\ 2 * call[c].minutes <= call[c].elapsed + 0
          /\ call[c].caller \in User /\ call[c].host \in User
          /\ call[c].caller # call[c].host
      BY <2>0, <3>a DEF CallShape, HalvesPerMinute
    <3>d. /\ r.due = 2
          /\ 2 * r.minutes <= r.elapsed + 2
          /\ 2 * r.minutes <= r.elapsed + r.due
      BY <3>1, <3>4, <3>c DEF HalvesPerMinute
    <3>5. CallShape(c)'
      BY <3>1, <3>3, <3>b, <3>c, <3>d
      DEF CallShape, Active, Ringing, Connected, HalvesPerMinute, Party
    <3>6. r.status \in {"ringing", "connected"}
      BY <2>0, <3>1 DEF Connected
    <3>7. EnvTyped'
      BY <2>0, <3>2, ChargeTyped DEF TypeOK, EnvTyped, admin
    <3> QED BY <2>0, <3>1, <3>2, <3>5, <3>6, <3>7, UpdateInv
  <2> QED BY <2>1, <2>2
<1>8. CASE GraceExpire(c)
  <2>1. \E outcome \in {"completed", "missed", "rejected"} : Finish(c, outcome)
    BY <1>8 DEF GraceExpire, EndCall
  <2> QED BY <1>00, <1>8, <2>1, FinishInv DEF GraceExpire, Active
<1> QED BY <1>1, <1>2, <1>3, <1>4, <1>5, <1>6, <1>7, <1>8 DEF CallStep
\* handleDisconnect: a ringing call ends, a connected one is paused at most
\* once, and a stale connection changes nothing.
LEMMA DisconnectInv ==
    ASSUME HostingInv, NEW s \in Socket, Disconnect(s)
    PROVE  HostingInv'
<1> USE DEF HostingInv
<1> DEFINE u == Owner[s]
<1>1. u \in User /\ busy[u] \in CallId \cup {None}
  BY HostingAssumption DEF TypeOK
<1>2. EnvTyped'
  BY DEF Disconnect, TypeOK, EnvTyped, admin, wallet
<1>3. CASE busy[u] = None
  <2>1. UNCHANGED <<call, busy, history>>
    BY <1>3 DEF Disconnect, DropParty
  <2> QED BY <1>2, <2>1, FrameInv
<1>4. CASE busy[u] # None
  <2>1. PICK c \in CallId : c = busy[u]
    BY <1>1, <1>4
  <2>2. /\ Active(c) /\ u \in Party(c) /\ call[c] \in CallRecord
        /\ CallShape(c) /\ c # None /\ u # None
    BY <1>1, <2>1, NoneIsFresh DEF BusyConsistent, TypeOK
  <2>3. CASE Ringing(c)
    <3>1. Finish(c, "missed")
      BY <2>1, <2>2, <2>3 DEF Disconnect, DropParty
    <3> QED BY <1>2, <2>2, <3>1, FinishInv
  <2>4. CASE ~Ringing(c) /\ s = SocketOf(c, u) /\ call[c].grace = None
    <3> DEFINE r == Paused(call[c], u)
    <3>1. call' = [call EXCEPT ![c] = r] /\ UNCHANGED <<busy, history>>
      BY <2>1, <2>2, <2>4 DEF Disconnect, DropParty
    <3>2. /\ r \in CallRecord /\ r.status = call[c].status
          /\ r.minutes = call[c].minutes /\ r.elapsed = call[c].elapsed
          /\ r.caller = call[c].caller /\ r.host = call[c].host
          /\ r.grace = u /\ r.due = 0 /\ r.billTimer = FALSE
      BY <1>1, <2>2 DEF CallRecord, Paused
    <3> HIDE DEF r, u
    <3>3. call'[c] = r /\ r.status = "connected"
      BY <2>2, <2>4, <3>1, <3>2 DEF TypeOK, Active, Ringing, Connected
    <3>4. /\ 2 * call[c].minutes <= call[c].elapsed + 2
          /\ call[c].caller \in User /\ call[c].host \in User
          /\ call[c].caller # call[c].host
      BY <2>2, <2>4 DEF CallShape, HalvesPerMinute, Active
    <3>5. CallShape(c)'
      BY <2>2, <3>2, <3>3, <3>4
      DEF CallShape, Active, Ringing, Connected, HalvesPerMinute, Party
    <3> QED BY <1>2, <2>2, <3>1, <3>2, <3>3, <3>5, UpdateInv
  <2>5. CASE ~Ringing(c) /\ ~(s = SocketOf(c, u) /\ call[c].grace = None)
    <3>1. UNCHANGED <<call, busy, history>>
      BY <2>1, <2>5 DEF Disconnect, DropParty
    <3> QED BY <1>2, <3>1, FrameInv
  <2> QED BY <2>3, <2>4, <2>5
<1> QED BY <1>3, <1>4

\* identify / join-room: resuming re-arms the interval that the grace period
\* had stopped, for the user whose grace it was.
LEMMA IdentifyInv ==
    ASSUME HostingInv, NEW s \in Socket, Identify(s)
    PROVE  HostingInv'
<1> USE DEF HostingInv
<1> DEFINE u == Owner[s]
<1>1. u \in User /\ busy[u] \in CallId \cup {None}
  BY HostingAssumption DEF TypeOK
<1>2. EnvTyped' /\ UNCHANGED <<busy, history>>
  BY <1>1 DEF Identify, TypeOK, EnvTyped, admin, wallet
<1>3. CASE busy[u] # None /\ call[busy[u]].grace = u
  <2>1. PICK c \in CallId : c = busy[u]
    BY <1>1, <1>3
  <2> DEFINE r == Reattached(call[c], u, s)
  <2>2. /\ Active(c) /\ Connected(c) /\ call[c] \in CallRecord
        /\ CallShape(c) /\ u # None
    BY <1>1, <1>3, <2>1, NoneIsFresh DEF BusyConsistent, TypeOK, CallShape
  <2>3. call' = [call EXCEPT ![c] = r]
    BY <1>3, <2>1 DEF Identify, Resume
  <2>4. /\ r \in CallRecord /\ r.status = call[c].status
        /\ r.minutes = call[c].minutes /\ r.elapsed = call[c].elapsed
        /\ r.caller = call[c].caller /\ r.host = call[c].host
        /\ r.grace = None /\ r.due = HalvesPerMinute /\ r.billTimer = TRUE
    BY <1>1, <2>2 DEF CallRecord, Reattached, HalvesPerMinute
  <2> HIDE DEF r, u
  <2>5. call'[c] = r /\ r.status = "connected"
    BY <2>2, <2>3, <2>4 DEF TypeOK, Connected
  <2>6. /\ 2 * call[c].minutes <= call[c].elapsed + 2
        /\ call[c].caller \in User /\ call[c].host \in User
        /\ call[c].caller # call[c].host
    BY <2>2 DEF CallShape, HalvesPerMinute
  <2>7. CallShape(c)'
    BY <2>2, <2>4, <2>5, <2>6
    DEF CallShape, Active, Ringing, Connected, HalvesPerMinute, Party
  <2> QED BY <1>2, <2>2, <2>3, <2>4, <2>5, <2>7, UpdateInv
<1>4. CASE ~(busy[u] # None /\ call[busy[u]].grace = u)
  <2>1. UNCHANGED call
    BY <1>4 DEF Identify, Resume
  <2> QED BY <1>2, <2>1, FrameInv
<1> QED BY <1>3, <1>4

\* Administration and the other wallet writers: only revoking a host touches
\* a call, and it ends it like any other ending.
LEMMA UserStepInv ==
    ASSUME HostingInv, NEW u \in User, UserStep(u)
    PROVE  HostingInv'
<1> USE DEF HostingInv
<1>1. CASE ApproveHost(u)
  <2>1. EnvTyped' /\ UNCHANGED <<call, busy, history>>
    BY <1>1 DEF ApproveHost, TypeOK, EnvTyped, wallet
  <2> QED BY <2>1, FrameInv
<1>2. CASE RevokeHost(u)
  <2>1. EnvTyped'
    BY <1>2 DEF RevokeHost, TypeOK, EnvTyped, wallet
  <2>2. CASE busy[u] = None
    <3>1. UNCHANGED <<call, busy, history>>
      BY <1>2, <2>2 DEF RevokeHost
    <3> QED BY <2>1, <3>1, FrameInv
  <2>3. CASE busy[u] # None
    <3>1. PICK c \in CallId : c = busy[u]
      BY <2>3 DEF TypeOK
    <3>2. \E outcome \in {"completed", "missed", "rejected"} : Finish(c, outcome)
      BY <1>2, <2>3, <3>1 DEF RevokeHost, EndCall
    <3>3. Active(c)
      BY <3>1 DEF BusyConsistent
    <3> QED BY <2>1, <3>2, <3>3, FinishInv
  <2> QED BY <2>2, <2>3
<1>3. CASE DeleteAccount(u)
  <2>1. EnvTyped' /\ UNCHANGED <<call, busy, history>>
    BY <1>3 DEF DeleteAccount, TypeOK, EnvTyped, wallet
  <2> QED BY <2>1, FrameInv
<1>4. CASE \E d \in 0..MaxDiamonds : OtherWalletChange(u, d)
  <2>1. EnvTyped' /\ UNCHANGED <<call, busy, history>>
    BY <1>4, HostingAssumption DEF OtherWalletChange, TypeOK, EnvTyped, admin
  <2> QED BY <2>1, FrameInv
<1> QED BY <1>1, <1>2, <1>3, <1>4 DEF UserStep

-----------------------------------------------------------------------------

\* Every step of the module, or none, keeps the invariant.
LEMMA HostingStepInv ==
    HostingInv /\ [HostingNext]_hostingVars => HostingInv'
<1> SUFFICES ASSUME HostingInv, [HostingNext]_hostingVars
             PROVE  HostingInv'
  OBVIOUS
<1>1. ASSUME NEW c \in CallId, NEW s \in Socket, NEW h \in User, Invite(c, s, h)
      PROVE  HostingInv'
  BY <1>1, InviteInv
<1>2. ASSUME NEW c \in CallId, CallStep(c)
      PROVE  HostingInv'
  BY <1>2, CallStepInv
<1>3. ASSUME NEW s \in Socket, Disconnect(s) \/ Identify(s)
      PROVE  HostingInv'
  BY <1>3, DisconnectInv, IdentifyInv
<1>4. ASSUME NEW u \in User, UserStep(u)
      PROVE  HostingInv'
  BY <1>4, UserStepInv
<1>5. ASSUME NEW r \in RateConfigs, SetRates(r)
      PROVE  HostingInv'
  <2>1. EnvTyped' /\ UNCHANGED <<call, busy, history>>
    BY <1>5 DEF SetRates, HostingInv, TypeOK, EnvTyped, wallet
  <2> QED BY <2>1, FrameInv
<1>6. CASE NewDay
  <2>1. EnvTyped' /\ UNCHANGED <<call, busy, history>>
    BY <1>6 DEF NewDay, HostingInv, TypeOK, EnvTyped, admin
  <2> QED BY <2>1, FrameInv
<1>7. CASE UNCHANGED hostingVars
  <2>1. EnvTyped' /\ UNCHANGED <<call, busy, history>>
    BY <1>7 DEF hostingVars, HostingInv, TypeOK, EnvTyped
  <2> QED BY <2>1, FrameInv
<1> QED BY <1>1, <1>2, <1>3, <1>4, <1>5, <1>6, <1>7 DEF HostingNext

-----------------------------------------------------------------------------
(* The log and the ledger                                                  *)

Entries(c) == {e \in history : e.call = c}

\* A call that is over has one entry, with its minutes; others have none.
LogShape(c) ==
    /\ call[c].status # "over" => Entries(c) = {}
    /\ call[c].status = "over" =>
         \E e \in LogEntry : /\ Entries(c) = {e}
                             /\ e.minutes = call[c].minutes
                             /\ e.minutes > 0 => e.status = "completed"

Made == {c \in CallId : call[c].status # "unused"}
Charged == [c \in CallId |-> call[c].rate * call[c].minutes]

BooksInv ==
    /\ HostingInv
    /\ \A c \in CallId : LogShape(c)
    /\ IsFiniteSet(Made)
    /\ revenue = SumFunctionOnSet(Charged, Made)

LEMMA ChargedTyped ==
    ASSUME HostingInv
    PROVE  \A c \in CallId : Charged[c] = call[c].rate * call[c].minutes /\ Charged[c] \in Nat
<1> SUFFICES ASSUME NEW c \in CallId
             PROVE  Charged[c] = call[c].rate * call[c].minutes /\ Charged[c] \in Nat
  OBVIOUS
<1>1. call[c].rate \in Nat /\ call[c].minutes \in Nat
  BY DEF HostingInv, TypeOK, CallRecord
<1>2. \A x, y \in Nat : x * y \in Nat
  OBVIOUS
<1> QED BY <1>1, <1>2 DEF Charged

\* The call is known to the books as it was.
KeepsBooks(c) ==
    /\ call'[c].minutes = call[c].minutes /\ call'[c].rate = call[c].rate
    /\ call'[c].status = "over" <=> call[c].status = "over"
    /\ call'[c].status = "unused" <=> call[c].status = "unused"

\* A step that neither charges nor ends a call.
LEMMA QuietBooks ==
    ASSUME BooksInv, HostingInv', UNCHANGED <<history, revenue>>,
           \A c \in CallId : KeepsBooks(c)
    PROVE  BooksInv'
<1>1. Made' = Made /\ Charged' = Charged
  BY DEF Made, Charged, KeepsBooks
<1>2. \A c \in CallId : Entries(c)' = Entries(c)
  BY DEF Entries
<1>3. \A c \in CallId : LogShape(c)'
  BY <1>2 DEF BooksInv, LogShape, KeepsBooks
<1> QED BY <1>1, <1>3 DEF BooksInv

LEMMA SameBooks ==
    ASSUME BooksInv, HostingInv', UNCHANGED <<history, revenue>>,
           NEW c \in CallId, NEW r, call' = [call EXCEPT ![c] = r],
           r.status = call[c].status,
           r.minutes = call[c].minutes, r.rate = call[c].rate
    PROVE  BooksInv'
<1>1. call \in [CallId -> CallRecord]
  BY DEF BooksInv, HostingInv, TypeOK
<1>2. call'[c] = r /\ \A d \in CallId \ {c} : call'[d] = call[d]
  BY <1>1
<1> QED BY <1>2, QuietBooks DEF KeepsBooks

LEMMA FrameBooks ==
    ASSUME BooksInv, HostingInv', UNCHANGED <<call, history, revenue>>
    PROVE  BooksInv'
BY QuietBooks DEF KeepsBooks

\* The end of a call: it is logged with the minutes it was charged.
LEMMA FinishBooks ==
    ASSUME BooksInv, HostingInv', NEW c \in CallId, Active(c),
           NEW outcome \in {"completed", "missed", "rejected"},
           Ringing(c) \/ outcome = "completed",
           Log(c, outcome), UNCHANGED revenue,
           NEW r \in CallRecord, call' = [call EXCEPT ![c] = r],
           r.status = "over", r.minutes = call[c].minutes, r.rate = call[c].rate
    PROVE  BooksInv'
<1> DEFINE e == [call |-> c, status |-> outcome, minutes |-> call[c].minutes]
<1>0. call \in [CallId -> CallRecord]
  BY DEF BooksInv, HostingInv, TypeOK
<1>1. call'[c] = r /\ \A d \in CallId \ {c} : call'[d] = call[d]
  BY <1>0
<1>2. call[c].status \notin {"over", "unused"}
  BY DEF Active, Ringing, Connected
<1>3. Made' = Made
  BY <1>1, <1>2 DEF Made
<1>4. Charged' = Charged
  BY <1>1 DEF Charged
<1>5. e \in LogEntry /\ e.call = c /\ e.minutes = call[c].minutes /\ e.status = outcome
  BY <1>0 DEF LogEntry, CallRecord
<1>6. history' = history \cup {e}
  BY DEF Log
<1> HIDE DEF e
<1>7. ASSUME NEW d \in CallId PROVE LogShape(d)'
  <2>1. CASE d # c
    <3>1. Entries(d)' = Entries(d)
      BY <1>5, <1>6, <2>1 DEF Entries
    <3> QED BY <1>1, <2>1, <3>1 DEF LogShape, BooksInv
  <2>2. CASE d = c
    <3>1. Entries(c) = {}
      BY <1>2 DEF LogShape, BooksInv
    <3>2. Entries(c)' = {e}
      BY <1>5, <1>6, <3>1 DEF Entries
    <3>3. Ringing(c) => call[c].minutes = 0
      BY DEF BooksInv, HostingInv, CallShape
    <3>4. e.minutes > 0 => e.status = "completed"
      BY <1>5, <3>3
    <3> QED BY <1>1, <1>5, <2>2, <3>2, <3>4 DEF LogShape
  <2> QED BY <2>1, <2>2
<1> QED BY <1>3, <1>4, <1>7 DEF BooksInv

\* The same for Finish, which every ending but one uses.
LEMMA EndBooks ==
    ASSUME BooksInv, HostingInv', NEW c \in CallId, Active(c),
           NEW outcome \in {"completed", "missed", "rejected"},
           Ringing(c) \/ outcome = "completed",
           Finish(c, outcome), UNCHANGED revenue
    PROVE  BooksInv'
<1>1. call[c] \in CallRecord
  BY DEF BooksInv, HostingInv, TypeOK
<1>2. /\ Cleared(call[c]) \in CallRecord
      /\ Cleared(call[c]).status = "over"
      /\ Cleared(call[c]).minutes = call[c].minutes
      /\ Cleared(call[c]).rate = call[c].rate
  BY <1>1 DEF Cleared, CallRecord
<1>3. call' = [call EXCEPT ![c] = Cleared(call[c])] /\ Log(c, outcome)
  BY DEF Finish
<1> QED BY <1>2, <1>3, FinishBooks

LEMMA EndCallBooks ==
    ASSUME BooksInv, HostingInv', NEW c \in CallId, Active(c),
           EndCall(c), UNCHANGED revenue
    PROVE  BooksInv'
<1>1. CASE Connected(c)
  <2>1. Finish(c, "completed")
    BY <1>1 DEF EndCall
  <2> QED BY <2>1, EndBooks
<1>2. CASE ~Connected(c)
  <2>1. Finish(c, "missed") /\ Ringing(c)
    BY <1>2 DEF EndCall, Active
  <2> QED BY <2>1, EndBooks
<1> QED BY <1>1, <1>2

\* A minute is charged to the call and to the ledger.
LEMMA ChargeBooks ==
    ASSUME BooksInv, HostingInv', NEW c \in CallId, Active(c),
           Charge(c), UNCHANGED history,
           NEW r \in CallRecord, call' = [call EXCEPT ![c] = r],
           r.status \in {"ringing", "connected"},
           r.minutes = call[c].minutes + 1, r.rate = call[c].rate
    PROVE  BooksInv'
<1>0. call \in [CallId -> CallRecord]
  BY DEF BooksInv, HostingInv, TypeOK
<1>1. call'[c] = r /\ \A d \in CallId \ {c} : call'[d] = call[d]
  BY <1>0
<1>2. call[c].status \notin {"over", "unused"}
  BY DEF Active, Ringing, Connected
<1>3. Made' = Made /\ c \in Made
  BY <1>1, <1>2 DEF Made
<1>4. \A d \in CallId : LogShape(d)'
  <2>1. \A d \in CallId : Entries(d)' = Entries(d)
    BY DEF Entries
  <2> QED BY <1>1, <1>2, <2>1 DEF LogShape, BooksInv
<1>5. \A d \in Made \ {c} : Charged'[d] = Charged[d]
  BY <1>1 DEF Charged, Made
<1>6. /\ Charged[c] \in Int /\ Charged'[c] = Charged[c] + call[c].rate
      /\ call[c].rate \in Nat
  <2>1. call[c].rate \in Nat /\ call[c].minutes \in Nat
    BY <1>0 DEF CallRecord
  <2>2. \A x, y \in Nat : x * (y + 1) = x * y + x
    OBVIOUS
  <2>3. Charged[c] = call[c].rate * call[c].minutes /\ Charged[c] \in Nat
    BY ChargedTyped DEF BooksInv
  <2>4. Charged'[c] = call[c].rate * (call[c].minutes + 1)
    BY <1>1 DEF Charged
  <2>5. call[c].rate * (call[c].minutes + 1) = call[c].rate * call[c].minutes + call[c].rate
    BY <2>1, <2>2
  <2>6. Charged'[c] = Charged[c] + call[c].rate
    BY <2>3, <2>4, <2>5
  <2>7. Charged[c] \in Int
    BY <2>3
  <2> QED BY <2>1, <2>6, <2>7
<1>7. \A d \in Made : Charged[d] \in Int
  BY ChargedTyped DEF BooksInv, Made
<1>8. SumFunctionOnSet(Charged', Made) =
        SumFunctionOnSet(Charged, Made) - Charged[c] + Charged'[c]
  <2>1. Charged'[c] \in Int
    BY <1>6
  <2> QED BY <1>3, <1>5, <1>7, <2>1, SumChanges DEF BooksInv
<1>9. SumFunctionOnSet(Charged, Made) \in Int
  BY <1>7, SumIsInt DEF BooksInv
<1>10. revenue' = SumFunctionOnSet(Charged', Made')
  BY <1>3, <1>6, <1>8, <1>9 DEF BooksInv, Charge
<1> QED BY <1>3, <1>4, <1>10 DEF BooksInv

\* A new call has neither minutes nor an entry.
LEMMA InviteBooks ==
    ASSUME BooksInv, HostingInv', NEW c \in CallId, NEW s \in Socket, NEW h \in User,
           Invite(c, s, h)
    PROVE  BooksInv'
<1>0. call \in [CallId -> CallRecord]
  BY DEF BooksInv, HostingInv, TypeOK
<1>1. /\ call[c].status = "unused" /\ UNCHANGED <<history, revenue>>
      /\ call'[c].status = "ringing" /\ call'[c].minutes = 0
      /\ \A d \in CallId \ {c} : call'[d] = call[d]
  BY <1>0 DEF Invite, Unused, wallet
<1>2. Made' = Made \cup {c} /\ c \notin Made
  BY <1>1 DEF Made
<1>3. \A d \in CallId : LogShape(d)'
  <2>1. \A d \in CallId : Entries(d)' = Entries(d)
    BY <1>1 DEF Entries
  <2> QED BY <1>1, <2>1 DEF LogShape, BooksInv
<1>4. \A d \in Made : Charged[d] \in Int /\ Charged'[d] = Charged[d]
  <2>1. \A d \in Made : Charged[d] \in Int
    BY ChargedTyped DEF BooksInv, Made
  <2>2. \A d \in Made : Charged'[d] = Charged[d]
    BY <1>1, <1>2 DEF Charged, Made
  <2> QED BY <2>1, <2>2
<1>5. Charged'[c] = 0
  <2>1. call'[c].rate \in Nat
    BY DEF HostingInv, TypeOK, CallRecord
  <2>2. \A x \in Nat : x * 0 = 0
    OBVIOUS
  <2> QED BY <1>1, <2>1, <2>2 DEF Charged
<1>6. SumFunctionOnSet(Charged', Made) = SumFunctionOnSet(Charged, Made)
  BY <1>4, SumSame DEF BooksInv
<1>7. SumFunctionOnSet(Charged', Made \cup {c}) = SumFunctionOnSet(Charged', Made) + 0
  <2>1. \A d \in Made : Charged'[d] \in Int
    BY <1>4
  <2> QED BY <1>2, <1>5, <2>1, SumAdds DEF BooksInv
<1>8. SumFunctionOnSet(Charged, Made) \in Int
  BY <1>4, SumIsInt DEF BooksInv
<1>9. IsFiniteSet(Made')
  BY <1>2, FS_AddElement DEF BooksInv
<1>10. revenue' = SumFunctionOnSet(Charged', Made')
  BY <1>1, <1>2, <1>6, <1>7, <1>8 DEF BooksInv
<1> QED BY <1>3, <1>9, <1>10 DEF BooksInv

LEMMA CallStepBooks ==
    ASSUME BooksInv, HostingInv', NEW c \in CallId, CallStep(c)
    PROVE  BooksInv'
<1>0. call[c] \in CallRecord /\ call \in [CallId -> CallRecord]
  BY DEF BooksInv, HostingInv, TypeOK
<1>00. UNCHANGED wallet => UNCHANGED revenue
  BY DEF wallet
<1>1. CASE AcceptPaid(c)
  <2> DEFINE r == [call[c] EXCEPT !.status = "connected", !.minutes = 1,
                                  !.billTimer = TRUE, !.due = HalvesPerMinute]
  <2>1. call[c].minutes = 0
    BY <1>1 DEF BooksInv, HostingInv, CallShape, AcceptPaid
  <2>2. /\ r \in CallRecord /\ r.status = "connected"
        /\ r.minutes = 1 /\ r.rate = call[c].rate
    BY <1>0 DEF CallRecord, HalvesPerMinute
  <2>3. call' = [call EXCEPT ![c] = r] /\ Charge(c) /\ UNCHANGED history /\ Active(c)
    BY <1>0, <1>1 DEF AcceptPaid, Active
  <2> HIDE DEF r
  <2>4. r.minutes = call[c].minutes + 1
    BY <2>1, <2>2
  <2> QED BY <2>2, <2>3, <2>4, ChargeBooks
<1>2. CASE AcceptUnpaid(c)
  <2> DEFINE r == [Cleared(call[c]) EXCEPT !.billTimer = TRUE]
  <2>1. /\ r \in CallRecord /\ r.status = "over"
        /\ r.minutes = call[c].minutes /\ r.rate = call[c].rate
    BY <1>0 DEF CallRecord, Cleared
  <2>2. call' = [call EXCEPT ![c] = r] /\ Log(c, "completed") /\ Active(c)
    BY <1>0, <1>2 DEF AcceptUnpaid, Active
  <2>3. UNCHANGED revenue
    BY <1>2, <1>00 DEF AcceptUnpaid
  <2> HIDE DEF r
  <2> QED BY <2>1, <2>2, <2>3, FinishBooks
<1>3. CASE Reject(c)
  BY <1>00, <1>3, EndBooks DEF Reject, Active
<1>4. CASE EndByParticipant(c)
  BY <1>00, <1>4, EndCallBooks DEF EndByParticipant
<1>5. CASE RingTimeout(c)
  BY <1>00, <1>5, EndBooks DEF RingTimeout, Active
<1>6. CASE Elapse(c)
  <2>1. \A d \in CallId : KeepsBooks(d)
    BY <1>0, <1>6 DEF Elapse, KeepsBooks, CallRecord
  <2> QED BY <1>00, <1>6, <2>1, QuietBooks DEF Elapse
<1>7. CASE BillTick(c)
  <2>0. Active(c) /\ call[c].status = "connected"
    BY <1>7 DEF BillTick, Billable, Active, Connected
  <2>1. CASE CannotBill(c)
    BY <1>00, <1>7, <2>0, <2>1, EndCallBooks DEF BillTick
  <2>2. CASE ~CannotBill(c)
    <3> DEFINE n == call[c].minutes + 1
    <3> DEFINE r == [call[c] EXCEPT !.minutes = n, !.due = HalvesPerMinute]
    <3>0. n \in Nat
      BY <1>0 DEF CallRecord
    <3>2. call' = [call EXCEPT ![c] = r] /\ Charge(c) /\ UNCHANGED history
      BY <1>0, <1>7, <2>2 DEF BillTick
    <3> HIDE DEF n
    <3>1. /\ r \in CallRecord /\ r.status = "connected"
          /\ r.minutes = n /\ r.rate = call[c].rate
      BY <1>0, <2>0, <3>0 DEF CallRecord, HalvesPerMinute
    <3> USE DEF n
    <3> HIDE DEF r
    <3> QED BY <2>0, <3>1, <3>2, ChargeBooks
  <2> QED BY <2>1, <2>2
<1>8. CASE GraceExpire(c)
  BY <1>00, <1>8, EndCallBooks DEF GraceExpire, Active
<1> QED BY <1>1, <1>2, <1>3, <1>4, <1>5, <1>6, <1>7, <1>8 DEF CallStep

LEMMA ConnectionBooks ==
    ASSUME BooksInv, HostingInv', NEW s \in Socket, Disconnect(s) \/ Identify(s)
    PROVE  BooksInv'
<1> DEFINE u == Owner[s]
<1>0. /\ u \in User /\ busy[u] \in CallId \cup {None}
      /\ call \in [CallId -> CallRecord] /\ UNCHANGED revenue
  BY HostingAssumption DEF BooksInv, HostingInv, TypeOK, Disconnect, Identify, wallet
<1>1. CASE Identify(s)
  <2>0. UNCHANGED history
    BY <1>1 DEF Identify
  <2>1. CASE busy[u] # None /\ call[busy[u]].grace = u
    <3>1. PICK c \in CallId : c = busy[u]
      BY <1>0, <2>1
    <3> DEFINE r == Reattached(call[c], u, s)
    <3>2. call' = [call EXCEPT ![c] = r]
      BY <1>1, <2>1, <3>1 DEF Identify, Resume
    <3>3. call[c] \in CallRecord
      BY <1>0
    <3>4. r.status = call[c].status /\ r.minutes = call[c].minutes /\ r.rate = call[c].rate
      BY <3>3 DEF Reattached, CallRecord
    <3> HIDE DEF r
    <3> QED BY <1>0, <2>0, <3>2, <3>4, SameBooks
  <2>2. CASE ~(busy[u] # None /\ call[busy[u]].grace = u)
    BY <1>0, <1>1, <2>0, <2>2, FrameBooks DEF Identify, Resume
  <2> QED BY <2>1, <2>2
<1>2. CASE Disconnect(s)
  <2>1. CASE busy[u] # None /\ Ringing(busy[u])
    <3>1. PICK c \in CallId : c = busy[u]
      BY <1>0, <2>1
    <3>2. Active(c) /\ Ringing(c) /\ Finish(c, "missed")
      BY <1>2, <2>1, <3>1 DEF Disconnect, DropParty, Active
    <3> QED BY <1>0, <3>2, EndBooks
  <2>2. CASE ~(busy[u] # None /\ Ringing(busy[u]))
    <3>1. UNCHANGED history
      BY <1>2, <2>2 DEF Disconnect, DropParty
    <3>2. CASE busy[u] # None /\ s = SocketOf(busy[u], u) /\ call[busy[u]].grace = None
      <4>1. PICK c \in CallId : c = busy[u]
        BY <1>0, <3>2
      <4> DEFINE r == Paused(call[c], u)
      <4>2. call' = [call EXCEPT ![c] = r]
        BY <1>2, <2>2, <3>2, <4>1 DEF Disconnect, DropParty
      <4>3. call[c] \in CallRecord
        BY <1>0
      <4>4. r.status = call[c].status /\ r.minutes = call[c].minutes /\ r.rate = call[c].rate
        BY <4>3 DEF Paused, CallRecord
      <4> HIDE DEF r
      <4> QED BY <1>0, <3>1, <4>2, <4>4, SameBooks
    <3>3. CASE ~(busy[u] # None /\ s = SocketOf(busy[u], u) /\ call[busy[u]].grace = None)
      <4>1. UNCHANGED call
        BY <1>2, <2>2, <3>3 DEF Disconnect, DropParty
      <4> QED BY <1>0, <3>1, <4>1, FrameBooks
    <3> QED BY <3>2, <3>3
  <2> QED BY <2>1, <2>2
<1> QED BY <1>1, <1>2

LEMMA UserBooks ==
    ASSUME BooksInv, HostingInv', NEW u \in User, UserStep(u)
    PROVE  BooksInv'
<1>1. CASE RevokeHost(u)
  <2>0. UNCHANGED revenue
    BY <1>1 DEF RevokeHost, wallet
  <2>1. CASE busy[u] = None
    BY <1>1, <2>0, <2>1, FrameBooks DEF RevokeHost
  <2>2. CASE busy[u] # None
    <3>1. PICK c \in CallId : c = busy[u]
      BY <2>2 DEF BooksInv, HostingInv, TypeOK
    <3>2. Active(c) /\ EndCall(c)
      BY <1>1, <2>2, <3>1 DEF RevokeHost, BooksInv, HostingInv, BusyConsistent
    <3> QED BY <2>0, <3>2, EndCallBooks
  <2> QED BY <2>1, <2>2
<1>2. CASE ~RevokeHost(u)
  <2>1. UNCHANGED <<call, history, revenue>>
    BY <1>2 DEF UserStep, ApproveHost, DeleteAccount, OtherWalletChange, wallet
  <2> QED BY <2>1, FrameBooks
<1> QED BY <1>1, <1>2

LEMMA HostingBooks ==
    /\ HostingInit => BooksInv
    /\ BooksInv /\ [HostingNext]_hostingVars => BooksInv'
<1>1. ASSUME HostingInit PROVE BooksInv
  <2>1. HostingInv
    BY <1>1, HostingInitInv
  <2>2. Made = {} /\ revenue = 0
    BY <1>1 DEF HostingInit, Made, Unused
  <2>3. \A c \in CallId : LogShape(c)
    BY <1>1 DEF HostingInit, LogShape, Entries, Unused
  <2> QED BY <2>1, <2>2, <2>3, FS_EmptySet, SumOfNone DEF BooksInv
<1>2. ASSUME BooksInv, [HostingNext]_hostingVars PROVE BooksInv'
  <2>0. HostingInv'
    BY <1>2, HostingStepInv DEF BooksInv
  <2>1. ASSUME NEW r \in RateConfigs, SetRates(r) PROVE BooksInv'
    BY <1>2, <2>0, <2>1, FrameBooks DEF SetRates, wallet
  <2>2. CASE NewDay
    BY <1>2, <2>0, <2>2, FrameBooks DEF NewDay
  <2>3. CASE UNCHANGED hostingVars
    BY <1>2, <2>0, <2>3, FrameBooks DEF hostingVars
  <2> QED BY <1>2, <2>0, <2>1, <2>2, <2>3, InviteBooks, CallStepBooks,
             ConnectionBooks, UserBooks DEF HostingNext
<1> QED BY <1>1, <1>2

-----------------------------------------------------------------------------
(* The theorems                                                            *)

\* The inductive invariant of the paid-call module.
THEOREM HostingInvariant == HostingSpec => []HostingInv
BY HostingInitInv, HostingStepInv, PTL DEF HostingSpec

\* The variables keep their shape whatever the order of events.
THEOREM HostingTypeCorrect == HostingSpec => []TypeOK
<1>1. HostingInv => TypeOK
  BY DEF HostingInv
<1> QED BY <1>1, HostingInvariant, PTL

\* userCallState and activeCalls agree, for any number of users and calls:
\* nobody is in two paid calls and nobody is left busy by one that is gone.
THEOREM BusyMapExact == HostingSpec => []BusyConsistent
<1>1. HostingInv => BusyConsistent
  BY DEF HostingInv
<1> QED BY <1>1, HostingInvariant, PTL

\* A connected call is either billed or in somebody's grace period.
THEOREM NeverBilledAndPaused == HostingSpec => []PausedOrBilled
<1>1. HostingInv => PausedOrBilled
  BY DEF HostingInv, CallShape, PausedOrBilled
<1> QED BY <1>1, HostingInvariant, PTL

\* No caller pays for a minute that has not begun.
THEOREM PrepaidByAtMostOneMinute == HostingSpec => []NeverOverbilled
<1>1. HostingInv => NeverOverbilled
  BY DEF HostingInv, CallShape, NeverOverbilled
<1> QED BY <1>1, HostingInvariant, PTL

\* Every call that is over is in the log once, with the minutes it was charged,
\* and the company's revenue is what all calls together were charged.
THEOREM BooksAlwaysBalance == HostingSpec => []LoggedOnceAsCharged
<1>1. BooksInv => LoggedOnceAsCharged
  <2> SUFFICES ASSUME BooksInv PROVE LoggedOnceAsCharged
    OBVIOUS
  <2>1. ASSUME NEW c \in CallId
        PROVE  LET entries == {e \in history : e.call = c} IN
               /\ entries # {} <=> call[c].status = "over"
               /\ \A e \in entries : /\ e.minutes = call[c].minutes
                                      /\ e.minutes > 0 => e.status = "completed"
               /\ Cardinality(entries) <= 1
    <3>1. LogShape(c)
      BY DEF BooksInv
    <3>2. CASE call[c].status # "over"
      <4>1. Entries(c) = {} /\ Cardinality({}) = 0
        BY <3>1, <3>2, FS_EmptySet DEF LogShape
      <4> QED BY <3>2, <4>1 DEF Entries
    <3>3. CASE call[c].status = "over"
      <4>1. PICK e \in LogEntry : /\ Entries(c) = {e}
                                  /\ e.minutes = call[c].minutes
                                  /\ e.minutes > 0 => e.status = "completed"
        BY <3>1, <3>3 DEF LogShape
      <4>2. Cardinality({e}) = 1
        BY FS_Singleton
      <4> QED BY <3>3, <4>1, <4>2 DEF Entries
    <3> QED BY <3>2, <3>3
  <2> QED BY <2>1 DEF BooksInv, LoggedOnceAsCharged, Made, Charged
<1> QED BY <1>1, HostingBooks, PTL DEF HostingSpec

-----------------------------------------------------------------------------
(***************************************************************************)
(* Random calls on top of it: no session is ever stranded between two      *)
(* handlers.                                                               *)
(*                                                                         *)
(* The invariant of NeverStranded has to say what holds while handlers are *)
(* at work: each session is either the one a hook is owed to, or one of    *)
(* the user whose disconnect handler is still to run, or placed.  A step   *)
(* of CallHosting changes at most one call, so the one session it can      *)
(* unsettle is the one FireOnEnded picks.                                  *)
(***************************************************************************)

\* Where a session that nobody has to move on stands.
Placed(n) ==
    /\ session[n].status = "searching" =>
         \E c \in CallId : /\ Ringing(c)
                           /\ hook[c] = n
                           /\ call[c].caller = session[n].caller
                           /\ call[c].host \in session[n].attempted
    /\ session[n].status = "connected" =>
         /\ session[n].current \in CallId
         /\ Connected(session[n].current)
         /\ hook[session[n].current] = n

\* Whose turn it is to move a session on.
Leaving(n) == leaveDue # None /\ session[n].caller = leaveDue
Settled(n) == n = hookDue \/ Leaving(n) \/ Placed(n)

SearchTyped ==
    /\ session \in [Session -> SessionRecord]
    /\ hook \in [CallId -> Session \cup {None}]
    /\ hookDue \in Session \cup {None}
    /\ leaveDue \in User \cup {None}

\* A session that looks for a host has a caller and names no call yet.
Searches(n) ==
    /\ Live(n) => session[n].caller \in User
    /\ session[n].status \in {"unused", "searching"} => session[n].current = None

\* The current connection of a user is one of his own.
OwnConnections == \A u \in User : primary[u] # None => Owner[primary[u]] = u

RandomInv ==
    /\ HostingInv
    /\ SearchTyped
    /\ OwnConnections
    /\ \A n \in Session : Searches(n) /\ Settled(n)

\* What a handler of CallHosting other than invite and accept does to a call.
Continues(c) ==
    Active(c) => \/ call'[c].status = "over"
                 \/ /\ call'[c].status = call[c].status
                    /\ call'[c].caller = call[c].caller
                    /\ call'[c].host = call[c].host

\* A step that changes call c at most.
Only(c) == \A d \in CallId : d # c => call'[d] = call[d]

-----------------------------------------------------------------------------

LEMMA SessionsAreNotNone == \A n \in Session : n # None
BY RandomCallAssumption

\* Nothing searches at first.
LEMMA RandomInitInv == RandomInit => RandomInv
<1> SUFFICES ASSUME RandomInit PROVE RandomInv
  OBVIOUS
<1>1. HostingInv
  BY HostingInitInv DEF RandomInit
<1>2. SearchTyped
  BY DEF RandomInit, SearchTyped, SessionRecord, NoSession
<1>3. OwnConnections
  BY DEF RandomInit, HostingInit, OwnConnections
<1>4. \A n \in Session : Searches(n) /\ Settled(n)
  BY DEF RandomInit, NoSession, Searches, Live, Settled, Placed
<1> QED BY <1>1, <1>2, <1>3, <1>4 DEF RandomInv

\* Ending a call changes that call alone.
LEMMA EndOnly ==
    ASSUME HostingInv, NEW c \in CallId, NEW outcome, Finish(c, outcome)
    PROVE  Only(c) /\ call'[c].status = "over"
BY DEF HostingInv, TypeOK, CallRecord, Finish, Cleared, Only

\* The timers of one call and the refusals of its parties.
LEMMA CallStepsContinue ==
    ASSUME HostingInv, NEW c \in CallId, OtherCallStep(c)
    PROVE  Only(c) /\ Continues(c)
<1>0. call \in [CallId -> CallRecord]
  BY DEF HostingInv, TypeOK
<1>1. CASE \E outcome : Finish(c, outcome)
  BY <1>1, EndOnly DEF Continues
<1>2. CASE Elapse(c)
  BY <1>0, <1>2 DEF Elapse, Only, Continues, CallRecord
<1>3. CASE BillTick(c) /\ ~CannotBill(c)
  BY <1>0, <1>3 DEF BillTick, Only, Continues, CallRecord
<1> QED BY <1>1, <1>2, <1>3
        DEF OtherCallStep, Reject, EndByParticipant, RingTimeout, BillTick,
            GraceExpire, EndCall

\* A disconnect changes the call its user is in, if any.
LEMMA DisconnectContinues ==
    ASSUME HostingInv, NEW s \in Socket, Disconnect(s)
    PROVE  \/ UNCHANGED call
           \/ \E c \in CallId : Only(c) /\ Continues(c)
<1> DEFINE u == Owner[s]
           c == busy[u]
<1>0. /\ call \in [CallId -> CallRecord] /\ u \in User
      /\ c \in CallId \cup {None}
  BY HostingAssumption DEF HostingInv, TypeOK
<1>1. CASE c = None
  BY <1>1 DEF Disconnect, DropParty
<1>2. CASE c # None /\ Ringing(c)
  <2>1. c \in CallId /\ Finish(c, "missed")
    BY <1>0, <1>2 DEF Disconnect, DropParty
  <2> QED BY <2>1, EndOnly DEF Continues
<1>3. CASE c # None /\ ~Ringing(c) /\ call' = [call EXCEPT ![c] = Paused(@, u)]
  <2> HIDE DEF c
  <2> QED BY <1>0, <1>3 DEF Paused, Only, Continues, CallRecord
<1>4. CASE UNCHANGED call
  BY <1>4
<1> QED BY <1>1, <1>2, <1>3, <1>4 DEF Disconnect, DropParty

\* Any other handler changes one call or none.
LEMMA OthersContinue ==
    ASSUME HostingInv, OtherHosting
    PROVE  \/ UNCHANGED call
           \/ \E c \in CallId : Only(c) /\ Continues(c)
<1>0. call \in [CallId -> CallRecord] /\ busy \in [User -> CallId \cup {None}]
  BY DEF HostingInv, TypeOK
<1>1. ASSUME NEW c \in CallId, NEW s \in Socket, NEW h \in User, Invite(c, s, h)
      PROVE  Only(c) /\ Continues(c)
  BY <1>0, <1>1 DEF Invite, Only, Continues, Active, Ringing, Connected
<1>2. ASSUME NEW s \in Socket, Identify(s), ~UNCHANGED call
      PROVE  \E c \in CallId : Only(c) /\ Continues(c)
  <2> DEFINE u == Owner[s]
             c == busy[u]
  <2>1. c # None /\ call' = [call EXCEPT ![c] = Reattached(@, u, s)]
    BY <1>2 DEF Identify, Resume
  <2>2. u \in User /\ c \in CallId
    BY <1>0, <2>1, HostingAssumption
  <2> HIDE DEF c, u
  <2> QED BY <1>0, <2>1, <2>2 DEF Reattached, Only, Continues, CallRecord
<1>3. ASSUME NEW u \in User, UserStep(u), ~UNCHANGED call
      PROVE  \E c \in CallId : Only(c) /\ Continues(c)
  <2>1. busy[u] # None /\ EndCall(busy[u])
    BY <1>3 DEF UserStep, ApproveHost, RevokeHost, DeleteAccount,
                OtherWalletChange
  <2>2. busy[u] \in CallId
    BY <1>0, <2>1
  <2> QED BY <2>1, <2>2, EndOnly DEF EndCall, Continues
<1>4. ASSUME NEW r \in RateConfigs, SetRates(r) PROVE UNCHANGED call
  BY <1>4 DEF SetRates
<1>5. NewDay => UNCHANGED call
  BY DEF NewDay
<1>6. DirectCall \subseteq CallId
  BY RandomCallAssumption
<1> QED BY <1>1, <1>2, <1>3, <1>4, <1>5, <1>6, CallStepsContinue DEF OtherHosting

-----------------------------------------------------------------------------
\* The hook that is due belongs to the session whose call ended.
LEMMA OwedIsChanged ==
    ASSUME SearchTyped, NEW c \in CallId, NEW n \in Session, Only(c), Live(n),
           hook[c] = n, Active(c), call'[c].status = "over", FireOnEnded
    PROVE  hookDue' = n
<1>1. n \in OwedSession
  BY DEF OwedSession
<1>2. ASSUME NEW m \in OwedSession PROVE m = n
  <2>1. PICK d \in CallId : hook[d] = m /\ Active(d) /\ call'[d].status = "over"
    BY <1>2 DEF OwedSession
  <2>2. d = c
    BY <2>1 DEF Only, Active, Ringing, Connected
  <2> QED BY <2>1, <2>2
<1>3. OwedSession = {n}
  BY <1>1, <1>2
<1> QED BY <1>3 DEF FireOnEnded

LEMMA FiredTyped == ASSUME FireOnEnded PROVE hookDue' \in Session \cup {None}
<1>1. CASE OwedSession = {}
  BY <1>1 DEF FireOnEnded
<1>2. CASE OwedSession # {}
  <2>1. (CHOOSE n \in OwedSession : TRUE) \in OwedSession
    BY <1>2
  <2> QED BY <1>2, <2>1 DEF FireOnEnded, OwedSession
<1> QED BY <1>1, <1>2

\* A step of CallHosting keeps every session that was placed in its place, or
\* leaves it to its hook.
LEMMA PlacedOrOwed ==
    ASSUME SearchTyped, NEW n \in Session, Placed(n), FireOnEnded,
           UNCHANGED <<session, hook>>,
           \/ UNCHANGED call
           \/ \E c \in CallId : Only(c) /\ Continues(c)
    PROVE  Placed(n)' \/ hookDue' = n
<1>0. CASE UNCHANGED call
  BY <1>0 DEF Placed, Ringing, Connected
<1>1. ASSUME NEW c \in CallId, Only(c), Continues(c)
      PROVE  Placed(n)' \/ hookDue' = n
  <2>1. CASE session[n].status = "searching"
    <3>1. PICK d \in CallId : /\ Ringing(d) /\ hook[d] = n
                              /\ call[d].caller = session[n].caller
                              /\ call[d].host \in session[n].attempted
      BY <2>1 DEF Placed
    <3>2. CASE call'[d].status = "over"
      <4>1. d = c
        BY <1>1, <3>1, <3>2 DEF Only, Ringing
      <4> QED BY <1>1, <2>1, <3>1, <3>2, <4>1, OwedIsChanged DEF Live, Active
    <3>3. CASE call'[d].status # "over"
      <4>1. /\ call'[d].status = call[d].status
            /\ call'[d].caller = call[d].caller /\ call'[d].host = call[d].host
        BY <1>1, <3>1, <3>3 DEF Only, Continues, Active
      <4> QED BY <2>1, <3>1, <4>1 DEF Placed, Ringing
    <3> QED BY <3>2, <3>3
  <2>2. CASE session[n].status = "connected"
    <3> DEFINE d == session[n].current
    <3>1. d \in CallId /\ Connected(d) /\ hook[d] = n
      BY <2>2 DEF Placed
    <3>2. CASE call'[d].status = "over"
      <4>1. d = c
        BY <1>1, <3>1, <3>2 DEF Only, Connected
      <4> QED BY <1>1, <2>2, <3>1, <3>2, <4>1, OwedIsChanged DEF Live, Active
    <3>3. CASE call'[d].status # "over"
      <4>1. call'[d].status = call[d].status
        BY <1>1, <3>1, <3>3 DEF Only, Continues, Active
      <4> QED BY <2>2, <3>1, <4>1 DEF Placed, Connected
    <3> QED BY <3>2, <3>3
  <2> QED BY <2>1, <2>2 DEF Placed
<1> QED BY <1>0, <1>1

-----------------------------------------------------------------------------
\* Every step of a random call is a step of CallHosting or none.
LEMMA HostingKept ==
    ASSUME RandomInv, [RandomNext]_randomVars PROVE HostingInv'
<1>0. DirectCall \subseteq CallId
  BY RandomCallAssumption
<1>1. CASE UNCHANGED hostingVars
  BY <1>1, HostingStepInv DEF RandomInv
<1>2. ASSUME NEW n \in Session, RingNext(n) PROVE HostingInv'
  <2>1. session[n].caller \in User /\ primary[session[n].caller] \in Socket
    BY <1>2 DEF RandomInv, RingNext, Searches, Live, MayTryNext, Reachable,
                HostingInv, TypeOK
  <2>2. PICK h \in Eligible(n), c \in CallId :
            Invite(c, primary[session[n].caller], h)
    BY <1>2 DEF RingNext
  <2>3. h \in User
    BY <2>2 DEF Eligible, RandomInv, HostingInv, TypeOK
  <2>4. HostingNext
    BY <2>1, <2>2, <2>3 DEF HostingNext
  <2> QED BY <2>4, HostingStepInv DEF RandomInv
<1>3. ASSUME NEW c \in CallId, AcceptPaid(c) \/ AcceptUnpaid(c) PROVE HostingInv'
  BY <1>3, HostingStepInv DEF RandomInv, HostingNext, CallStep
<1>4. ASSUME NEW s \in Socket, Disconnect(s) PROVE HostingInv'
  BY <1>4, HostingStepInv DEF RandomInv, HostingNext
<1>5. CASE OtherHosting
  <2>1. HostingNext
    BY <1>0, <1>5 DEF OtherHosting, OtherCallStep, HostingNext, CallStep
  <2> QED BY <2>1, HostingStepInv DEF RandomInv
<1>6. ASSUME NEW n \in Session, Cancel(n), ~UNCHANGED hostingVars
      PROVE  HostingInv'
  <2> DEFINE c == session[n].current
  <2>1. c \in CallId /\ Active(c) /\ EndCall(c)
    BY <1>6 DEF Cancel, RandomInv, SearchTyped, SessionRecord
  <2>2. EnvTyped'
    BY <1>6, <2>1 DEF Cancel, EnvTyped, RandomInv, HostingInv, TypeOK, admin, wallet
  <2> HIDE DEF c
  <2> QED BY <2>1, <2>2, FinishInv DEF EndCall, RandomInv
<1>7. CASE RunHook
  BY <1>1, <1>2, <1>7, SessionsAreNotNone DEF RunHook, GiveUp, RandomInv, SearchTyped
<1>8. CASE RunLeave \/ \E n \in Session, s \in Socket : Start(n, s)
  BY <1>1, <1>8 DEF RunLeave, Start
<1> QED BY <1>1, <1>3, <1>4, <1>5, <1>6, <1>7, <1>8
        DEF RandomNext, randomVars, Accept, Drop, Hosting

\* Connections identify themselves as their owner's.
LEMMA ConnectionsKept ==
    ASSUME RandomInv, [RandomNext]_randomVars PROVE OwnConnections'
<1>1. CASE UNCHANGED primary
  BY <1>1 DEF RandomInv, OwnConnections
<1>2. ASSUME NEW s \in Socket, Identify(s) PROVE OwnConnections'
  BY <1>2, HostingAssumption
  DEF Identify, RandomInv, OwnConnections, HostingInv, TypeOK
<1>3. UNCHANGED primary \/ \E s \in Socket : Identify(s)
  <2>1. ASSUME NEW n, RingNext(n) \/ GiveUp(n) PROVE UNCHANGED primary
    BY <2>1 DEF RingNext, GiveUp, Invite, hostingVars
  <2>2. ASSUME NEW c, OtherCallStep(c) PROVE UNCHANGED primary
    BY <2>2 DEF OtherCallStep, Reject, EndByParticipant, RingTimeout, Elapse,
                BillTick, GraceExpire
  <2>3. ASSUME NEW u, UserStep(u) PROVE UNCHANGED primary
    BY <2>3 DEF UserStep, ApproveHost, RevokeHost, DeleteAccount,
                OtherWalletChange
  <2>4. OtherHosting => UNCHANGED primary \/ \E s \in Socket : Identify(s)
    BY <2>2, <2>3 DEF OtherHosting, Invite, SetRates, NewDay
  <2>5. ASSUME NEW n, Cancel(n) PROVE UNCHANGED primary
    BY <2>5 DEF Cancel, hostingVars
  <2>6. ASSUME NEW c, Accept(c) PROVE UNCHANGED primary
    BY <2>6 DEF Accept, AcceptPaid, AcceptUnpaid
  <2> QED BY <2>1, <2>4, <2>5, <2>6
          DEF RandomNext, randomVars, hostingVars, RunHook, RunLeave, Start,
              Drop, Disconnect, Hosting
<1> QED BY <1>1, <1>2, <1>3

-----------------------------------------------------------------------------
\* What is left of the invariant: the sessions, and where each stands.
SearchInv ==
    /\ SearchTyped
    /\ \A n \in Session : Searches(n) /\ Settled(n)

\* Between handlers every session is placed.
LEMMA IdleIsPlaced ==
    ASSUME RandomInv, Idle, NEW n \in Session PROVE Placed(n)
BY SessionsAreNotNone DEF RandomInv, Settled, Idle, Leaving

\* Handlers of CallHosting that only fire a hook, and the disconnect handler.
LEMMA FiredKeeps ==
    ASSUME RandomInv, Idle, FireOnEnded, UNCHANGED <<session, hook>>,
           leaveDue' \in User \cup {None},
           \/ UNCHANGED call
           \/ \E c \in CallId : Only(c) /\ Continues(c)
    PROVE  SearchInv'
<1>1. SearchTyped'
  BY FiredTyped DEF RandomInv, SearchTyped
<1>2. ASSUME NEW n \in Session PROVE Searches(n)' /\ Settled(n)'
  <2>1. Placed(n)' \/ hookDue' = n
    BY IdleIsPlaced, PlacedOrOwed DEF RandomInv
  <2> QED BY <2>1 DEF RandomInv, Searches, Live, Settled
<1> QED BY <1>1, <1>2 DEF SearchInv

\* Accepting a call connects the session that made it, or ends call and
\* session when the first minute can not be paid.
LEMMA AcceptKeeps ==
    ASSUME RandomInv, NEW c \in CallId, Accept(c)
    PROVE  SearchInv'
<1>0. /\ SearchTyped /\ call \in [CallId -> CallRecord]
      /\ leaveDue = None /\ leaveDue' = None /\ hook' = hook
      /\ Ringing(c) /\ Active(c)
  BY DEF RandomInv, HostingInv, TypeOK, Accept, Idle, AcceptPaid, AcceptUnpaid,
         Active
<1>1. Only(c) /\ call'[c].status \in {"connected", "over"}
  <2>1. CASE AcceptPaid(c)
    BY <1>0, <2>1 DEF AcceptPaid, Only, CallRecord
  <2>2. CASE AcceptUnpaid(c)
    <3>1. \A d \in CallId : d # c => call'[d] = call[d]
      BY <1>0, <2>2 DEF AcceptUnpaid
    <3>2. call'[c] = [Cleared(call[c]) EXCEPT !.billTimer = TRUE]
      BY <1>0, <2>2 DEF AcceptUnpaid
    <3>3. call'[c].status = "over"
      BY <1>0, <3>2 DEF Cleared, CallRecord
    <3> QED BY <3>1, <3>3 DEF Only
  <2> QED BY <2>1, <2>2 DEF Accept
<1>2. \A n \in Session : session'[n] =
         IF hook[c] = n /\ Live(n)
         THEN [session[n] EXCEPT !.status = "connected", !.current = c]
         ELSE session[n]
  BY DEF Accept
<1>3. SearchTyped'
  <2>1. ASSUME NEW n \in Session PROVE session'[n] \in SessionRecord
    BY <1>0, <1>2 DEF SearchTyped, SessionRecord
  <2>2. session' \in [Session -> SessionRecord]
    BY <2>1 DEF Accept
  <2> QED BY <1>0, <2>2, FiredTyped DEF Accept, SearchTyped
<1>4. ASSUME NEW n \in Session, hook[c] = n, Live(n)
      PROVE  Searches(n)' /\ Settled(n)'
  <2>1. /\ session'[n].status = "connected" /\ session'[n].current = c
        /\ session'[n].caller = session[n].caller
    BY <1>0, <1>2, <1>4 DEF SearchTyped, SessionRecord
  <2>2. Searches(n)'
    BY <1>4, <2>1 DEF RandomInv, Searches, Live
  <2>3. CASE call'[c].status = "over"
    BY <1>0, <1>1, <1>4, <2>2, <2>3, OwedIsChanged DEF Accept, Settled
  <2>4. CASE call'[c].status = "connected"
    BY <1>0, <1>4, <2>1, <2>2, <2>4 DEF Settled, Placed, Connected
  <2> QED BY <1>1, <2>3, <2>4
<1>5. ASSUME NEW n \in Session, hook[c] # n \/ ~Live(n)
      PROVE  Searches(n)' /\ Settled(n)'
  <2>1. session'[n] = session[n]
    BY <1>2, <1>5
  <2>2. Placed(n)
    BY IdleIsPlaced DEF Accept
  <2>3. Placed(n)'
    <3>1. CASE session[n].status = "searching"
      <4>1. PICK d \in CallId : /\ Ringing(d) /\ hook[d] = n
                                /\ call[d].caller = session[n].caller
                                /\ call[d].host \in session[n].attempted
        BY <2>2, <3>1 DEF Placed
      <4>2. call'[d] = call[d]
        BY <1>1, <1>5, <3>1, <4>1 DEF Only, Live
      <4> QED BY <1>0, <2>1, <3>1, <4>1, <4>2 DEF Placed, Ringing
    <3>2. CASE session[n].status = "connected"
      <4>1. /\ session[n].current \in CallId /\ Connected(session[n].current)
            /\ hook[session[n].current] = n
        BY <2>2, <3>2 DEF Placed
      <4>2. call'[session[n].current] = call[session[n].current]
        BY <1>0, <1>1, <4>1 DEF Only, Ringing, Connected
      <4> QED BY <1>0, <2>1, <3>2, <4>1, <4>2 DEF Placed, Connected
    <3> QED BY <2>1, <3>1, <3>2 DEF Placed
  <2> QED BY <2>1, <2>3 DEF RandomInv, Searches, Live, Settled
<1> QED BY <1>3, <1>4, <1>5 DEF SearchInv

\* A session that is over, all others and their calls being untouched.
LEMMA OverKeeps ==
    ASSUME RandomInv, NEW n \in Session, session' = Over(n),
           UNCHANGED <<hook, leaveDue>>,
           hookDue' \in Session \cup {None}, hookDue \in {n, hookDue'},
           \A c \in CallId : hook[c] # n => call'[c] = call[c]
    PROVE  SearchInv'
<1>0. SearchTyped
  BY DEF RandomInv
<1>1. SearchTyped'
  BY <1>0 DEF SearchTyped, SessionRecord, Over
<1>2. session'[n].status = "over" /\ session'[n].caller = session[n].caller
  BY <1>0 DEF SearchTyped, SessionRecord, Over
<1>3. ASSUME NEW m \in Session, m # n PROVE Searches(m)' /\ Settled(m)'
  <2>1. session'[m] = session[m]
    BY <1>0, <1>3 DEF Over, SearchTyped
  <2>2. Settled(m) /\ Searches(m)
    BY DEF RandomInv
  <2>3. Placed(m) => Placed(m)'
    BY <1>3, <2>1 DEF Placed, Ringing, Connected
  <2> QED BY <1>3, <2>1, <2>2, <2>3 DEF Settled, Searches, Live, Leaving
<1>4. Searches(n)' /\ Settled(n)'
  BY <1>2 DEF Searches, Live, Settled, Placed
<1> QED BY <1>1, <1>3, <1>4 DEF SearchInv

\* A cancel ends the call of its own session, if it knows one.
LEMMA CancelKeeps ==
    ASSUME RandomInv, NEW n \in Session, Cancel(n)
    PROVE  SearchInv'
<1>0. /\ UNCHANGED <<hook, leaveDue, hookDue>> /\ session' = Over(n)
      /\ hookDue' \in Session \cup {None}
  BY DEF Cancel, RandomInv, SearchTyped
<1>1. \A c \in CallId : hook[c] # n => call'[c] = call[c]
  <2>1. CASE UNCHANGED hostingVars
    BY <2>1 DEF hostingVars
  <2>2. CASE ~UNCHANGED hostingVars
    <3> DEFINE c == session[n].current
    <3>1. c # None /\ EndCall(c)
      BY <2>2 DEF Cancel
    <3>2. session[n].status = "connected" /\ c \in CallId
      BY <3>1 DEF Cancel, Live, RandomInv, Searches, SearchTyped, SessionRecord
    <3>3. hook[c] = n
      BY <3>2, IdleIsPlaced DEF Cancel, Placed
    <3>4. Only(c)
      BY <3>1, <3>2, EndOnly DEF EndCall, RandomInv
    <3> QED BY <3>3, <3>4 DEF Only
  <2> QED BY <2>1, <2>2
<1> QED BY <1>0, <1>1, OverKeeps

\* A new session is owed its first ring at once.
LEMMA StartKeeps ==
    ASSUME RandomInv, NEW n \in Session, NEW s \in Socket, Start(n, s)
    PROVE  SearchInv'
<1>0. SearchTyped /\ Owner[s] \in User
  BY HostingAssumption DEF RandomInv
<1>1. /\ session'[n].status = "searching" /\ session'[n].caller = Owner[s]
      /\ session'[n].current = session[n].current
      /\ \A m \in Session : m # n => session'[m] = session[m]
      /\ SearchTyped'
  BY <1>0 DEF Start, SearchTyped, SessionRecord
<1>2. Searches(n)' /\ Settled(n)'
  BY <1>0, <1>1 DEF Start, RandomInv, Searches, Settled
<1>3. ASSUME NEW m \in Session, m # n PROVE Searches(m)' /\ Settled(m)'
  <2>1. Placed(m)'
    <3>1. Placed(m) /\ call' = call /\ hook' = hook /\ session'[m] = session[m]
      BY <1>1, <1>3, IdleIsPlaced DEF Start, hostingVars
    <3> QED BY <3>1 DEF Placed, Ringing, Connected
  <2> QED BY <1>1, <1>3, <2>1 DEF RandomInv, Searches, Live, Settled
<1> QED BY <1>1, <1>2, <1>3 DEF SearchInv

\* The hook rings the next host or ends the session.
LEMMA HookKeeps ==
    ASSUME RandomInv, RunHook PROVE SearchInv'
<1> PICK n \in Session : n = hookDue
  BY DEF RunHook, RandomInv, SearchTyped
<1>0. n \in Session /\ SearchTyped /\ hookDue' = None /\ UNCHANGED leaveDue
  BY DEF RunHook, RandomInv, SearchTyped
<1>1. CASE GiveUp(n)
  BY <1>0, <1>1, OverKeeps DEF GiveUp, hostingVars
<1>2. CASE RingNext(n)
  <2> DEFINE u == session[n].caller
  <2>1. PICK h \in Eligible(n), c \in CallId \ DirectCall :
            /\ Invite(c, primary[u], h)
            /\ session' = [session EXCEPT ![n].attempted = @ \cup {h}]
            /\ hook' = [hook EXCEPT ![c] = n]
    BY <1>2 DEF RingNext
  <2>2. /\ u \in User /\ h \in User /\ session[n].status = "searching"
        /\ Owner[primary[u]] = u
    <3>1. u \in User /\ session[n].status = "searching"
      BY <1>0, <1>2 DEF RingNext, RandomInv, Searches, Live
    <3>2. primary[u] \in Socket
      BY <1>2 DEF RingNext, MayTryNext, Reachable, RandomInv, HostingInv, TypeOK
    <3>3. Owner[primary[u]] = u
      BY <3>1, <3>2, HostingAssumption DEF RandomInv, OwnConnections
    <3> QED BY <2>1, <3>1, <3>3 DEF Eligible, RandomInv, HostingInv, TypeOK
  <2>3. /\ call'[c].status = "ringing" /\ call'[c].caller = u /\ call'[c].host = h
        /\ Only(c) /\ call[c].status = "unused"
    BY <2>1, <2>2 DEF Invite, Unused, Only, RandomInv, HostingInv, TypeOK
  <2>4. /\ SearchTyped'
        /\ session'[n].status = "searching" /\ session'[n].caller = u
        /\ session'[n].current = session[n].current
        /\ h \in session'[n].attempted
        /\ \A m \in Session : m # n => session'[m] = session[m]
    BY <1>0, <2>1, <2>2 DEF SearchTyped, SessionRecord
  <2>5. hook'[c] = n /\ \A d \in CallId : d # c => hook'[d] = hook[d]
    BY <1>0, <2>1 DEF SearchTyped
  <2>6. Searches(n)' /\ Placed(n)'
    <3>1. c \in CallId /\ Ringing(c)'
      BY <2>1, <2>3 DEF Ringing
    <3>2. Placed(n)'
      BY <2>3, <2>4, <2>5, <3>1 DEF Placed
    <3>3. session[n].current = None
      BY <1>0, <2>2 DEF RandomInv, Searches
    <3> QED BY <2>2, <2>4, <3>2, <3>3 DEF Searches, Live
  <2>7. ASSUME NEW m \in Session, m # n PROVE Searches(m)' /\ Settled(m)'
    <3>1. Searches(m) /\ Settled(m) /\ session'[m] = session[m]
      BY <2>4, <2>7 DEF RandomInv
    <3>2. Placed(m) => Placed(m)'
      BY <2>1, <2>3, <2>5, <3>1 DEF Placed, Ringing, Connected, Only
    <3> QED BY <1>0, <2>7, <3>1, <3>2 DEF Searches, Live, Settled, Leaving
  <2>8. Settled(n)'
    BY <2>6 DEF Settled
  <2> QED BY <1>0, <2>4, <2>6, <2>7, <2>8 DEF SearchInv
<1> QED BY <1>1, <1>2 DEF RunHook

\* The disconnect handler ends the sessions of its user.
LEMMA LeaveKeeps ==
    ASSUME RandomInv, RunLeave PROVE SearchInv'
<1>0. SearchTyped /\ hookDue = None /\ hookDue' = None /\ leaveDue' = None
  BY DEF RandomInv, RunLeave
<1>1. ASSUME NEW n \in Session
      PROVE  /\ Live(n) /\ session[n].caller = leaveDue =>
                  session'[n] = [session[n] EXCEPT !.status = "over"]
             /\ ~(Live(n) /\ session[n].caller = leaveDue) =>
                  session'[n] = session[n]
  BY <1>0 DEF RunLeave, Over, SearchTyped
<1>2. SearchTyped'
  <2>1. ASSUME NEW n \in Session PROVE session'[n] \in SessionRecord
    BY <1>0, <1>1 DEF SearchTyped, SessionRecord
  <2> QED BY <1>0, <2>1 DEF RunLeave, SearchTyped
<1>3. ASSUME NEW n \in Session PROVE Searches(n)' /\ Settled(n)'
  <2>1. Searches(n) /\ Settled(n)
    BY DEF RandomInv
  <2>2. CASE Live(n) /\ session[n].caller = leaveDue
    <3>1. session'[n].status = "over" /\ session'[n].caller = session[n].caller
      BY <1>0, <1>1, <2>2 DEF SearchTyped, SessionRecord
    <3> QED BY <2>1, <2>2, <3>1 DEF Searches, Live, Settled, Placed
  <2>3. CASE ~(Live(n) /\ session[n].caller = leaveDue)
    <3>1. session'[n] = session[n]
      BY <1>1, <2>3
    <3>2. Placed(n)
      BY <1>0, <2>1, <2>3, SessionsAreNotNone
      DEF Settled, Leaving, Placed, Live
    <3>3. Placed(n)'
      BY <3>1, <3>2 DEF RunLeave, Placed, Ringing, Connected, hostingVars
    <3> QED BY <2>1, <3>1, <3>3 DEF Searches, Live, Settled
  <2> QED BY <2>2, <2>3
<1> QED BY <1>2, <1>3 DEF SearchInv

\* Every step keeps the invariant.
LEMMA RandomStepInv ==
    RandomInv /\ [RandomNext]_randomVars => RandomInv'
<1> SUFFICES ASSUME RandomInv, [RandomNext]_randomVars PROVE RandomInv'
  OBVIOUS
<1>1. SearchInv'
  <2>1. CASE UNCHANGED randomVars
    BY <2>1 DEF randomVars, sessionVars, hostingVars, RandomInv, SearchInv,
       SearchTyped, Searches, Live, Settled, Leaving, Placed, Ringing, Connected
  <2>2. CASE Hosting
    <3>1. leaveDue' \in User \cup {None}
      BY <2>2 DEF Hosting, RandomInv, SearchTyped
    <3> QED BY <2>2, <3>1, OthersContinue, FiredKeeps DEF Hosting, RandomInv
  <2>3. ASSUME NEW s \in Socket, Drop(s) PROVE SearchInv'
    <3>1. leaveDue' \in User \cup {None}
      BY <2>3, HostingAssumption DEF Drop
    <3> QED BY <2>3, <3>1, DisconnectContinues, FiredKeeps DEF Drop, RandomInv
  <2> QED BY <2>1, <2>2, <2>3, AcceptKeeps, CancelKeeps, StartKeeps, HookKeeps,
             LeaveKeeps DEF RandomNext
<1> QED BY <1>1, HostingKept, ConnectionsKept DEF RandomInv, SearchInv

-----------------------------------------------------------------------------
\* The inductive invariant of random calls: the one of CallHosting, and for
\* each session the call that holds it or the handler that owes it a move.
THEOREM RandomInvariant == RandomSpec => []RandomInv
BY RandomInitInv, RandomStepInv, PTL DEF RandomSpec

\* Between handlers no session is stranded, for any number of sessions, hosts
\* and direct calls (tryNextHost, onAccepted, onEnded, handleDisconnect).
THEOREM NeverAnyStranded == RandomSpec => []NeverStranded
<1>1. RandomInv => NeverStranded
  BY IdleIsPlaced DEF NeverStranded, Placed
<1> QED BY <1>1, RandomInvariant, PTL
=============================================================================
