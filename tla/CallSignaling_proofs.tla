------------------------ MODULE CallSignaling_proofs ------------------------
(***************************************************************************)
(* Machine-checked safety of CallSignaling, for any number of users,       *)
(* connections and calls.                                                  *)
(***************************************************************************)
EXTENDS CallSignaling, TLAPS

\* What the handlers rely on about one call: its record r, the devices al
\* that still show it, its log lg, and the connections up that are open.
\* While it rings it rings exactly on open devices of the callee and nothing
\* was relayed; once answered it rings nowhere, and who is waited for has
\* lost the recorded socket.
Shape(r, al, lg, up) ==
    /\ r.status = "unused" => lg = <<>>
    /\ r.status \in {"ringing", "connecting", "connected"} =>
         /\ r.caller \in User /\ r.callee \in User /\ r.caller # r.callee
         /\ r.callerSocket \in Socket /\ Owner[r.callerSocket] = r.caller
         /\ lg = <<>>
         /\ r.answered <=> r.status = "connected"
         /\ ~r.dropped
    /\ r.status = "ringing" =>
         /\ r.callerSocket \in up
         /\ r.calleeSocket = None /\ r.grace = None
         /\ ~r.heard /\ ~r.offered
         /\ r.ringing # {} /\ al = r.ringing
         /\ \A s \in r.ringing : s \in up /\ Owner[s] = r.callee
    /\ r.status \in {"connecting", "connected"} =>
         /\ r.calleeSocket \in Socket /\ Owner[r.calleeSocket] = r.callee
         /\ al = {} /\ r.pendingIce = 0
         /\ r.grace # None => r.grace \in {r.caller, r.callee}
         /\ r.grace = r.caller => r.callerSocket \notin up
         /\ r.grace = r.callee => r.calleeSocket \notin up
    /\ r.status = "over" => /\ Len(lg) = IF r.dropped THEN 0 ELSE 1
                            /\ r.answered => lg = <<"completed">>

EnvTyped ==
    /\ live \subseteq Socket
    /\ primary \in [User -> Socket \cup {None}]
    /\ callable \subseteq User
    /\ alerted \in [CallId -> SUBSET Socket]
    /\ logged \in [CallId -> Seq(Outcome)]

Typed ==
    /\ EnvTyped
    /\ call \in [CallId -> CallRecord]
    /\ busy \in [User -> CallId \cup {None}]

\* userCallState names a call exactly for its two parties while it is active.
BusyIsExact ==
    \A u \in User, c \in CallId : busy[u] = c <=> Active(c) /\ u \in Party(c)

SignalingInv ==
    /\ Typed
    /\ BusyIsExact
    /\ \A c \in CallId : Shape(call[c], alerted[c], logged[c], live)

-----------------------------------------------------------------------------
\* Null is no user, connection or call.
LEMMA NoneIsFresh ==
    /\ \A u \in User : u # None
    /\ \A s \in Socket : s # None
    /\ \A c \in CallId : c # None
    /\ \A s \in Socket : Owner[s] \in User
BY SignalingAssumption

LEMMA EmptyBuffer == 0 \in 0..IceCap
BY SignalingAssumption

\* Nothing rings and nobody is busy at first.
LEMMA SignalingInitInv == SignalingInit => SignalingInv
<1> SUFFICES ASSUME SignalingInit PROVE SignalingInv
  OBVIOUS
<1>1. Unused \in CallRecord /\ Unused.status = "unused"
  BY SignalingAssumption DEF Unused, CallRecord
<1>2. Typed
  BY <1>1 DEF SignalingInit, Typed, EnvTyped, Outcome
<1>3. BusyIsExact
  BY <1>1, NoneIsFresh
  DEF SignalingInit, BusyIsExact, Active, Ringing, Established
<1>4. \A c \in CallId : Shape(call[c], alerted[c], logged[c], live)
  BY <1>1 DEF SignalingInit, Shape
<1> QED BY <1>2, <1>3, <1>4 DEF SignalingInv

\* The calls a step leaves alone keep their shape if it closes no connection
\* they use.
Untouched(c) ==
    \A d \in CallId \ {c} :
        /\ alerted'[d] = alerted[d]
        /\ logged'[d] = logged[d]
        /\ Shape(call[d], alerted[d], logged[d], live')

\* A step that rewrites one active record and keeps its parties.
LEMMA UpdateInv ==
    ASSUME SignalingInv, NEW c \in CallId, NEW r \in CallRecord, Active(c),
           call' = [call EXCEPT ![c] = r],
           r.caller = call[c].caller, r.callee = call[c].callee,
           r.status \in {"ringing", "connecting", "connected"},
           Shape(r, alerted'[c], logged'[c], live'),
           Untouched(c), busy' = busy, EnvTyped'
    PROVE  SignalingInv'
<1> USE DEF SignalingInv
<1>1. Typed'
  BY DEF Typed
<1>2. \A d \in CallId \ {c} : call'[d] = call[d]
  BY DEF Typed
<1>3. call'[c] = r
  BY DEF Typed
<1>4. BusyIsExact'
  <2> SUFFICES ASSUME NEW u \in User, NEW d \in CallId
               PROVE  (busy[u] = d <=> Active(d) /\ u \in Party(d))'
    BY DEF BusyIsExact
  <2>1. (Active(d) /\ u \in Party(d))' <=> Active(d) /\ u \in Party(d)
    BY <1>2, <1>3 DEF Active, Ringing, Established, Party
  <2> QED BY <2>1 DEF BusyIsExact
<1>5. \A d \in CallId : Shape(call'[d], alerted'[d], logged'[d], live')
  BY <1>2, <1>3 DEF Untouched
<1> QED BY <1>1, <1>4, <1>5

\* A step that ends one call and frees both its parties.
LEMMA OverInv ==
    ASSUME SignalingInv, NEW c \in CallId, NEW r \in CallRecord, Active(c),
           call' = [call EXCEPT ![c] = r], r.status = "over", Release(c),
           Shape(r, alerted'[c], logged'[c], live'),
           Untouched(c), EnvTyped'
    PROVE  SignalingInv'
<1> USE DEF SignalingInv
<1>1. call' = [call EXCEPT ![c] = r]
  OBVIOUS
<1>2. r \in CallRecord /\ r.status = "over"
  OBVIOUS
<1>3. \A d \in CallId \ {c} : call'[d] = call[d]
  BY <1>1 DEF Typed
<1>4. call'[c] = r
  BY <1>1 DEF Typed
<1>5. Typed'
  <2>1. busy' \in [User -> CallId \cup {None}]
    BY DEF Release, Typed
  <2> QED BY <1>1, <1>2, <2>1 DEF Typed
<1>6. BusyIsExact'
  <2> SUFFICES ASSUME NEW u \in User, NEW d \in CallId
               PROVE  (busy[u] = d <=> Active(d) /\ u \in Party(d))'
    BY DEF BusyIsExact
  <2>1. CASE d = c
    <3>1. ~Active(d)'
      BY <1>2, <1>4, <2>1 DEF Active, Ringing, Established
    <3>2. busy'[u] # d
      BY <2>1, NoneIsFresh DEF Release, BusyIsExact, Typed
    <3> QED BY <3>1, <3>2
  <2>2. CASE d # c
    <3>1. (Active(d) /\ u \in Party(d))' <=> Active(d) /\ u \in Party(d)
      BY <1>3, <2>2 DEF Active, Ringing, Established, Party
    <3>2. busy'[u] = d <=> busy[u] = d
      BY <2>2, NoneIsFresh DEF Release, BusyIsExact, Typed
    <3> QED BY <3>1, <3>2 DEF BusyIsExact
  <2> QED BY <2>1, <2>2
<1>7. \A d \in CallId : Shape(call'[d], alerted'[d], logged'[d], live')
  BY <1>3, <1>4 DEF Untouched
<1> QED BY <1>5, <1>6, <1>7

\* clearCall after one entry in the history.
LEMMA ClearInv ==
    ASSUME SignalingInv, NEW c \in CallId, Active(c), Clear(c),
           Len(logged'[c]) = 1,
           call[c].answered => logged'[c] = <<"completed">>,
           Untouched(c), EnvTyped'
    PROVE  SignalingInv'
<1> DEFINE r == Cleared(call[c])
<1>1. call' = [call EXCEPT ![c] = r] /\ Release(c)
  BY DEF Clear
<1>2. call[c] \in CallRecord /\ ~call[c].dropped
  BY DEF SignalingInv, Typed, Shape, Active, Ringing, Established
<1>3. r \in CallRecord /\ r.status = "over" /\ r.answered = call[c].answered
      /\ ~r.dropped
  BY <1>2, EmptyBuffer DEF Cleared, CallRecord
<1> HIDE DEF r
<1>4. Shape(r, alerted'[c], logged'[c], live')
  BY <1>3 DEF Shape
<1> QED BY <1>1, <1>3, <1>4, OverInv

\* A step that leaves calls, logs and the busy map alone.
LEMMA FrameInv ==
    ASSUME SignalingInv, UNCHANGED <<call, busy, alerted, logged>>, EnvTyped',
           \A d \in CallId : Shape(call[d], alerted[d], logged[d], live')
    PROVE  SignalingInv'
<1>1. Typed'
  BY DEF SignalingInv, Typed
<1>2. BusyIsExact'
  BY DEF SignalingInv, BusyIsExact, Active, Ringing, Established, Party
<1> QED BY <1>1, <1>2 DEF SignalingInv

\* An ending that closes no connection: it is logged once, as completed if
\* the call had been answered, and its devices are told.
LEMMA EndingInv ==
    ASSUME SignalingInv, NEW c \in CallId, Active(c), Clear(c),
           NEW o \in Outcome, Log(c, o), call[c].answered => o = "completed",
           NEW told, alerted' = [alerted EXCEPT ![c] = @ \ told],
           UNCHANGED connections
    PROVE  SignalingInv'
<1> USE DEF SignalingInv
<1>1. logged[c] = <<>>
  BY DEF Active, Ringing, Established, Shape
<1>2. logged'[c] = <<o>> /\ Len(logged'[c]) = 1
  BY <1>1 DEF Log, Typed, EnvTyped
<1>3. EnvTyped'
  BY <1>1 DEF Log, Typed, EnvTyped, connections
<1>4. Untouched(c)
  BY DEF Untouched, Log, Typed, EnvTyped, connections
<1>5. call[c].answered => logged'[c] = <<"completed">>
  BY <1>2
<1>6. Len(logged'[c]) = 1
  BY <1>2
<1> QED BY <1>3, <1>4, <1>5, <1>6, ClearInv

-----------------------------------------------------------------------------
\* call:invite: neither party was busy, so marking both busy with a new call
\* keeps the map exact.
LEMMA InviteInv ==
    ASSUME SignalingInv, NEW c \in CallId, NEW s \in Socket, NEW v \in User,
           Invite(c, s, v)
    PROVE  SignalingInv'
<1> USE DEF SignalingInv
<1> DEFINE u == Owner[s]
           r == [Unused EXCEPT !.status = "ringing", !.caller = u,
                               !.callee = v, !.callerSocket = s,
                               !.ringing = DevicesOf(v)]
<1>1. u \in User /\ u # v /\ s \in live /\ busy[u] = None /\ busy[v] = None
      /\ call[c].status = "unused" /\ DevicesOf(v) # {}
  BY NoneIsFresh DEF Invite
<1>2. call' = [call EXCEPT ![c] = r] /\ busy' = [busy EXCEPT ![u] = c, ![v] = c]
      /\ alerted' = [alerted EXCEPT ![c] = DevicesOf(v)]
      /\ UNCHANGED <<connections, logged>>
  BY DEF Invite
<1> HIDE DEF u
<1>3. DevicesOf(v) \subseteq Socket
  BY DEF DevicesOf, Typed, EnvTyped
<1>4. /\ r.status = "ringing" /\ r.caller = u /\ r.callee = v
      /\ r.callerSocket = s /\ r.calleeSocket = None
      /\ r.ringing = DevicesOf(v) /\ r.grace = None
      /\ r.heard = FALSE /\ r.offered = FALSE /\ r.answered = FALSE
      /\ r.dropped = FALSE
  BY DEF Unused
<1>5. r \in CallRecord
  BY <1>1, <1>3, EmptyBuffer DEF CallRecord, Unused
<1> HIDE DEF r
<1>6. Owner[s] = u
  BY DEF u
<1>7. Typed'
  BY <1>1, <1>2, <1>3, <1>5 DEF Typed, EnvTyped, connections
<1>8. \A d \in CallId \ {c} : /\ call'[d] = call[d] /\ alerted'[d] = alerted[d]
                              /\ logged'[d] = logged[d]
  BY <1>2 DEF Typed, EnvTyped
<1>9. call'[c] = r /\ alerted'[c] = DevicesOf(v) /\ logged'[c] = logged[c]
  BY <1>2 DEF Typed, EnvTyped
<1>10. BusyIsExact'
  <2> SUFFICES ASSUME NEW w \in User, NEW d \in CallId
               PROVE  (busy[w] = d <=> Active(d) /\ w \in Party(d))'
    BY DEF BusyIsExact
  <2>1. CASE d = c
    <3>1. Active(d)' /\ Party(d)' = {u, v}
      BY <1>4, <1>9, <2>1 DEF Active, Ringing, Party
    <3>2. busy'[w] = c <=> w \in {u, v}
      BY <1>1, <1>2 DEF Typed, BusyIsExact, Active, Ringing, Established
    <3> QED BY <2>1, <3>1, <3>2
  <2>2. CASE d # c
    <3>1. (Active(d) /\ w \in Party(d))' <=> Active(d) /\ w \in Party(d)
      BY <1>8, <2>2 DEF Active, Ringing, Established, Party
    <3>2. busy'[w] = d <=> busy[w] = d
      BY <1>1, <1>2, <2>2, NoneIsFresh DEF Typed
    <3> QED BY <3>1, <3>2 DEF BusyIsExact
  <2> QED BY <2>1, <2>2
<1>11. logged[c] = <<>>
  BY <1>1 DEF Shape
<1>12. Shape(r, DevicesOf(v), logged[c], live)
  BY <1>1, <1>4, <1>6, <1>11 DEF Shape, DevicesOf
<1>13. \A d \in CallId : Shape(call'[d], alerted'[d], logged'[d], live')
  BY <1>2, <1>8, <1>9, <1>12 DEF connections
<1> QED BY <1>7, <1>10, <1>13

\* A relay or an answer rewrites the record of one call and, for an answer,
\* silences its devices.
LEMMA RewriteInv ==
    ASSUME SignalingInv, NEW c \in CallId, NEW r \in CallRecord, Active(c),
           call' = [call EXCEPT ![c] = r],
           r.caller = call[c].caller, r.callee = call[c].callee,
           r.status \in {"ringing", "connecting", "connected"},
           NEW told, alerted' = [alerted EXCEPT ![c] = @ \ told],
           Shape(r, alerted[c] \ told, logged[c], live),
           UNCHANGED <<connections, busy, logged>>
    PROVE  SignalingInv'
<1> USE DEF SignalingInv
<1>1. EnvTyped'
  BY DEF Typed, EnvTyped, connections
<1>2. Untouched(c)
  BY DEF Untouched, Typed, EnvTyped, connections
<1>3. Shape(r, alerted'[c], logged'[c], live')
  BY DEF Typed, EnvTyped, connections
<1> QED BY <1>1, <1>2, <1>3, UpdateInv

\* call:accept: the answering device takes the call, the others fall silent.
LEMMA AcceptInv ==
    ASSUME SignalingInv, NEW c \in CallId, NEW s \in Socket, Accept(c, s)
    PROVE  SignalingInv'
<1> USE DEF SignalingInv
<1> DEFINE h == primary[call[c].caller] = call[c].callerSocket
           r == [call[c] EXCEPT !.status = "connecting", !.calleeSocket = s,
                                !.pendingIce = 0, !.heard = h]
<1>1. Ringing(c) /\ s \in live /\ Owner[s] = call[c].callee
  BY DEF Accept
<1>2. call[c] \in CallRecord
  BY DEF Typed
<1>3. call' = [call EXCEPT ![c] = r]
  BY DEF Accept, Typed
<1>4. h \in BOOLEAN
  OBVIOUS
<1> HIDE DEF h
<1>5. /\ r.status = "connecting" /\ r.calleeSocket = s /\ r.pendingIce = 0
      /\ r.caller = call[c].caller /\ r.callee = call[c].callee
      /\ r.callerSocket = call[c].callerSocket
      /\ r.answered = call[c].answered /\ r.grace = call[c].grace
      /\ r.dropped = call[c].dropped
  BY <1>2 DEF CallRecord
<1>6. r \in CallRecord
  BY <1>1, <1>2, <1>4, EmptyBuffer DEF CallRecord
<1> HIDE DEF r
<1>7. Shape(call[c], alerted[c], logged[c], live)
  OBVIOUS
<1>8. Shape(r, alerted[c] \ call[c].ringing, logged[c], live)
  BY <1>1, <1>5, <1>7, NoneIsFresh DEF Shape, Ringing
<1>9. alerted' = [alerted EXCEPT ![c] = @ \ call[c].ringing]
      /\ UNCHANGED <<connections, busy, logged>>
  BY DEF Accept, DismissRinging, Dismiss
<1> QED BY <1>1, <1>3, <1>5, <1>6, <1>8, <1>9, RewriteInv DEF Active

\* The endings of a ringing call, none of which has been answered.
LEMMA RingEndsInv ==
    ASSUME SignalingInv, NEW c \in CallId,
           Reject(c) \/ Cancel(c) \/ RingTimeout(c)
    PROVE  SignalingInv'
<1>1. Ringing(c) /\ Clear(c) /\ UNCHANGED connections
      /\ alerted' = [alerted EXCEPT ![c] = @ \ call[c].ringing]
  BY DEF Reject, Cancel, RingTimeout, DismissRinging, Dismiss
<1>2. Active(c) /\ ~call[c].answered
  BY <1>1 DEF SignalingInv, Shape, Active, Ringing, Typed, CallRecord
<1>3. PICK o \in Outcome : Log(c, o)
  BY DEF Reject, Cancel, RingTimeout, Outcome
<1> QED BY <1>1, <1>2, <1>3, EndingInv

\* call:end and the grace timer: a connected call is logged as completed.
LEMMA CallEndsInv ==
    ASSUME SignalingInv, NEW c \in CallId,
           GraceExpire(c) \/ \E s \in Socket : End(c, s)
    PROVE  SignalingInv'
<1>1. Active(c) /\ Clear(c) /\ UNCHANGED connections
  BY DEF GraceExpire, End
<1>2. PICK o \in Outcome : Log(c, o) /\ (call[c].answered => o = "completed")
  <2>1. call[c].answered => Connected(c)
    BY <1>1 DEF SignalingInv, Shape, Active, Ringing, Established, Connected
  <2>2. CASE GraceExpire(c)
    BY <2>1, <2>2 DEF GraceExpire, Outcome
  <2>3. CASE \E s \in Socket : End(c, s)
    BY <2>1, <2>3 DEF End, Outcome
  <2> QED BY <2>2, <2>3
<1>3. PICK told : alerted' = [alerted EXCEPT ![c] = @ \ told]
  <2>1. CASE GraceExpire(c)
    <3>1. alerted' = alerted
      BY <2>1 DEF GraceExpire
    <3>2. alerted = [alerted EXCEPT ![c] = @ \ {}]
      BY DEF SignalingInv, Typed, EnvTyped
    <3> QED BY <3>1, <3>2
  <2>2. CASE \E s \in Socket : End(c, s)
    BY <2>2 DEF End, Dismiss
  <2> QED BY <2>1, <2>2
<1> QED BY <1>1, <1>2, <1>3, EndingInv

\* The relay: candidates wait only while nobody has answered, an offer or an
\* answer passes only after that.
LEMMA RelayInv ==
    ASSUME SignalingInv, NEW c \in CallId,
           BufferIce(c) \/ Offer(c) \/ Answer(c)
    PROVE  SignalingInv'
<1> USE DEF SignalingInv
<1>1. call[c] \in CallRecord /\ Shape(call[c], alerted[c], logged[c], live)
      /\ Active(c) /\ UNCHANGED <<connections, busy, alerted, logged>>
  BY DEF Typed, BufferIce, Offer, Answer
<1>2. alerted' = [alerted EXCEPT ![c] = @ \ {}] /\ alerted[c] \ {} = alerted[c]
  BY <1>1 DEF Typed, EnvTyped
<1>3. CASE BufferIce(c)
  <2> DEFINE r == [call[c] EXCEPT !.pendingIce = @ + 1]
  <2>1. call' = [call EXCEPT ![c] = r] /\ call[c].pendingIce < IceCap
        /\ call[c].calleeSocket = None
    BY <1>3 DEF BufferIce, Typed
  <2>2. r \in CallRecord
    BY <1>1, <2>1, SignalingAssumption DEF CallRecord
  <2>3. /\ r.status = call[c].status /\ r.caller = call[c].caller
        /\ r.callee = call[c].callee /\ r.callerSocket = call[c].callerSocket
        /\ r.calleeSocket = call[c].calleeSocket /\ r.grace = call[c].grace
        /\ r.heard = call[c].heard /\ r.offered = call[c].offered
        /\ r.answered = call[c].answered /\ r.ringing = call[c].ringing
        /\ r.dropped = call[c].dropped
    BY <1>1 DEF CallRecord
  <2> HIDE DEF r
  <2>4. call[c].status = "ringing"
    BY <1>1, <2>1, NoneIsFresh DEF Shape, Active, Ringing, Established
  <2>5. Shape(r, alerted[c] \ {}, logged[c], live)
    BY <1>1, <1>2, <2>3, <2>4 DEF Shape
  <2> QED BY <1>1, <1>2, <2>1, <2>2, <2>3, <2>4, <2>5, RewriteInv
<1>4. CASE Offer(c)
  <2> DEFINE r == [call[c] EXCEPT !.offered = TRUE]
  <2>1. call' = [call EXCEPT ![c] = r] /\ call[c].heard
    BY <1>4 DEF Offer, Typed
  <2>2. r \in CallRecord
    BY <1>1 DEF CallRecord
  <2>3. /\ r.status = call[c].status /\ r.caller = call[c].caller
        /\ r.callee = call[c].callee /\ r.callerSocket = call[c].callerSocket
        /\ r.calleeSocket = call[c].calleeSocket /\ r.grace = call[c].grace
        /\ r.answered = call[c].answered /\ r.pendingIce = call[c].pendingIce
        /\ r.dropped = call[c].dropped
    BY <1>1 DEF CallRecord
  <2> HIDE DEF r
  <2>4. call[c].status \in {"connecting", "connected"}
    BY <1>1, <2>1 DEF Shape, Active, Ringing, Established
  <2>5. Shape(r, alerted[c] \ {}, logged[c], live)
    BY <1>1, <1>2, <2>3, <2>4 DEF Shape
  <2> QED BY <1>1, <1>2, <2>1, <2>2, <2>3, <2>4, <2>5, RewriteInv
<1>5. CASE Answer(c)
  <2> DEFINE r == [call[c] EXCEPT !.status = "connected", !.answered = TRUE]
  <2>1. call' = [call EXCEPT ![c] = r] /\ call[c].offered
    BY <1>5 DEF Answer, Typed
  <2>2. r \in CallRecord
    BY <1>1 DEF CallRecord
  <2>3. /\ r.status = "connected" /\ r.caller = call[c].caller
        /\ r.callee = call[c].callee /\ r.callerSocket = call[c].callerSocket
        /\ r.calleeSocket = call[c].calleeSocket /\ r.grace = call[c].grace
        /\ r.answered = TRUE /\ r.pendingIce = call[c].pendingIce
        /\ r.dropped = call[c].dropped
    BY <1>1 DEF CallRecord
  <2> HIDE DEF r
  <2>4. call[c].status \in {"connecting", "connected"}
    BY <1>1, <2>1 DEF Shape, Active, Ringing, Established
  <2>5. Shape(r, alerted[c] \ {}, logged[c], live)
    BY <1>1, <1>2, <2>3, <2>4 DEF Shape
  <2> QED BY <1>1, <1>2, <2>1, <2>2, <2>3, <2>5, RewriteInv
<1> QED BY <1>3, <1>4, <1>5

-----------------------------------------------------------------------------
\* A connection that closes is used by no call but the one its user is busy
\* with.
LEMMA OthersSurviveDrop ==
    ASSUME SignalingInv, NEW s \in Socket, live' = live \ {s},
           NEW d \in CallId, busy[Owner[s]] # d
    PROVE  Shape(call[d], alerted[d], logged[d], live')
<1> USE DEF SignalingInv
<1>1. Shape(call[d], alerted[d], logged[d], live)
  OBVIOUS
<1>2. ASSUME call[d].status = "ringing", NEW t \in Socket,
             Owner[t] \in {call[d].caller, call[d].callee}
      PROVE  t # s
  <2>1. Active(d) /\ Owner[t] \in Party(d) /\ Owner[t] \in User
    BY <1>2, NoneIsFresh DEF Active, Ringing, Party
  <2>2. busy[Owner[t]] = d
    BY <2>1 DEF BusyIsExact
  <2> QED BY <2>2
<1>3. call[d].ringing \subseteq Socket
  BY DEF Typed, CallRecord
<1>4. call[d].status = "ringing" =>
        /\ call[d].callerSocket \in live'
        /\ \A t \in call[d].ringing : t \in live'
  BY <1>1, <1>2, <1>3 DEF Shape
<1> QED BY <1>1, <1>4 DEF Shape

\* handleDisconnect: a ringing call ends with its caller or its last device;
\* an answered one waits for the party whose recorded socket closed.
LEMMA DisconnectInv ==
    ASSUME SignalingInv, NEW s \in Socket, Disconnect(s)
    PROVE  SignalingInv'
<1> USE DEF SignalingInv
<1> DEFINE u == Owner[s]
           c == busy[u]
<1>1. live' = live \ {s} /\ UNCHANGED <<primary, callable>> /\ s \in live
  BY DEF Disconnect
<1>2. u \in User /\ c \in CallId \cup {None}
  BY NoneIsFresh DEF Typed
<1>3. \A d \in CallId \ {c} : Shape(call[d], alerted[d], logged[d], live')
  BY <1>1, OthersSurviveDrop
<1>4. CASE c = None
  <2>1. UNCHANGED <<call, busy, alerted, logged>>
    BY <1>4 DEF Disconnect
  <2>2. \A d \in CallId : Shape(call[d], alerted[d], logged[d], live')
    BY <1>3, <1>4, NoneIsFresh
  <2>3. EnvTyped'
    BY <1>1, <2>1 DEF Typed, EnvTyped
  <2> QED BY <2>1, <2>2, <2>3, FrameInv
<1>5. CASE c # None
  <2>1. c \in CallId /\ Active(c) /\ u \in Party(c)
    BY <1>2, <1>5 DEF BusyIsExact
  <2>2. Shape(call[c], alerted[c], logged[c], live) /\ call[c] \in CallRecord
    BY <2>1 DEF Typed
  <2>3. \/ Ringing(c) /\ DropCaller(c)
        \/ Ringing(c) /\ u # call[c].caller /\ DropRinging(c, s)
        \/ ~Ringing(c) /\ DropEstablished(c, s, u)
    BY <1>5 DEF Disconnect
  <2> HIDE DEF c, u
  <2>4. CASE Ringing(c) /\ DropCaller(c)
    <3> DEFINE r == [Cleared(call[c]) EXCEPT !.dropped = TRUE]
    <3>1. call' = [call EXCEPT ![c] = r] /\ Release(c) /\ logged' = logged
          /\ alerted' = [alerted EXCEPT ![c] = @ \ call[c].ringing]
      BY <2>4 DEF DropCaller, DismissRinging, Dismiss
    <3>2. logged[c] = <<>> /\ ~call[c].answered
      BY <2>2, <2>4 DEF Shape, Ringing, CallRecord
    <3>3. r \in CallRecord /\ r.status = "over" /\ r.dropped /\ ~r.answered
      BY <2>2, <3>2, EmptyBuffer DEF Cleared, CallRecord
    <3> HIDE DEF r
    <3>4. EnvTyped'
      BY <1>1, <2>1, <3>1 DEF Typed, EnvTyped
    <3>5. Untouched(c)
      BY <1>3, <2>1, <3>1 DEF Untouched, Typed, EnvTyped
    <3>6. Shape(r, alerted'[c], logged'[c], live')
      BY <3>1, <3>2, <3>3 DEF Shape
    <3> QED BY <2>1, <3>1, <3>3, <3>4, <3>5, <3>6, OverInv
  <2>5. CASE Ringing(c) /\ u # call[c].caller /\ DropRinging(c, s)
    <3>1. alerted' = [alerted EXCEPT ![c] = @ \ {s}]
      BY <2>5 DEF DropRinging, Dismiss
    <3>2. logged[c] = <<>> /\ ~call[c].answered /\ alerted[c] = call[c].ringing
      BY <2>2, <2>5 DEF Shape, Ringing, CallRecord
    <3>3. CASE call[c].ringing \ {s} = {}
      <4>1. Clear(c) /\ Log(c, "missed")
        BY <2>5, <3>3 DEF DropRinging
      <4>2. logged'[c] = <<"missed">> /\ Len(logged'[c]) = 1
        BY <2>1, <3>2, <4>1 DEF Log, Typed, EnvTyped
      <4>3. Len(logged'[c]) = 1
        BY <4>2
      <4>4. EnvTyped'
        BY <1>1, <2>1, <3>1, <3>2, <4>1 DEF Log, Typed, EnvTyped, Outcome
      <4>5. Untouched(c)
        BY <1>3, <2>1, <3>1, <4>1 DEF Log, Untouched, Typed, EnvTyped
      <4> QED BY <2>1, <3>2, <4>1, <4>3, <4>4, <4>5, ClearInv
    <3>4. CASE call[c].ringing \ {s} # {}
      <4> DEFINE rest == call[c].ringing \ {s}
                 r == [call[c] EXCEPT !.ringing = rest]
      <4>1. call' = [call EXCEPT ![c] = r] /\ UNCHANGED <<busy, logged>>
        BY <2>1, <2>5, <3>4 DEF DropRinging, Typed
      <4>2. r \in CallRecord
        BY <2>2 DEF CallRecord
      <4>3. /\ r.status = call[c].status /\ r.caller = call[c].caller
            /\ r.callee = call[c].callee /\ r.callerSocket = call[c].callerSocket
            /\ r.calleeSocket = call[c].calleeSocket /\ r.grace = call[c].grace
            /\ r.heard = call[c].heard /\ r.offered = call[c].offered
            /\ r.answered = call[c].answered /\ r.ringing = rest
            /\ r.dropped = call[c].dropped
        BY <2>2 DEF CallRecord
      <4> HIDE DEF r
      <4>4. call[c].callerSocket # s
        BY <2>2, <2>5 DEF Shape, Ringing, u
      <4>5. Shape(r, rest, logged[c], live')
        BY <1>1, <2>2, <2>5, <3>2, <3>4, <4>3, <4>4 DEF Shape, Ringing
      <4>6. alerted'[c] = rest /\ logged'[c] = logged[c]
        BY <2>1, <3>1, <3>2, <4>1 DEF Typed, EnvTyped
      <4>7. EnvTyped'
        BY <1>1, <2>1, <3>1, <4>1 DEF Typed, EnvTyped
      <4>8. Untouched(c)
        BY <1>3, <2>1, <3>1, <4>1 DEF Untouched, Typed, EnvTyped
      <4>9. r.status \in {"ringing", "connecting", "connected"}
        BY <2>5, <4>3 DEF Ringing
      <4> HIDE DEF rest
      <4> QED BY <2>1, <4>1, <4>2, <4>3, <4>5, <4>6, <4>7, <4>8, <4>9, UpdateInv
    <3> QED BY <3>3, <3>4
  <2>6. CASE ~Ringing(c) /\ DropEstablished(c, s, u)
    <3>1. UNCHANGED <<busy, alerted, logged>>
      BY <2>6 DEF DropEstablished
    <3>2. call[c].status \in {"connecting", "connected"}
      BY <2>1, <2>6 DEF Active, Ringing, Established
    <3>3. EnvTyped'
      BY <1>1, <3>1 DEF Typed, EnvTyped
    <3>4. CASE call' = call
      <4>1. Shape(call[c], alerted[c], logged[c], live')
        BY <1>1, <2>2, <3>2 DEF Shape
      <4>2. \A d \in CallId : Shape(call[d], alerted[d], logged[d], live')
        BY <1>3, <4>1
      <4> QED BY <3>1, <3>3, <3>4, <4>2, FrameInv
    <3>5. CASE call' # call
      <4> DEFINE r == Paused(call[c], u)
      <4>1. call' = [call EXCEPT ![c] = r] /\ call[c].grace = None
            /\ (SocketOf(c, u) = None \/ s = SocketOf(c, u))
        BY <2>6, <3>5 DEF DropEstablished
      <4>2. r \in CallRecord
        BY <1>2, <2>2 DEF CallRecord, Paused
      <4>3. /\ r.status = call[c].status /\ r.caller = call[c].caller
            /\ r.callee = call[c].callee /\ r.callerSocket = call[c].callerSocket
            /\ r.calleeSocket = call[c].calleeSocket /\ r.grace = u
            /\ r.answered = call[c].answered /\ r.pendingIce = call[c].pendingIce
            /\ r.dropped = call[c].dropped
        BY <2>2 DEF CallRecord, Paused
      <4> HIDE DEF r
      <4>4. IF u = call[c].caller THEN call[c].callerSocket = s
                                  ELSE call[c].calleeSocket = s
        BY <2>2, <3>2, <4>1, NoneIsFresh DEF SocketOf, Shape
      <4>5. Shape(r, alerted[c], logged[c], live')
        BY <1>1, <2>1, <2>2, <3>2, <4>3, <4>4 DEF Shape, Party
      <4>6. Shape(r, alerted'[c], logged'[c], live')
        BY <3>1, <4>5
      <4>7. Untouched(c)
        BY <1>3, <3>1 DEF Untouched
      <4>8. r.status \in {"ringing", "connecting", "connected"}
        BY <3>2, <4>3
      <4> QED BY <2>1, <3>1, <3>3, <4>1, <4>2, <4>3, <4>6, <4>7, <4>8, UpdateInv
    <3> QED BY <3>4, <3>5
  <2> QED BY <2>3, <2>4, <2>5, <2>6
<1> QED BY <1>4, <1>5

\* identify: nobody waits for the connection that opens, except through its
\* user, whose call takes it over.
LEMMA IdentifyInv ==
    ASSUME SignalingInv, NEW s \in Socket, Identify(s)
    PROVE  SignalingInv'
<1> USE DEF SignalingInv
<1> DEFINE u == Owner[s]
           c == busy[u]
<1>1. /\ live' = live \cup {s}
      /\ primary' = [primary EXCEPT ![u] = s]
      /\ UNCHANGED <<callable, busy, alerted, logged>>
      /\ s \in live \/ Fresh(s)
  BY DEF Identify
<1>2. u \in User /\ c \in CallId \cup {None}
  BY NoneIsFresh DEF Typed
<1>3. EnvTyped'
  BY <1>1, <1>2 DEF Typed, EnvTyped
<1>4. \A d \in CallId : Shape(call[d], alerted[d], logged[d], live')
  <2> SUFFICES ASSUME NEW d \in CallId
               PROVE  Shape(call[d], alerted[d], logged[d], live')
    OBVIOUS
  <2>1. Shape(call[d], alerted[d], logged[d], live)
    OBVIOUS
  <2>2. s \notin live => s # call[d].callerSocket /\ s # call[d].calleeSocket
    BY <1>1 DEF Fresh
  <2> QED BY <1>1, <2>1, <2>2 DEF Shape
<1>5. CASE call' = call
  BY <1>1, <1>3, <1>4, <1>5, FrameInv
<1>6. CASE call' # call
  <2> DEFINE r == Reattached(call[c], u, s)
  <2>1. c # None /\ call[c].grace = u /\ call' = [call EXCEPT ![c] = r]
    BY <1>6 DEF Identify, Resume
  <2>2. c \in CallId /\ Active(c) /\ u \in Party(c)
    BY <1>2, <2>1 DEF BusyIsExact
  <2>3. call[c] \in CallRecord /\ Shape(call[c], alerted[c], logged[c], live')
    BY <1>4, <2>2 DEF Typed
  <2> HIDE DEF c, u
  <2>4. r \in CallRecord
    BY <2>3 DEF CallRecord, Reattached
  <2>5. /\ r.status = call[c].status /\ r.caller = call[c].caller
        /\ r.callee = call[c].callee /\ r.grace = None
        /\ r.callerSocket = IF u = call[c].caller THEN s ELSE call[c].callerSocket
        /\ r.calleeSocket = IF u = call[c].caller THEN call[c].calleeSocket ELSE s
        /\ r.answered = call[c].answered /\ r.pendingIce = call[c].pendingIce
        /\ r.dropped = call[c].dropped
    BY <2>3 DEF CallRecord, Reattached
  <2> HIDE DEF r
  <2>6. call[c].status \in {"connecting", "connected"}
    BY <1>2, <2>1, <2>2, <2>3, NoneIsFresh
    DEF Shape, Active, Ringing, Established
  <2>7. Owner[s] = u
    BY DEF u
  <2>8. Shape(r, alerted[c], logged[c], live')
    BY <2>2, <2>3, <2>5, <2>6, <2>7, NoneIsFresh DEF Shape, Party
  <2>9. Shape(r, alerted'[c], logged'[c], live')
    BY <1>1, <2>8
  <2>10. Untouched(c)
    BY <1>1, <1>4 DEF Untouched
  <2>11. r.status \in {"ringing", "connecting", "connected"}
    BY <2>5, <2>6
  <2>12. busy' = busy
    BY <1>1
  <2> QED BY <1>3, <2>1, <2>2, <2>4, <2>5, <2>9, <2>10, <2>11, <2>12, UpdateInv
<1> QED BY <1>5, <1>6

\* Bans and deletions elsewhere touch no call.
LEMMA SetCallableInv ==
    ASSUME SignalingInv, NEW u \in User, SetCallable(u)
    PROVE  SignalingInv'
<1>1. UNCHANGED <<live, primary, call, busy, alerted, logged>> /\ EnvTyped'
  BY DEF SetCallable, SignalingInv, Typed, EnvTyped
<1> QED BY <1>1, FrameInv DEF SignalingInv

\* Every step keeps the invariant.
LEMMA SignalingStepInv ==
    SignalingInv /\ [SignalingNext]_signalingVars => SignalingInv'
<1> SUFFICES ASSUME SignalingInv, [SignalingNext]_signalingVars
             PROVE  SignalingInv'
  OBVIOUS
<1>1. CASE UNCHANGED signalingVars
  <2>1. EnvTyped'
    BY <1>1 DEF SignalingInv, Typed, EnvTyped, signalingVars
  <2> QED BY <1>1, <2>1, FrameInv DEF SignalingInv, signalingVars
<1>2. ASSUME NEW c \in CallId, NEW s \in Socket, NEW v \in User, Invite(c, s, v)
      PROVE  SignalingInv'
  BY <1>2, InviteInv
<1>3. ASSUME NEW c \in CallId, NEW s \in Socket, Accept(c, s) \/ End(c, s)
      PROVE  SignalingInv'
  BY <1>3, AcceptInv, CallEndsInv
<1>4. ASSUME NEW c \in CallId, CallStep(c) PROVE SignalingInv'
  BY <1>4, RingEndsInv, CallEndsInv, RelayInv DEF CallStep
<1>5. ASSUME NEW s \in Socket, Disconnect(s) \/ Identify(s) PROVE SignalingInv'
  BY <1>5, DisconnectInv, IdentifyInv
<1>6. ASSUME NEW u \in User, SetCallable(u) PROVE SignalingInv'
  BY <1>6, SetCallableInv
<1> QED BY <1>1, <1>2, <1>3, <1>4, <1>5, <1>6 DEF SignalingNext

-----------------------------------------------------------------------------
\* The inductive invariant of the private calls holds in every reachable
\* state: what a call's record, its devices, its log, the busy map and the
\* open connections say of each other.
THEOREM SignalingInvariant == SignalingSpec => []SignalingInv
BY SignalingInitInv, SignalingStepInv, PTL DEF SignalingSpec

\* A ringing call always has an open device of the callee to answer it and
\* the caller's connection to come back to (handleDisconnect while ringing).
THEOREM AlwaysRingsSomewhere == SignalingSpec => []RingsSomewhere
<1>1. SignalingInv => RingsSomewhere
  <2> SUFFICES ASSUME SignalingInv, NEW c \in CallId, Ringing(c)
               PROVE  /\ call[c].ringing # {}
                      /\ call[c].ringing \subseteq DevicesOf(call[c].callee)
                      /\ call[c].callerSocket \in live
    BY DEF RingsSomewhere
  <2>1. Shape(call[c], alerted[c], logged[c], live)
    BY DEF SignalingInv
  <2> QED BY <2>1 DEF Ringing, Shape, DevicesOf
<1> QED BY <1>1, SignalingInvariant, PTL

\* Once answered, a call is on one device only, and a grace period belongs to
\* a party whose recorded socket is gone (call:accept, handleDisconnect).
THEOREM OneAnsweringDevice == SignalingSpec => []AnsweredOnOneDevice
<1>1. SignalingInv => AnsweredOnOneDevice
  <2> SUFFICES ASSUME SignalingInv, NEW c \in CallId, Established(c)
               PROVE  /\ Owner[call[c].calleeSocket] = call[c].callee
                      /\ alerted[c] = {}
                      /\ call[c].pendingIce = 0
                      /\ call[c].grace # None =>
                           /\ call[c].grace \in Party(c)
                           /\ SocketOf(c, call[c].grace) \notin live
    BY DEF AnsweredOnOneDevice
  <2>1. Shape(call[c], alerted[c], logged[c], live)
    BY DEF SignalingInv
  <2>2. call[c].status \in {"connecting", "connected"}
    BY DEF Established
  <2> QED BY <2>1, <2>2 DEF Shape, SocketOf, Party
<1> QED BY <1>1, SignalingInvariant, PTL

\* A call is logged exactly once, when it ends and by whichever of its endings,
\* and as completed if it had been answered (logHistory); only a ring ended by
\* its caller's disconnect, which was never answered, is not logged at all
\* (handleDisconnect).
THEOREM AlwaysLoggedOnce == SignalingSpec => []LoggedOnce
<1>1. SignalingInv => LoggedOnce
  <2> SUFFICES ASSUME SignalingInv, NEW c \in CallId
               PROVE  /\ call[c].status # "over" => logged[c] = <<>>
                      /\ call[c].status = "over" =>
                           /\ Len(logged[c]) = IF call[c].dropped THEN 0 ELSE 1
                           /\ call[c].answered => logged[c] = <<"completed">>
    BY DEF LoggedOnce
  <2>1. Shape(call[c], alerted[c], logged[c], live)
        /\ call[c].status \in {"unused", "ringing", "connecting", "connected", "over"}
    BY DEF SignalingInv, Typed, CallRecord
  <2> QED BY <2>1 DEF Shape
<1> QED BY <1>1, SignalingInvariant, PTL

\* userCallState names a call exactly for its two parties while it is active
\* (clearCall and the endings that call it).
THEOREM SignalingBusyMapExact == SignalingSpec => []BusyIsExact
BY SignalingInvariant, PTL DEF SignalingInv
=============================================================================
