---------------------------- MODULE CallSignaling ----------------------------
(***************************************************************************)
(* Private calls (callSignaling.js): ringing every device of the callee,   *)
(* the answering device, the SDP and ICE relay as far as it decides what   *)
(* the server does next, the disconnect grace period and the busy map.     *)
(*                                                                         *)
(* One action per socket event or timer callback.  The two clients send    *)
(* what public/app.js sends: an offer once the device hears call:accepted, *)
(* an answer once it has an offer.                                         *)
(***************************************************************************)
EXTENDS Naturals, Sequences, FiniteSets

CONSTANTS
    User,     \* account ids
    Socket,   \* socket.io connection ids
    Owner,    \* the user each connection authenticates as
    CallId,   \* fresh ids for calls
    IceCap,   \* 200 buffered candidates in the code
    None      \* JavaScript null / a missing map entry

ASSUME SignalingAssumption ==
    /\ Owner \in [Socket -> User]
    /\ IceCap \in Nat
    /\ None \notin User \cup Socket \cup CallId

VARIABLES
    live,      \* connected and identified sockets (callSocketsByUserId)
    primary,   \* socketsByUserId: the user's current socket, possibly dead
    callable,  \* users who exist and are not banned
    call,      \* every call record ever made, by id
    busy,      \* userCallState
    alerted,   \* devices sent call:incoming and not yet told to stop
    logged     \* what callHistory says of each call

signalingVars == <<live, primary, callable, call, busy, alerted, logged>>
connections == <<live, primary, callable>>

CallRecord ==
    [status: {"unused", "ringing", "connecting", "connected", "over"},
     caller: User \cup {None},
     callee: User \cup {None},
     callerSocket: Socket \cup {None},
     calleeSocket: Socket \cup {None},
     ringing: SUBSET Socket,       \* ringingSocketIds
     pendingIce: 0..IceCap,        \* length of the buffer
     heard: BOOLEAN,               \* call:accepted reached callerSocket
     offered: BOOLEAN,             \* an offer reached calleeSocket
     answered: BOOLEAN,            \* connectedAt is set
     grace: User \cup {None},
     dropped: BOOLEAN]             \* HISTORY: the caller's drop ended the ring

Unused == [status |-> "unused", caller |-> None, callee |-> None,
           callerSocket |-> None, calleeSocket |-> None, ringing |-> {},
           pendingIce |-> 0, heard |-> FALSE, offered |-> FALSE,
           answered |-> FALSE, grace |-> None, dropped |-> FALSE]

Outcome == {"completed", "missed", "rejected", "cancelled", "ended"}

Ringing(c) == call[c].status = "ringing"
Connected(c) == call[c].status = "connected"
Established(c) == call[c].status \in {"connecting", "connected"}
Active(c) == Ringing(c) \/ Established(c)             \* activeCalls.has(c)
Party(c) == {call[c].caller, call[c].callee}
SocketOf(c, u) == IF u = call[c].caller THEN call[c].callerSocket
                                        ELSE call[c].calleeSocket
DevicesOf(u) == {s \in live : Owner[s] = u}           \* allSocketsFor
SentBy(u) == DevicesOf(u) # {}                        \* socket.userId = u

-----------------------------------------------------------------------------
(* Endings                                                                 *)

Cleared(r) == [r EXCEPT !.status = "over", !.callerSocket = None,
                        !.calleeSocket = None, !.ringing = {},
                        !.pendingIce = 0, !.heard = FALSE, !.offered = FALSE,
                        !.grace = None]

\* Both parties of c are free for another call.
Release(c) == busy' = [u \in User |-> IF u \in Party(c) THEN None ELSE busy[u]]

Clear(c) ==                                           \* clearCall
    /\ call' = [call EXCEPT ![c] = Cleared(@)]
    /\ Release(c)

Log(c, outcome) == logged' = [logged EXCEPT ![c] = Append(@, outcome)]

\* The devices in the set are told that c is no longer ringing.
Dismiss(c, devices) == alerted' = [alerted EXCEPT ![c] = @ \ devices]

\* The devices a ringing call knows of, all of which are told.
DismissRinging(c) == Dismiss(c, call[c].ringing)

\* The current socket of each party, which is what emitToUserSocket reaches.
Primaries(c) == {primary[u] : u \in Party(c)}

-----------------------------------------------------------------------------
(* Ringing                                                                 *)

\* call:invite from connection s.
Invite(c, s, v) ==
    LET u == Owner[s] IN
    /\ call[c].status = "unused"
    /\ s \in live
    /\ u # v
    /\ v \in callable
    /\ busy[u] = None
    /\ DevicesOf(v) # {}
    /\ busy[v] = None
    /\ call' = [call EXCEPT ![c] =
                  [Unused EXCEPT !.status = "ringing", !.caller = u,
                                 !.callee = v, !.callerSocket = s,
                                 !.ringing = DevicesOf(v)]]
    /\ busy' = [busy EXCEPT ![u] = c, ![v] = c]
    /\ alerted' = [alerted EXCEPT ![c] = DevicesOf(v)]
    /\ UNCHANGED <<connections, logged>>

\* Mutant: the other devices are not told.
AcceptQuietly(c, s) ==
    /\ Ringing(c)
    /\ s \in live /\ Owner[s] = call[c].callee
    /\ call' = [call EXCEPT
                  ![c].status = "connecting",
                  ![c].calleeSocket = s,
                  ![c].pendingIce = 0,
                  ![c].heard = primary[call[c].caller] = call[c].callerSocket]
    /\ Dismiss(c, {s})
    /\ UNCHANGED <<connections, busy, logged>>

\* call:accept from device s: buffered candidates go out, the other devices
\* stop ringing, the caller's current socket hears call:accepted.
Accept(c, s) ==
    /\ Ringing(c)
    /\ s \in live /\ Owner[s] = call[c].callee
    /\ call' = [call EXCEPT
                  ![c].status = "connecting",
                  ![c].calleeSocket = s,
                  ![c].pendingIce = 0,
                  ![c].heard = primary[call[c].caller] = call[c].callerSocket]
    /\ DismissRinging(c)
    /\ UNCHANGED <<connections, busy, logged>>

\* call:reject
Reject(c) ==
    /\ Ringing(c)
    /\ SentBy(call[c].callee)
    /\ Clear(c)
    /\ Log(c, "rejected")
    /\ DismissRinging(c)
    /\ UNCHANGED connections

\* call:cancel
Cancel(c) ==
    /\ Ringing(c)
    /\ SentBy(call[c].caller)
    /\ Clear(c)
    /\ Log(c, "cancelled")
    /\ DismissRinging(c)
    /\ UNCHANGED connections

\* The 45 s ring timer.
RingTimeout(c) ==
    /\ Ringing(c)
    /\ Clear(c)
    /\ Log(c, "missed")
    /\ DismissRinging(c)
    /\ UNCHANGED connections

\* call:end from connection s of either party, in any phase.  Only the
\* sender and the current sockets of the two parties learn of it.
End(c, s) ==
    /\ Active(c)
    /\ s \in live /\ Owner[s] \in Party(c)
    /\ Clear(c)
    /\ Log(c, IF Connected(c) THEN "completed" ELSE "ended")
    /\ Dismiss(c, Primaries(c) \cup {s})
    /\ UNCHANGED connections

-----------------------------------------------------------------------------
(* Relay                                                                   *)

\* call:ice-candidate from the caller while no device has answered.
BufferIce(c) ==
    /\ Active(c)
    /\ call[c].callerSocket \in live
    /\ call[c].calleeSocket = None
    /\ call[c].pendingIce < IceCap
    /\ call' = [call EXCEPT ![c].pendingIce = @ + 1]
    /\ UNCHANGED <<connections, busy, alerted, logged>>

\* call:offer; it is lost when the answering device is away.
Offer(c) ==
    /\ Active(c)
    /\ call[c].heard
    /\ call[c].callerSocket \in live
    /\ call[c].calleeSocket \in live
    /\ call' = [call EXCEPT ![c].offered = TRUE]
    /\ UNCHANGED <<connections, busy, alerted, logged>>

\* call:answer from the answering device, first or to an ICE restart.
Answer(c) ==
    /\ Active(c)
    /\ call[c].offered
    /\ call[c].calleeSocket \in live
    /\ call' = [call EXCEPT ![c].status = "connected", ![c].answered = TRUE]
    /\ UNCHANGED <<connections, busy, alerted, logged>>

-----------------------------------------------------------------------------
(* Connections                                                             *)

\* Mutant: the grace timer is forgotten.
PausedForGood(r, u) == r

\* The record while u is away.
Paused(r, u) == [r EXCEPT !.grace = u]

\* Mutant: the last ringing device leaves an empty list behind.
DropRingingKept(c, s) ==
    /\ call' = [call EXCEPT ![c].ringing = @ \ {s}]
    /\ Dismiss(c, {s})
    /\ UNCHANGED <<busy, logged>>

\* handleDisconnect of a callee's device while the call rings.
DropRinging(c, s) ==
    LET rest == call[c].ringing \ {s} IN
    /\ Dismiss(c, {s})
    /\ IF rest # {}
       THEN /\ call' = [call EXCEPT ![c].ringing = rest]
            /\ UNCHANGED <<busy, logged>>
       ELSE Clear(c) /\ Log(c, "missed")

\* handleDisconnect of the caller while the call rings: the one ending that
\* logs nothing.
DropCaller(c) ==
    /\ call' = [call EXCEPT ![c] = [Cleared(@) EXCEPT !.dropped = TRUE]]
    /\ Release(c)
    /\ DismissRinging(c)
    /\ UNCHANGED logged

\* handleDisconnect once a device has answered.
DropEstablished(c, s, u) ==
    /\ IF (SocketOf(c, u) = None \/ s = SocketOf(c, u)) /\ call[c].grace = None
       THEN call' = [call EXCEPT ![c] = Paused(@, u)]
       ELSE UNCHANGED call
    /\ UNCHANGED <<busy, alerted, logged>>

\* The disconnect event of connection s.
Disconnect(s) ==
    LET u == Owner[s]
        c == busy[u]
    IN /\ s \in live
       /\ live' = live \ {s}
       /\ UNCHANGED <<primary, callable>>
       /\ \/ c = None /\ UNCHANGED <<call, busy, alerted, logged>>
          \/ c # None /\ Ringing(c) /\ u = call[c].caller /\ DropCaller(c)
          \/ c # None /\ Ringing(c) /\ u # call[c].caller /\ DropRinging(c, s)
          \/ c # None /\ ~Ringing(c) /\ DropEstablished(c, s, u)

\* Mutant: a call that was never connected is not logged.
GraceExpireUnlogged(c) ==
    /\ Active(c)
    /\ call[c].grace # None
    /\ Clear(c)
    /\ IF Connected(c) THEN Log(c, "completed") ELSE UNCHANGED logged
    /\ UNCHANGED <<connections, alerted>>

\* The 15 s grace timer.
GraceExpire(c) ==
    /\ Active(c)
    /\ call[c].grace # None
    /\ Clear(c)
    /\ Log(c, IF Connected(c) THEN "completed" ELSE "missed")
    /\ UNCHANGED <<connections, alerted>>

Reattached(r, u, s) ==
    [r EXCEPT !.grace = None,
              !.callerSocket = IF u = r.caller THEN s ELSE @,
              !.calleeSocket = IF u = r.caller THEN @ ELSE s]

\* resumeCall
Resume(s) ==
    LET u == Owner[s]
        c == busy[u]
    IN IF c # None /\ call[c].grace = u
       THEN call' = [call EXCEPT ![c] = Reattached(@, u, s)]
       ELSE UNCHANGED call

\* A connection id that nothing in the server still refers to.
Fresh(s) ==
    /\ s \notin live
    /\ \A u \in User : primary[u] # s
    /\ \A c \in CallId : /\ s \notin {call[c].callerSocket, call[c].calleeSocket}
                         /\ s \notin call[c].ringing \cup alerted[c]

\* identify / join-room, on a new connection or again on an open one.
Identify(s) ==
    /\ s \in live \/ Fresh(s)
    /\ live' = live \cup {s}
    /\ primary' = [primary EXCEPT ![Owner[s]] = s]
    /\ Resume(s)
    /\ UNCHANGED <<callable, busy, alerted, logged>>

\* A ban, a deletion or their reversal elsewhere in the server.
SetCallable(u) ==
    /\ callable' = IF u \in callable THEN callable \ {u} ELSE callable \cup {u}
    /\ UNCHANGED <<live, primary, call, busy, alerted, logged>>

-----------------------------------------------------------------------------

SignalingInit ==
    /\ live = {}
    /\ primary = [u \in User |-> None]
    /\ callable = User
    /\ call = [c \in CallId |-> Unused]
    /\ busy = [u \in User |-> None]
    /\ alerted = [c \in CallId |-> {}]
    /\ logged = [c \in CallId |-> <<>>]

CallStep(c) ==
    \/ Reject(c) \/ Cancel(c) \/ RingTimeout(c) \/ BufferIce(c)
    \/ Offer(c) \/ Answer(c) \/ GraceExpire(c)

SignalingNext ==
    \/ \E c \in CallId, s \in Socket, v \in User : Invite(c, s, v)
    \/ \E c \in CallId, s \in Socket : Accept(c, s) \/ End(c, s)
    \/ \E c \in CallId : CallStep(c)
    \/ \E s \in Socket : Disconnect(s) \/ Identify(s)
    \/ \E u \in User : SetCallable(u)

SignalingSpec == SignalingInit /\ [][SignalingNext]_signalingVars

\* Node fires every timer that stays armed.
SignalingFairSpec ==
    /\ SignalingSpec
    /\ \A c \in CallId : /\ WF_signalingVars(RingTimeout(c))
                         /\ WF_signalingVars(GraceExpire(c))
-----------------------------------------------------------------------------
(* Properties                                                              *)

\* A ringing call always has a live device of the callee to answer it and
\* the caller's connection to come back to; a call whose last device dropped
\* is not left ringing.
RingsSomewhere ==
    \A c \in CallId : Ringing(c) =>
        /\ call[c].ringing # {}
        /\ call[c].ringing \subseteq DevicesOf(call[c].callee)
        /\ call[c].callerSocket \in live

\* Once a device has answered, it alone is in the call: no other device
\* still shows it as incoming, no candidate waits in the buffer, and
\* a running grace period belongs to a party whose recorded socket is gone.
AnsweredOnOneDevice ==
    \A c \in CallId : Established(c) =>
        /\ Owner[call[c].calleeSocket] = call[c].callee
        /\ alerted[c] = {}
        /\ call[c].pendingIce = 0
        /\ call[c].grace # None => /\ call[c].grace \in Party(c)
                                   /\ SocketOf(c, call[c].grace) \notin live

\* No call is logged before it is over; once it is over it is logged exactly
\* once, by whichever of the endings, and as completed if it had been
\* answered.  The exception is a ring that ends because its caller's
\* connection closed: that call is never logged, and it was not answered.
LoggedOnce ==
    \A c \in CallId :
        /\ call[c].status # "over" => logged[c] = <<>>
        /\ call[c].status = "over" =>
             /\ Len(logged[c]) = IF call[c].dropped THEN 0 ELSE 1
             /\ call[c].answered => logged[c] = <<"completed">>

\* When every connection has gone for good, every call is over in the end.
AbandonedCallsEnd ==
    <>[](live = {}) => <>[](\A c \in CallId : ~Active(c))
=============================================================================
