----------------------------- MODULE RandomCall -----------------------------
(***************************************************************************)
(* Random calls (randomCall.js) on top of CallHosting: a session looks for *)
(* a host by inviting one eligible host after the other, and is told       *)
(* through the hooks onAccepted and onEnded what became of each call.      *)
(*                                                                         *)
(* The hooks run inside the hosting handler that fires them.  A handler    *)
(* that owes one leaves the session in hookDue (and a disconnect handler   *)
(* leaves its user in leaveDue); nothing else can happen until the step    *)
(* that pays it has run, as in a JavaScript call stack.                    *)
(***************************************************************************)
EXTENDS CallHosting

CONSTANTS
    Session,     \* fresh ids for sessions
    DirectCall,  \* call ids kept for hostcall:invite
    MaxAttempts  \* MAX_ATTEMPTS_PER_SESSION

ASSUME RandomCallAssumption ==
    /\ None \notin Session
    /\ DirectCall \subseteq CallId
    /\ MaxAttempts \in Nat

VARIABLES
    session,   \* every session record ever made
    hook,      \* callEventHooks: the session a call was made for
    hookDue,   \* the session whose tryNextHost or onEnded runs next
    leaveDue   \* the user whose handleDisconnect runs after that

sessionVars == <<session, hook, hookDue, leaveDue>>
randomVars == <<hostingVars, sessionVars>>

SessionRecord == [status: {"unused", "searching", "connected", "over"},
                  caller: User \cup {None},
                  attempted: SUBSET User,
                  current: CallId \cup {None}]   \* currentCallId

NoSession == [status |-> "unused", caller |-> None, attempted |-> {},
              current |-> None]

Live(n) == session[n].status \in {"searching", "connected"}
Idle == hookDue = None /\ leaveDue = None
Over(n) == [session EXCEPT ![n].status = "over"]       \* endSession

\* getEligibleHostIds, less the hosts the session has tried.
Eligible(n) ==
    {h \in approved : /\ h # session[n].caller
                      /\ Reachable(h)
                      /\ busy[h] = None
                      /\ h \notin session[n].attempted}

\* The conditions on the caller in attemptInvite.
CallerMayInvite(u) ==
    /\ busy[u] = None
    /\ rates.enabled
    /\ u \in accounts
    /\ diamonds[u] >= rates.minBalance

MayTryNext(n) ==
    /\ Reachable(session[n].caller)
    /\ Cardinality(session[n].attempted) < MaxAttempts
    /\ Eligible(n) # {}
    /\ CallerMayInvite(session[n].caller)

-----------------------------------------------------------------------------
(* The search                                                              *)

\* tryNextHost rings one more host, picked at random.
RingNext(n) ==
    /\ session[n].status = "searching"
    /\ MayTryNext(n)
    /\ \E h \in Eligible(n), c \in CallId \ DirectCall :
        /\ Invite(c, primary[session[n].caller], h)
        /\ session' = [session EXCEPT ![n].attempted = @ \cup {h}]
        /\ hook' = [hook EXCEPT ![c] = n]

\* tryNextHost finds nobody left, or onEnded closes a connected session.
GiveUp(n) ==
    /\ session[n].status = "connected" \/ ~MayTryNext(n)
    /\ session' = Over(n)
    /\ UNCHANGED <<hostingVars, hook>>

\* Mutant: a failed ring ends nothing and tries nobody else.
HookForgotten ==
    /\ hookDue # None
    /\ hookDue' = None
    /\ UNCHANGED <<hostingVars, session, hook, leaveDue>>

RunHook ==
    /\ hookDue # None
    /\ RingNext(hookDue) \/ GiveUp(hookDue)
    /\ hookDue' = None
    /\ UNCHANGED leaveDue

\* randomCall.handleDisconnect, the last of the disconnect handlers.
RunLeave ==
    /\ hookDue = None
    /\ leaveDue # None
    /\ session' = [n \in Session |->
                     IF Live(n) /\ session[n].caller = leaveDue
                     THEN Over(n)[n] ELSE session[n]]
    /\ leaveDue' = None
    /\ UNCHANGED <<hostingVars, hook, hookDue>>

-----------------------------------------------------------------------------
(* Events                                                                  *)

\* random-call:start on connection s; tryNextHost is due at once.
Start(n, s) ==
    /\ Idle
    /\ session[n].status = "unused"
    /\ s \in live
    /\ \A m \in Session : ~(Live(m) /\ session[m].caller = Owner[s])
    /\ session' = [session EXCEPT ![n].status = "searching",
                                  ![n].caller = Owner[s]]
    /\ hookDue' = n
    /\ UNCHANGED <<hostingVars, hook, leaveDue>>

\* random-call:cancel: the session first, so that the hook finds it ended.
Cancel(n) ==
    LET c == session[n].current IN
    /\ Idle
    /\ Live(n)
    /\ Present(session[n].caller)
    /\ session' = Over(n)
    /\ IF c # None /\ Active(c)
       THEN EndCall(c) /\ UNCHANGED <<live, primary, admin, wallet>>
       ELSE UNCHANGED hostingVars
    /\ UNCHANGED <<hook, hookDue, leaveDue>>

\* Mutant: endCall clears the call without firing its hook.
OwedByRingOnly ==
    {n \in Session : /\ Live(n)
                     /\ \E c \in CallId : /\ hook[c] = n
                                          /\ Ringing(c)
                                          /\ call'[c].status = "over"}

\* The session whose onEnded the step fires: the one that made the call the
\* step ends, unless the session has ended (its hook then returns at once).
OwedSession ==
    {n \in Session : /\ Live(n)
                     /\ \E c \in CallId : /\ hook[c] = n
                                          /\ Active(c)
                                          /\ call'[c].status = "over"}

FireOnEnded ==
    hookDue' = IF OwedSession = {} THEN None
                                   ELSE CHOOSE n \in OwedSession : TRUE

\* hostcall:accept, with the onAccepted hook.
Accept(c) ==
    /\ Idle
    /\ AcceptPaid(c) \/ AcceptUnpaid(c)
    /\ session' = [n \in Session |->
                     IF hook[c] = n /\ Live(n)
                     THEN [session[n] EXCEPT !.status = "connected",
                                             !.current = c]
                     ELSE session[n]]
    /\ FireOnEnded
    /\ UNCHANGED <<hook, leaveDue>>

\* The disconnect event: callHosting's handler, its hook, then ours.
Drop(s) ==
    /\ Idle
    /\ Disconnect(s)
    /\ FireOnEnded
    /\ leaveDue' = Owner[s]
    /\ UNCHANGED <<session, hook>>

\* Every other handler and timer of CallHosting.
OtherCallStep(c) ==
    \/ Reject(c) \/ EndByParticipant(c) \/ RingTimeout(c) \/ Elapse(c)
    \/ BillTick(c) \/ GraceExpire(c)

OtherHosting ==
    \/ \E c \in DirectCall, s \in Socket, h \in User : Invite(c, s, h)
    \/ \E c \in CallId : OtherCallStep(c)
    \/ \E s \in Socket : Identify(s)
    \/ \E u \in User : UserStep(u)
    \/ \E r \in RateConfigs : SetRates(r)
    \/ NewDay

Hosting ==
    /\ Idle
    /\ OtherHosting
    /\ FireOnEnded
    /\ UNCHANGED <<session, hook, leaveDue>>

-----------------------------------------------------------------------------

RandomInit ==
    /\ HostingInit
    /\ session = [n \in Session |-> NoSession]
    /\ hook = [c \in CallId |-> None]
    /\ hookDue = None
    /\ leaveDue = None

RandomNext ==
    \/ RunHook
    \/ RunLeave
    \/ \E n \in Session, s \in Socket : Start(n, s)
    \/ \E n \in Session : Cancel(n)
    \/ \E c \in CallId : Accept(c)
    \/ \E s \in Socket : Drop(s)
    \/ Hosting

RandomSpec == RandomInit /\ [][RandomNext]_randomVars

Hooked(Timer) ==
    Idle /\ Timer /\ FireOnEnded /\ UNCHANGED <<session, hook, leaveDue>>

\* Handlers run to completion, and Node fires every armed timer.  The timer
\* needs strong fairness because it is disabled inside other handlers.
RandomFairness ==
    /\ WF_randomVars(RunHook)
    /\ WF_randomVars(RunLeave)
    /\ \A c \in CallId : SF_randomVars(Hooked(RingTimeout(c)))

RandomFairSpec == RandomSpec /\ RandomFairness
-----------------------------------------------------------------------------
(* Properties                                                              *)

\* No session is stranded: between handlers a searching session has one call
\* ringing for it, at a host it has marked as tried, and a connected session
\* is the one its connected call names; so whatever ends the call, a hook
\* moves the session on.
NeverStranded ==
    Idle => \A n \in Session :
        /\ session[n].status = "searching" =>
             \E c \in CallId : /\ Ringing(c)
                               /\ hook[c] = n
                               /\ call[c].caller = session[n].caller
                               /\ call[c].host \in session[n].attempted
        /\ session[n].status = "connected" =>
             Connected(session[n].current) /\ hook[session[n].current] = n

\* A search is over in the end: every ring it starts ends by an answer, a
\* refusal or the ring timeout, and the hosts or the attempts run out.
SearchEnds ==
    \A n \in Session :
        session[n].status = "searching" ~> session[n].status # "searching"
=============================================================================
