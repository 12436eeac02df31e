---------------------------- MODULE MCRandomCall ----------------------------
(***************************************************************************)
(* Small instances of RandomCall for TLC: a caller with two tabs and two   *)
(* hosts with one, who may also call each other directly.                  *)
(***************************************************************************)
EXTENDS RandomCall, TLC

CONSTANTS a, b, x, a1, a2, b1, x1, c1, c2, c3, n1

People == {a, b, x}
Tabs == {a1, a2, b1, x1}
TabOwner == [s \in Tabs |-> CASE s \in {a1, a2} -> a [] s = b1 -> b
                              [] OTHER -> x]

Standard == [enabled |-> TRUE, perMinute |-> 1, minBalance |-> 0,
             maxHalf |-> 2, maxDaily |-> None]
StandardRate == {Standard}

\* The hosting steps that reach a search: one direct call, answers, timers,
\* drops, approvals, a host who loses his, and a caller who loses his balance.
\* Rates are fixed and accounts are kept.
SearchInit == /\ RandomInit
              /\ rates = Standard

SearchHosting ==
    /\ Idle
    /\ \/ \E c \in DirectCall, s \in Socket, h \in User : Invite(c, s, h)
       \/ \E c \in CallId : OtherCallStep(c)
       \/ \E s \in Socket : Identify(s)
       \/ \E u \in User \ {a} : ApproveHost(u)
       \/ RevokeHost(b)
       \/ OtherWalletChange(a, 0)
    /\ FireOnEnded
    /\ UNCHANGED <<session, hook, leaveDue>>

SearchNext ==
    \/ RunHook
    \/ RunLeave
    \/ \E n \in Session, s \in Socket : Start(n, s)
    \/ \E n \in Session : Cancel(n)
    \/ \E c \in CallId : Accept(c)
    \/ \E s \in Socket : Drop(s)
    \/ SearchHosting

SearchSpec == SearchInit /\ [][SearchNext]_randomVars

SearchFairSpec == SearchSpec /\ RandomFairness
=============================================================================
